# TLA+ models of glc2

glc2 captures what an OpenGL program draws. A *server* process (`src/src/glc2`,
`src/src/server`) creates a buffer in System V shared memory; a *client* library
(`src/src/client`), preloaded into the captured program, hooks the program's
OpenGL, GLX and X11 functions, creates a buffer of its own, and connects to the
server. Everything that passes between processes is a packet in one of these
buffers, and `src/src/common/packetstream.c` is the only concurrent data
structure: it is the core of this project.

## Inventory

| component | state | operations | who it interacts with |
|---|---|---|---|
| packetstream ring buffer, `common/packetstream.c` | `struct ps_state_s` in shared memory: five positions, `free_bytes`, four mutexes, two semaphores, the cancel flag; the headers in the data area; each caller's `ps_packet_t` | open, write, set size, close, cancel of a packet; `ps_buffer_cancel` | every process that attaches |
| data access of a packet | `pos`, `reserved`, the list of fake dma areas of a `ps_packet_t` | read, seek, tell, get size, dma, fake dma and its commit | the ring, the caller's memory |
| life cycle of a buffer | shm segment or private mapping, attributes, cancel flag | init, attach, destroy | kernel (shmget, shmctl), other processes |
| statistics of a buffer | counters | print | nothing reads them |
| server, `server/server.c` | list of clients, next client id, error handler | create, receive, run, send, add and remove a client | its own buffer (reads), each client's buffer (writes) |
| glc2 program, `glc2/glc2.c` | the one server, the SIGINT handler | start, terminate | server |
| client connection, `client/client.c`, `client/main.c` | connection state, two buffers, two packets | create, connect, send, receive, destroy | server through both buffers |
| events, `client/event.c` | lists of callbacks | register, unregister, fire, free | X11, OpenGL, main |
| X11, `client/x11.c` | registered shortcuts, keys that are down | register, unregister, check keys, intercept events | events, the program's Xlib calls |
| OpenGL, `client/opengl.c` | list of contexts, pixel buffer objects | find or create a context, destroy it, swap, finish | events, the program's rendering threads |
| hooks, `client/hook.c` | table of hooked symbols, real functions | init, register, look up, destroy | elfhacks, the dynamic linker |
| elfhacks, `client/elfhacks.c` | parsed dynamic sections | look up a symbol (SysV and GNU hash), set a relocation | hooks |
| client log, `client/log.c` | a stream | print | everything in the client |

What is hard in it, per component, and what makes it correct:

* **Ring buffer.** Producers and consumers of different processes, several
  packets open at the same time, closed in any order; positions that are copied
  under one mutex and used under another; headers that are read before they are
  written, relying on their having been cleared earlier; an end of the area that
  is skipped when no header fits. Correct means: packets never overlap, every
  byte is accounted for once, readers see whole packets in order, only read
  packets make room, waiting callers return. Waits may be refused
  (`PS_PACKET_TRY`), interrupted or cancelled, and a process may die with packets
  open.
* **Data access.** Fake dma areas are copied in and out at other times than they
  are requested, and positions move twice. Correct means: what is read is what
  was written at that position, and a packet can be closed without losing data.
* **Life cycle.** A process may attach before the creator is done, a creator may
  be killed and leave a segment behind, a cancelled buffer has to be freed.
* **Server and client.** A request and its answer go through two buffers; either
  side may fail half-way through a message and keep the other's write mutex; the
  timeout of a connect is not used; the signal handler frees what the main thread
  uses. Correct means: a client gets the answer to its own request, its state
  says whether it is connected, one client's failure does not stop the server.
* **Events, X11, OpenGL.** Callbacks change the list that is being walked;
  lists are shared by rendering threads without a lock. Correct means: a callback
  that is registered is called once per event and none after it is unregistered;
  a context is created once for a drawable.
* **Hooks and elfhacks.** Registration that fails half-way, symbols that share a
  bucket. Correct means: a lookup finds the symbol of that name if there is one.

`PROJECT.json` lists every component and every hazard with its source line.

## Modules

* `PacketRing` - the layout of the data area: positions, where the next packet
  starts, what a packet takes from `free_bytes`, and what a header reads as after
  headers or data have been stored. Data bytes are abstracted to one value,
  `DataAsHeader`: read as a header they have both flags set, the worst they could
  say. A stale header of an earlier lap stays what it was.
* `PacketStream` - the ring buffer as a state machine.
* `PacketStreamProperties` - what it has to guarantee.
* `PacketFifo` - the abstract specification: a bounded queue whose entries are
  filled and read concurrently and finish in any order, without positions,
  semaphores or locks.
* `PacketStreamFifo` - the refinement mapping from the ring to that queue, and
  the meaning of the semaphores.
* `PacketRingProofs` - lemmas about the layout of `PacketRing`, over offsets that never
  wrap.
* `PacketStreamProofs` - the types and the tail of `PacketStream`, for all behaviours.
* `PacketStreamRingProofs` - the inductive invariant of the ring.
* `PacketStreamSafetyProofs` - the safety properties of `PacketStreamProperties` and the
  refinement of `PacketFifo`, read off that invariant.
* `RecursionProofs` - induction and recursive functions over initial segments of the
  naturals, stated with sets.
* `Glc2Connect` - the server, its clients and the life cycle of the segments
  through which they connect, on top of what `PacketStreamFifo` shows a buffer to
  be.
* `Glc2ConnectProofs` - theorems about `Glc2Connect`.
* `PacketIO` - what happens inside one packet: positions, transfers, dma areas.
  It stands on the same `PacketRing` as `PacketStream`, which is about the space
  between packets.
* `PacketIOProofs` - theorems about `PacketIO`.
* `ElfHacks` - finding objects and symbols and redirecting relocations, as operators
  on an object in memory.
* `GlcHook` - `glc_init` with `hook.c`, on top of `ElfHacks`.
* `OpenGLContexts` - the list of contexts, the rendering threads and the callbacks
  that are fired when a context is created, `glc_start` among them.
* `X11Shortcut` - the keys that are down and the shortcuts, with the X server that
  sends the events.
* `OpenGLPbo` - the pixel buffer objects and the program's GL binding.
* `Glc2Client` - the client in the captured program: these five composed.
* `Glc2ClientProofs` - theorems about `Glc2Client`.
* `MCPacketStream`, `MCGlc2Connect`, `MCPacketIO`, `MCGlc2Client` - instances for TLC.

### How PacketStream corresponds to the code

The shared variables have the names of the members of `struct ps_state_s`; the
semaphores are counters, a mutex is its owner. `packet[t]` is the one `ps_packet_t`
that thread `t` uses, `pc[t]` is where the thread is between two atomic steps,
`cursor[t]` is the local `packet_pos` of the closing functions, and `call[t]` holds
the arguments of a running `ps_packet_reserve` and whom it returns to. A function
is split where another thread can act on what it shares: at a mutex, a semaphore
operation, and the iterations of the loops that post or drain a semaphore.

| code | actions |
|---|---|
| `ps_packet_open` (flag test, then mutex) | `Open`, `OpenBusy`, `OpenCancelled` |
| `ps_packet_openwrite` | `OpenWrite` |
| `ps_packet_openread` | `OpenRead`, `ReadWait`, `ReadWaitFails` |
| `ps_packet_reserve` | `CallReserve` in the caller, `ReserveWait`, `ReserveDrain`, `ReserveBusy`, `ReserveInterrupted`, `ReserveCancelled` |
| `ps_packet_write` | `Write` and `FinishWrite`; `WriteSized` once the size is set |
| `ps_packet_setsize` | `SetSize`, `FinishSetSize` (size stored, tail moved, second reserve called), `CommitSize` (next header cleared, mutex released) |
| `ps_packet_cancel` | `CancelPacket` |
| `ps_packet_close`, `closewrite`, `closeread` | `Close` (through the actions of `setsize` if there is no size yet), `LockClose`, `Post`, `ScanOn`, `ScanEnd` |
| `ps_buffer_cancel` | `CancelFlag`, `CancelPostRead`, `CancelPostWritten`, `CancelUnlockRead`, `CancelUnlockWrite` |
| `ps_packet_destroy` of an open packet | `DestroyPacket` |
| a signal that kills the process | `Kill` |

Left out of it: statistics; `seek`, `read` and dma, which only move positions
inside a packet and are in `PacketIO`; the difference between processes and threads (each process is
represented by its threads); the memory model, the steps under a mutex or between
semaphore operations being atomic. After `ps_buffer_cancel` the mutexes are
released whoever holds them, so the safety properties speak of a buffer that is
not cancelled.

### How Glc2Connect corresponds to the code

A buffer is a queue of messages with two mutexes; the ring model is what justifies
that. A packet gets its place in `requests` when its size is set, which releases
`write_mutex` (`writer`); only then does its closer take `write_close_mutex`
(`closer`), mark the packet (`written`) and post what may be read (`posted`). A client
may be killed between any two of these steps. Each start of the server has a buffer of its own, numbered by
start; `named` is the one the well-known key leads to, and `attached[c]` the one
client `c` has found there. `clients`, `max_client` and `id` are the members of
`glc_server` and `glc_client` of those names (the list's first element first), and
`request` is the message the server works on. A client's own buffer is only ever
written by the server and holds its `answers`; `segment[c]` says whether it can
still be attached to.

| code | actions |
|---|---|
| `main`, `glc_server_create`, `ps_buffer_init` of the creator | `CreateServer` (the key leads to the new segment), `ServerReady` (the segment is cleared and initialised) |
| `glc_server_run`, one turn | `ReceiveRequest`, `RegisterClient` (`glc_server_client_new`), `AnswerClient` or `AnswerFails` (`glc_server_msg_sent`) |
| an error in `glc_server_run`, then `terminate(err)` | `Terminate` |
| SIGINT, SIGKILL of the server | `Interrupt`, `KillServer` |
| `glc_start`, `glc_client_create` | `CreateClient` |
| `glc_client_connect`: `ps_buffer_init`, `ps_packet_init` | `Attach`, `AttachFails`, `InitPacket`, `InitPacketFails` |
| `glc_client_message_sent`: `ps_packet_open` | `OpenRequest`, `OpenFails` |
| its `ps_packet_write`, and `ps_packet_setsize` called by `ps_packet_close` | `SizeRequest`, `SendInterrupted` |
| `ps_packet_closewrite` | `MarkRequest`, `MarkFails`, `PostRequest` for each turn of the loop, `CloseRequest` |
| `glc_client_message_receive` | `ReceiveAnswer`, `ReceiveInterrupted` |
| `glc_client_destroy` | `DestroyClient`; `ConnectFails` after an error |
| a captured program is killed | `KillClient` |

Abstracted: what a message says beyond who sent it and which node it carries;
`client->state`, which is what the client's place in `glc_client_connect` implies; a
refused connection, since no server sends node -1; other types of message, since
no client sends them. A client connects once, when its program creates its first
OpenGL context. A mutex that was destroyed while another process has it mapped may
be granted or refused, whoever holds it. One server process runs at a time.
Failures of malloc and of the kernel for lack of memory are left out.

### How PacketIO corresponds to the code

One packet is opened, used and closed again and again by one `ps_packet_t`, first
for writing, then for reading. `buffer_pos`, `flags`, `pos` and `fake_dma` are its
members, `size` is the one in the packet's header and `data` the area of the buffer,
which holds `Unknown` wherever nothing was stored since the packet was opened.
`lent` are the areas of the buffer itself that `ps_packet_dma` has returned: the
caller stores in them later. Three variables are ghosts: `stored` is what the producer
last stored at each position, whichever way, `contested` are the positions a fake
area and another store both cover, and `last` is the last transfer to a reader.

| code | actions |
|---|---|
| `ps_packet_openwrite`, `ps_packet_openread` | `OpenWrite`, `OpenRead` |
| `ps_packet_write`, `ps_packet_read` | `Write`, `Read` |
| `ps_packet_seek` | `Seek` |
| `ps_packet_dma`, `ps_packet_fakedma` | `Dma` where the area fits before the end, else `FakeDma` |
| the caller stores in an area it was given | `StoreInBuffer`, `StoreInFake` |
| `ps_packet_setsize`, `ps_packet_fakedma_cut` | `SetSize` |
| `ps_packet_close`, `ps_packet_fakedma_commitall`, `_freeall` | `CloseWrite`, `CloseRead` |
| `ps_packet_cancel` | `CancelPacket` |

Abstracted: waiting for space and the mutexes, which are `PacketStream`'s; errors that
leave everything as it was, which are guards here; bytes, of which two are told
apart. `malloc` does not fail, and a program does not write to a packet it has open
for reading: the code would not refuse it, but nothing sensible can be said of the
data then.

### How Glc2Client corresponds to the code

The client's parts meet in `glc_init`, which has to succeed before the program's
calls get anywhere, and nowhere else: the list of contexts, the shortcuts and the pixel
buffers share no variable. `shown` therefore picks one of them at the start of a
behaviour, instead of multiplying them. `stage` is how far `glc_init` is.

| code | definitions |
|---|---|
| `eh_find_obj`, `eh_find_callback`, `eh_init_obj`, `eh_check_addr` | `FindObj`, `Narrowed`, `Supported`, `CheckAddr` |
| `eh_find_sym`, `_hash`, `_gnu_hash` | `FindSym`, `FindSymHash`, `FindSymGnuHash` |
| `eh_find_next_dyn`, `eh_set_rel`, `eh_iterate_rel` | `FindNextDyn`, `SetRel`, `IterateRel` |
| `glc_init`, `hook_init`, `hook_register`, `hook_sym` | `HookInit`, `LibraryMissing`, `RegisterHook`, `HookSym` |
| `opengl_context_get` | `Call`, `Find`, `CreateContext`, `LinkContext`, `PublishContext` |
| `opengl_context_destroy` | `Call`, `Find`, `DestroyUnknown`, `Announce`, `Unlink`, `FreeContext` |
| `glXSwapBuffers`, `glFinish` of the client | `Before`, `AfterSwap` |
| firing `opengl.ctx_create`, `glc_start` | `FireListener`, `FireGlcStart`, `FireEnd` |
| `XNextEvent` to `XPeekIfEvent` of the client, `x11_event`, `x11_shortcut_check` | `TakeEvent`, `PeekEvent`, `X11Press`, `X11Release`, `Checked` |
| `x11_register_shortcut`, `x11_unregister_shortcut`, `x11_shortcut_destroy` | `RegisterShortcut`, `UnregisterShortcut`, `DestroyShortcut` |
| `opengl_pbo_supported`, `_create`, `_destroy`, `_start`, `_resize` | `PboSupported`, `PboCreate`, `PboDestroy`, `PboStart`, `PboResize` |
| `opengl_pbo_read`, up to its callback and after it | `PboRead`, `PboReadReturns` |

An object is what the linker and the dynamic linker leave in memory. `MCGlc2Client`
builds its hash tables the way a linker does (those definitions are not of this
repository); the two hash functions are any function of the name. What a table holds
past its end is `Beyond`. In `OpenGLContexts` every access to the list is a step,
since the code takes no lock, and `raced` notes when two calls have met that a lock
would have kept apart. In `X11Shortcut` `misled` notes when an event reached
`x11_event` out of order, at the wrong time or not at all: another window had the focus
when a key was let go, the press of a repeat was still on its way when its release was
looked at, the program took a later event first, or peeked at the release of a repeat,
where the queue still begins with the event itself. A key stands for its key code and its
KeySym. In `OpenGLPbo` `program` is what the program has bound itself and `refused`
notes a failed `glMapBuffer`.

Abstracted: the sizes of drawables; calibration, which is floating point arithmetic;
the text of a shortcut; the saving of GL attributes, which push and pop in pairs.
The program calls the client's functions after `glc_init` has returned and before
`glc_destroy`.

## Runs

| run | asks | bounds |
|---|---|---|
| `safety` | Does the ring implement the queue (`ImplementsFifo`), do both semaphores count its packets (`SemaphoresCount`), is `free_bytes` exact (`FreeBytesExact`), is the header a search ends at clear (`NextHeaderNull`), are packets disjoint (`PacketsDisjoint`), do readers see whole packets (`ReaderSeesCompletePacket`), is only what was read freed (`FreedOnlyIfRead`), does a packet without a size stay at the tail (`WriterAtTail`)? | 2 producers, 2 consumers, area of 8, header of 2, packets of 0, 2 and 3 bytes |
| `faults` | With interrupted waits and killed processes, is space never handed out twice (`FreeBytesNeverOver`), are packets still disjoint and complete when read? | 2 and 2, area of 6, packets of 0 and 1 byte, also one of which more was written than its size |
| `live` | Is every closed packet opened (`WrittenIsOpened`), does every wait for space end (`ReserveReturns`)? | as `faults`, without faults |
| `cancel` | Does `ps_buffer_cancel` get every consumer out of `ps_packet_open`, also those behind the mutex (`CancelWakesConsumers`)? | 1 producer, 2 consumers, area of 6 |
| `try_blocks` | violated: `PS_PACKET_TRY` never blocks | 1 and 1, area of 7 |
| `cancel_lost` | violated: `ps_buffer_cancel` gets producers out of `ps_packet_reserve` | 1 and 1, area of 8 |
| `oversize` | violated: a size that was accepted is set in the end | 1 and 1, area of 8 |
| `connect` | Is no request lost or answered twice, in neither buffer and across restarts (`RequestAccounted`)? Is every closed request posted, unless one in front of it is still open (`PostedInTime`)? Is the id of a client the one its server has for its segment, and nobody else's (`OwnNode`)? Is a client that waits answered while its server runs, unless its posting was left to a client that is killed (`RequestAnswered`)? | 3 clients, one interruptible, one killable; 2 starts of the server, which may be stopped and killed; room for 2 requests |
| `interrupted` | violated: a server that nobody stops answers every request (`ServerAnswers`) | 2 clients, one interruptible; 1 start |
| `data` | Is a reader given what was stored, however both sides got at the data (`DeliveredAsStored`)? Can writing fake areas back fail half-way (`CommitCannotFail`)? Does a packet's data ever reach its own header (`DataApartFromHeader`)? Is a packet that cannot be closed one that loses nothing by being cut (`RefusedLosesNothing`)? Does an area outlive its packet (`NoStaleArea`)? | area of 8, header of 2, packets that start at 3 or 4, transfers of 2 or 3 bytes, 2 fake areas, 6 calls on a packet |
| `session` | Do elfhacks find the right objects, symbols and slots (`ObjectFound`, `SymbolsReached`, `SlotsSet`)? Does a program that runs reach the real functions (`HooksReachReal`)? Is the list of contexts right, and no context used when it is gone, as long as calls stay apart (`ContextsExact`, `ApartIsSafe`)? Does the client know which keys are down (`KeysTracked`), and are callbacks for down and up called in turn (`ShortcutsInTurn`)? Do pixel buffers leave the program's GL state alone (`PboLeavesNoTrace`)? | 2 threads, 3 windows, 3 contexts; 2 keys, 2 shortcuts, 5 instants, 2 events queued; 2 pixel buffers, callbacks 2 deep; tables of 3 symbols |
| `hash_chain` | violated: `eh_find_sym` finds every symbol of the object (`SymbolsFound`) | tables of 3 symbols |

Why the bounds are enough. The ring only ever compares a position with the end of
the area less a header, so a header of 2 bytes is the smallest with an end that is
skipped (by one byte), and areas of 6 to 8 make packets wrap, end exactly at the
end and leave the skipped byte, in every lap. Two packets of each kind open at the
same time are what closing out of order needs; a third only makes the search for
closed packets longer. In the passing runs `MaxSize` keeps
`size + 3 * HeaderSize - 1 <= Size`; `oversize` shows what happens beyond, between
that and the check the code makes. Every space that an interrupted call loses
lowers `free_bytes` for good: `ReserveInterrupted` stops at `-Size`, long after no
call can succeed any more. `safety` uses the symmetry of producers and of consumers,
no run of a liveness property does. Deadlock is checked in `safety` and `live`;
the other runs stop where a killed, interrupted or cancelled program does, and
those of `Glc2Connect` where every client has ended.

In `connect` three clients are one to wait, one to be in its way and one that is
registered between them; two starts let a client meet the segment of a server that
is gone, one that is being initialised, and one whose ids were handed out before.
Two slots are the fewest with a packet that is closed behind one that is not, and the third
client finds the buffer full, which is when a write can be interrupted.

In `data` a packet of up to 4 bytes that starts at 3 or 4 wraps after its third or
second byte, so that every transfer of 2 or 3 bytes may end before the end, at it or
behind it. Two areas in the list are what taking a free element again and writing back
in order need. Six calls let a fake area be lent, stored in, overlapped, cut by a new
size and followed by another transfer.

In `session` three symbols and hashes out of {0, 1, 3, 6} give chains of one to three,
hashes that differ in the lowest bit only, and symbols the Bloom filter refuses, in one
or two buckets, with all or two of the symbols in DT_GNU_HASH; the entries of .dynamic
come in every order and number. Three contexts are a first, a middle and a last one to
take out. Only states up to the first meeting of two calls are explored (`CallsApart`):
nothing is claimed behind it, and what does happen there is that contexts are created
twice, lost and used after they are freed. Threads and contexts are
interchangeable. It may end wherever a program does.

`safety` gives `PS_PACKET_TRY` to its producers because it only adds steps: waiting
is the absence of a step. That waits end is the question of `live`, without it.

Fairness (`LiveSpec`). A thread inside a call goes on, and one that has a packet
open uses and closes it: weak fairness of its steps. Consumers open packets again
and again, as the loops in `server.c` do: weak fairness of `Open`. Nobody has to
open a packet for writing or to cancel the buffer; once `ps_buffer_cancel` has
begun it runs to its end. In `Glc2Connect` the server's loop and each client go on;
nothing makes anybody start a server, interrupt a wait or kill a process. No
fairness is assumed of signals. Weak fairness is
enough because a mutex or a semaphore is contended by one thread at a time in the
properties that are claimed, or is left free for good after a cancel.

### What the violated properties show

* `TryNeverBlocks`. `packetstream.h:364` says that with `PS_PACKET_TRY` all calls
  return EBUSY instead of blocking. `ps_packet_setsize` drops the flag when it has
  set the size and then reserves the next header (`packetstream.c:443`), and
  `ps_packet_close` drops it at once (`packetstream.c:472`): both then wait.
* `CancelWakesProducers`. `ps_buffer_cancel` posts `read_packets` once. If a producer
  is in the inner loop of `ps_packet_reserve` its `sem_trywait` takes that token for
  a packet, without a test of the flag, and the next `sem_wait` waits for ever.
* `SetSizeLetsOthersOpen`. The size check leaves room for two headers but not for
  the bytes skipped at the end of the area: a large packet at an unlucky position
  needs more than the whole area and its producer waits for ever, holding
  `write_mutex`.
* `ServerAnswers`. `format.h:313` says that the server answers a connect request. A
  client whose wait is interrupted destroys its segment; the server then fails to
  attach to it or to write to it, `glc_server_run` returns that error (`glc2.c` has a
  handler, `handle_error`, that it never installs) and `main` destroys the buffer with
  the other clients' requests in it. They wait for ever, the timeout of
  `glc_client_connect` not being used.
* `SymbolsFound`. `elfhacks.h:152` says that `eh_find_sym` finds a symbol in the object's
  `.dynsym`. `eh_find_sym_hash` does not follow the chain of DT_HASH but reads the links
  that lie behind one another (`elfhacks.c:302`): the third symbol of a chain may be missed,
  or looked for past the end of the table. `SymbolsReached` claims what is left: the first
  two of a chain are found, and whatever is returned is the symbol asked for.

### Seen on the way

These are modelled as they are, and no run is about them. The first three contradict what
the repository says.

* A client releases `write_mutex` in `ps_packet_setsize` (`packetstream.c:459`) before its
  packet is marked (609). If it is killed in between, `write_pos` stays at that packet:
  clients behind it fail the test at line 610 and post nothing, and a server that runs never
  sees their requests, whatever `format.h:313` says. So it is behind a client that is killed
  inside `write_close_mutex`. `Orphaned` are these clients; `RequestAnswered` says that as
  long as the server runs nobody else who has closed its packet is kept waiting. Who has not
  opened one yet may find `write_mutex` taken for good. (`Glc2Connect_interrupted.cfg` with
  `Interruptible = {}`, `Killable = {app2}` and `MaxRequests = 2` has TLC show such a
  counterexample to `ServerAnswers`.)
* For a packet open for reading a fake area is filled by `ps_packet_read`, which moves the
  position, and then `ps_packet_dma` moves it again (`packetstream.c:747` and 755): the
  bytes behind the area are skipped. `packetstream.h:452` says that `ps_packet_dma` moves the
  position by the size of the area.
* `x11_unregister_shortcut` looks one element ahead in the list and takes out the one in front
  (`x11.c:186`), and reads a NULL pointer at the end of the list. `x11.h:85` says that it
  unregisters a callback. `x11_shortcut_destroy`, which `x11.h:93` says destroys a shortcut
  and which calls it until the list is empty, only comes back from an empty list.

The repository promises nothing that the others contradict. The properties of `session` are
conditioned on the last three not happening, which means that they do not catch them.

* `hook_register` closes a handle that is NULL when the library cannot be opened.
* `eh_set_rel` reads a NULL pointer if an object has DT_JMPREL without DT_PLTREL.
* A callback of `opengl.ctx_create` that unregisters itself, as `glc_start` does, is freed
  while the loop that called it still needs its `next`.
* Two threads that render to a new drawable at once create two contexts for it.
  `ContextsExact` and `ApartIsSafe` end where two such calls meet (`raced`).
* When `glMapBuffer` fails, `opengl_pbo_read` leaves its buffer bound;
  `PboLeavesNoTrace` claims nothing of the binding after that (`refused`).
* If the press of a repeat arrives after its release was looked at, the key counts as
  released until it is pressed again; `KeysTracked` ends there (`misled`).

## Proofs

`PacketStreamProofs` proves, for any sets of threads, any sizes with
`RingAssumption`, `ThreadAssumption` and `SizeAssumption`, and every mixture of try,
interrupted, killed and cancelled callers:

* `TypeCorrect`, `Spec => []TypeOK`. Inductive as it stands. Its content is that no
  position ever points where a header would run over the end of the area
  (`NextPosType`), and that no packet takes less than its header (`FootprintType`).
* `WriterCorrect`, `Spec => []WriterAtTail`: a packet without a size is at `write_next`
  and its producer holds `write_mutex`, so that `ps_packet_setsize`, which advances
  `write_next` from where it finds it, advances it from its own packet. It is not
  inductive: nothing in it keeps a second producer out of `ps_packet_reserve`.
  `WriterInv` adds, for each thread, that only producers with a packet open for
  writing reserve space, that they hold `write_mutex` while they do, that the second
  reserve of `ps_packet_setsize` is for a packet whose size is set, and that
  `ps_buffer_cancel` sets its flag before it unlocks anything. `OtherWriters` shows
  once for all actions that a step which moves the tail or the mutex only while
  holding it leaves the other threads alone.

`PacketStreamRingProofs` proves `RingCorrect`, `Spec => []RingInv`, and with it
`PacketStreamSafetyProofs` proves every safety property of the ring that a run checks. The
invariant, `Ring`, sees the ring as a list that never shrinks: packet `i` starts at offset
`off[i]`, which counts bytes from the start of the program, so that its place is
`off[i] % Size`, and the next one starts a footprint further on (`Laid`). The five shared
positions are indices into that list, `f <= r <= b <= w <= n`: of the oldest packet that
takes space, the first no reader has posted, the first not opened for reading, the first no
producer has posted, the one being built (`Indexed`). What makes it inductive:

* `Marked` says how far the headers are marked `WRITTEN` and `READ`: the search of
  `ps_packet_close` ends at a header that says the packet behind it is not closed, so the
  one at `n` has to be clear, and the ones from `w` on tell which producers are done.
* `Used` ties each packet in use to an index of its own, `Committing` and `Accounted` tie
  what its producer has claimed to what the packet will take and to `free_bytes`.
* `PhaseInv` says which mutex a thread holds where, so that a step of one thread leaves
  what the others rely on alone (`QuietRing`, `ClaimRing`, `BuilderStep`).

`PacketRingProofs` has the arithmetic: packets at offsets less than `Size` apart share no
byte of the area (`CellsApart`), so what is stored for one leaves the headers of the
others as they were (`StoreHeaderApart`, `StoreDataBehind`, `StoreDataBefore`).

Two hypotheses are needed and named. `CommitUninterrupted`: no signal interrupts the
second reserve of `ps_packet_setsize`. When one does, the size is visible and `write_next`
has moved, but the next header is not cleared: the packet is half made and the code does
not recover, so nothing of this holds. `Lossless`, for `FreeBytesExact` only: an
interrupted reserve leaves its claim behind; `FreeBytesNeverOver` is what remains of the
accounting then. `SemaphoresCorrect` and `FifoCorrect` exclude `ps_buffer_cancel`, which
posts tokens that stand for no packet and unlocks mutexes of others; the other theorems
hold until it is called.

* `FreeBytesCorrect`, `NeverOverCorrect`, `NextHeaderCorrect`, `ReaderCorrect`,
  `DisjointCorrect` are read off `Ring` in one state; `FreedCorrect` of a step.
* `SemaphoresCorrect` and `FifoCorrect` need what the walk from header to header, a
  recursive function, computes. `WalkIs` shows by induction over the list that it meets
  the packets from `f` to `n` in order, and `QueueIs` that the queue is these packets. `StepFifo` then has each step that moves an index
  or marks a header as the queue operation of that name (`SetSize`, `Publish`, `OpenOldest`, `CloseRead`, `TakeBack`),
  and every other step as a stutter; `SizesFit` bounds what the callers ask for.

`Glc2ConnectProofs` proves, for any number of clients, any capacity and any number
of restarts, whoever may be interrupted or killed (`ConnectAssumption`):

* `TypeCorrect`, `Spec => []TypeOK`, which needs more than the types: the server
  answers the client it finds in its list, so there has to be one
  (`AnswersRegistered`).
* `OwnNodeCorrect`, `Spec => []OwnNode`. `OwnNode` speaks of ids that clients have read;
  the invariant, `NodeInv`, follows each id from the counter to the client. Ids in
  the list are below `max_client` (`NodesUsedUp`); what the server works on came out of
  its own buffer and, once registered, is the first entry (`RequestOwned`); its id
  has not reached anybody (`NodeUnanswered`); ids that were sent, read or not, are in
  the list (`NodesRecorded`) and differ among the clients of one server
  (`NodesDistinct`). `LatestNamed` and `NothingBefore` separate the servers: a client
  that attaches to a new one brings no id of an old one.
* `RequestCorrect`, `Spec => []RequestAccounted`, from `AccountInv`: a client's request is
  in its server's buffer once, or worked on, or answered once, and nowhere before it was
  sent (`OnePlace`); the server works on none while it looks for one, and nobody writes
  to a buffer that is not initialised, which would be cleared (`InTurn`); the request of a
  client that has set its size, and whose server runs, is somewhere (`SomePlace`).
* `PostedCorrect`, `Spec => []PostedInTime`, from `PostInv`: when nobody is inside
  `write_close_mutex`, the oldest packet that is not posted is open (`FirstOpen`). A closer
  leaves it so because it goes on until it finds one that is open; that nobody else marks one
  meanwhile is `CloserPosts`, a client that posts holds the mutex; and a packet that becomes
  the oldest because all others are posted is open when it is put into the queue, no client
  being among the marked before it closes its packet (`MarkedLater`).

`PacketIOProofs` proves, for areas, headers, transfers and lists of fake areas of any size,
starting anywhere in the ring (`RingAssumption`, `IOAssumption`):

* `TypeCorrect`, `CommitCorrect`, `NoStaleCorrect`, `DataApartCorrect` and `RefusedCorrect`, from one
  invariant, `IOInv`. `CommitCannotFail` and `RefusedLosesNothing` are not inductive: a byte is
  stored in an area long after it was lent, and the size may have been set meanwhile.
  `LentInside` keeps every area that was lent clear of the last two headers, `Closable` says
  the same of the size of a packet that has one, and `HeaderKept` is all that is left while
  positions are sought.
* `DataCorrect`, `Spec => []DeliveredAsStored`. `DataInv` says where the last byte stored at
  each position is: in the fake area over it if there is one (`AreasHold`), else in the buffer
  (`BufferHolds`), unless areas overlap (`OverlapContested`). Before the size is set it
  lies below the size (`StoredInside`), so that cutting the areas only takes what is cut
  from the packet. `CellDistance` reduces the wrapping to arithmetic, once: the bytes of a packet
  are as far apart as their positions. From it follow what copying and writing back leave at
  every position (`CopiedAt`, `CommittedAt`), and `WrittenHolds` carries it over to the reader.
  Min and Max, which pick an element of the list, need a least element to exist; that comes
  from the well-foundedness of the naturals (`MinType`, `MaxType`).

`Glc2ClientProofs` proves, for any libraries, threads, drawables, keys and buffers, every
property of the client that a run checks. The parts share no variable, so each has an invariant
of its own (`ClientInv`) that the others' steps leave alone.

* `HooksCorrect`. `HookInv`: as long as the program has not ended, everything in the list
  has its real function, and the sets whose turn is over are in it whole.
* `KeysCorrect` and `ShortcutsCorrect`. `Tracked` tells what `x11.keys_pressed` will be from
  the events that are still in the queue: of a key nothing is said of, what it is
  (`NoneLeft`); else the last event about it agrees with the user (`LastTells`). That a
  repeat's press is not taken for one that was handled needs the times of the events
  (`Timely`, `PressPending`) and that its key is down when its release is taken
  (`RepeatsDown`). `X11Inv`, with `ShortcutsInTurn`, holds however events are lost.
* `PboCorrect`. `Nested` says of the calls in progress that each remembers the binding that
  was there before it, from the innermost out, and that only their buffers are mapped.
* `ContextsCorrect` and `ApartCorrect`. `GlInv` has the linked list as a sequence (`Linked`),
  what each thread is about to do to it (`Placed`), and, before any two calls have met, that
  at most one thread is inside and nobody renders to what is destroyed (`Apart`). What is allocated is in the sequence or held by
  that thread. `StartsOnce` says why `glc_start` cannot be called again. The list is walked
  by the recursive function `Nth`; that it goes through the sequence is `NthLinked`.

* `ObjectCorrect`, `SymbolsCorrect`, `SlotsCorrect`. `ElfInv` says that the answer of a call
  is what its operator computes of the object; the rest is about the operators.
  `FindObjIs` follows the search through the link map by induction: after `i` objects it
  has found none that matches, or the last one with the name of the first
  (`TurnSearched`). `GnuHashFinds` and `HashFinds` do the two tables, `TableIs` and
  `SlotsAre` the relocations.
* `TypeCorrect` collects the types; that `x11.keys_pressed` has no key twice
  (`KeysCounted`) is the part of it that is more than a type.

Assumptions on constants, beyond those of sizes and counts, are that names of different
things differ: `NullIsNoSymbol`, `NullIsNoPattern`, `NullIsNoIndex`, `NamesAreGiven`,
`NoCell`, `BuffersApart`, `ListenersDiffer`; that there is some time (`TimeBound`); that
`Exports` tells only of functions that hooks are registered for (`ExportsAreHooks`); and
that the objects elfhacks is used on are as the linker and the dynamic linker make them
(`MapsAreLists`, `ObjectsLinked`). The last is what `WellLinked` spells out: the addresses
in `.dynamic` are relocated all or not at all, as in the vdso (`RelocatedWhole`);
`DT_PLTRELSZ` is the size of the table (`RelocationsSized`); the links of DT_HASH lead to
symbols (`HashLinked`), and DT_GNU_HASH has each of its symbols in the chain of its bucket
and in the Bloom filter (`GnuLinked`). The code checks none of that but for the vdso. No
order of symbols in a chain of DT_HASH is assumed, which is why `SymbolsReached`
claims only the first two. TLC evaluates all of these in `session`, on the tables `MCGlc2Client` builds.

`RecursionProofs` replaces the library's theorems of induction, which take an operator as
a parameter: that a property holds up to `n` is that the set of the numbers it holds of
contains `0` and with each number the next (`InductionTo`), from the well-foundedness of
the naturals (`SmallestOf`); and a function given by recursion exists because the set of
the lengths up to which it does is such a set (`RecursionTo`).

Every invariant and every step property that a passing run checks is a theorem. Only
model-checked is liveness (`WrittenIsOpened`, `ReserveReturns`, `CancelWakesConsumers`,
`RequestAnswered`), which is out of the prover's reach, and, with `ps_buffer_cancel` or a
signal in the second reserve of `ps_packet_setsize`, nothing is claimed of the ring but
the types and `WriterAtTail`.

## Plan

The ring with its abstract queue, the data inside a packet, the connection of clients to
the server with the life cycle of the segments, and the client's parts are modelled, and
their safety properties are proved. Left, in this order:

1. A second server that starts while one runs or ends, in `Glc2Connect`, where the key is
   freed between the two `shmget` calls of `ps_buffer_init`.
2. What of the ring survives an interrupted second reserve of `ps_packet_setsize`: the
   packet is half made, but packets before it are still delivered.

## Not modelled

* Statistics and the log only count and print. `server/glc2-server.h` is included by no
  file.
* Setting and reading the attributes of a buffer: assignments before it is created.
* Calibration in `x11.c`, `opengl_pixels_read` and the upload of pixels in `opengl.c`:
  arithmetic on, and calls to, external libraries. The sizes of drawables and the
  callbacks of a resize.
* `glc_destroy` and calls of `dlsym` before `glc_init` or after `glc_destroy`: when they
  happen is up to the dynamic linker and to other libraries in the process.
* The lists of callbacks that nobody in the repository registers with.
* What is left of a buffer after an interrupted second reserve of `ps_packet_setsize`,
  from which the code does not recover.
