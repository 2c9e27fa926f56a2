# A verification of srt_push

srt_push is a small C++ library that pushes a media stream over SRT. This
directory holds TLA+ models of its code, the TLC configurations that check them
on small instances, and proofs of what holds for every instance. Paths are
relative to `src/native/` unless they start with `src/`.

    tlc -config LibSrt_caller.cfg MCLibSrt.tla     # model-check one run
    tlapm LibSrtProofs.tla                         # check the proofs of one module

## 1. The system

| component | code | state | operations |
|---|---|---|---|
| LibSrt | `srtcore/libsrt.{hpp,cpp}`, `libsrt_utils.hpp`, `libsrt_param.hpp` | `quitIO`, `sockFd`, `eid`, `maxPacketSize`; sockets and epolls inside the SRT library | `open`, `read`, `write`, `close`, `quit` |
| SRTPush, push program | `srtcore/srt_push.{hpp,cpp}`, `src/test/test_push.cpp` | `handle_`, `success_`; the flag `quit` of the program, two threads | constructor, `write`, `release`, destructor; `main`, `push` |
| Semaphore | `base/semaphore.{hpp,inl,cpp}` | `curCount`, mutex, condition variable | `Post`, `Wait`, `TryWait`, `TimedWait` |
| XATask | `base/xatask.hpp`, `computing.hpp` (`Timing`, `Counting`) | `quit`, `hasRun`, the two computations, a thread | constructor, `update`, destructor, the thread's `run` |
| XTask | `base/xtask.hpp`, `computing.hpp` (`Counting`, `Ticking`) | `cnt`, `tick`, `isPause` | `run`, `reset`, `setMaxRunCount`, `setMaxRunTime`, `pauseOn`, `pauseOff` |
| CalcSample, FPS, Bitrate | `base/calc_sample.hpp`, `fps.hpp`, `bitrate.hpp` | a ring of samples, a running sum, two clocks | `update` |
| Type lists | `base/template.hpp` | none: evaluated by the compiler | the templates `TypeList*`, `TypeDict*` |
| Mux | `tscore/ts_mux.{hpp,cpp}`, `tstream.{hpp,cpp}` | `header`, `pes` and the tables, the continuity counters | `TSMux::write`, `writeFrame`, `writePacket`, `PES::writePayload` |
| CRC, bit stream | `tscore/crc.hpp`, `base/bitstream.hpp` | none | pure functions |
| Buffer, Packet | `base/buffer.hpp`, `packet.hpp` | bytes, offset, length | accessors |
| XLog | `base/xlog.{hpp,cpp}` | two loggers behind a mutex, a path | `setTextPath`, `log` |
| ADTS | `base/aac_parse.hpp` | none | the two parsers |
| File system | `base/file_system.hpp` | the directories of the system | `mkdir_p`, questions about space |
| SPHolder, SEI, guards, time, shell, utilities | the rest of `base/` | little or none | pure functions, I/O |
| Public interface, JNI | `interface/`, `JNI/` | none | empty bodies and abstract classes |

How they interact. The program's push thread makes an `SRTPush`, which makes a
`LibSrt` and opens it; the main thread waits for the key `q`, sets a flag the
push thread polls, and joins it. `LibSrt` calls the SRT library, which is not in
the repository: sockets and epoll instances are integers, readiness comes back
in arrays, and another thread stops a wait through the polled flag `quitIO`.
`XATask` naps on a `Semaphore` on a thread of its own. `XTask` and `CalcSample`
are driven by whoever calls them. `TSMux` owns a `TStream`, which cuts frames
into packets in a `Buffer` and hands it to a callback; nothing connects the
callback to `SRTPush` yet. `XLog` is called from everywhere, on any thread. The
ADTS parsers and `mkdir_p` have no caller in the repository. The public
interface calls nothing yet.

What is hard here:

- **Early exits.** `open()` has a dozen points where a library call fails, each
  leaving with other resources already made.
- **Unsynchronised members.** `close()` and `quit()` may come from another
  thread at any point; `eid` and `sockFd` are published and reset one after the
  other.
- **Waits.** Every wait polls in slices; `rw_timeout` is -1 by default, so what
  ends a wait is an event, an error, or `quitIO`.
- **Condition variables.** Spurious wakeups, barging, a count that starts below
  zero.
- **Races on plain integers.** `XATask::update` and the worker read and write
  `Timing::val` with no lock.
- **Order of legal calls.** Maxima of an `XTask` lowered and raised between
  runs, pauses during one; a ring that wraps; `release()` of an `SRTPush` and
  then its destructor, or beside a `write()`.
- **Lazy set-up.** The loggers are made in the initialisers of statics, which
  lock, wait for each other and may throw.
- **Lengths.** What the mux counts of a frame, what it writes of it and where it
  puts the offset are three computations.

What makes each component correct:

- `LibSrt`: no socket and no epoll is lost on any path; an opened handle is
  connected and polled on its own socket; at most one message goes out after a
  request to stop; every call comes back.
- `SRTPush` and program: after `q`, the program ends and has closed everything.
- `Semaphore`: it is a counting semaphore, and no wakeup is lost.
- `XATask`: the callback runs only after a quiet nap, is lost only in one known
  race, and the destructor returns.
- `XTask`: a start is earned, happens once per reset, and respects a pause.
- `CalcSample`: the ring holds the latest samples; what the sum is the sum of;
  when the integer division traps.
- Type lists: the templates compute what their names say on sequences and maps.
- Mux: a frame ends, and all of it is in the packets. Neither holds; the
  properties say exactly what happens instead.
- `XLog`: the text logger writes where it was told to; every `log()` returns.
- `SRTPush` on its own: what its users have to keep to, and that it is enough.
- ADTS: the fields are the bits of the header. `mkdir_p`: the directory is there,
  or the system refused it.

`PROJECT.json` lists each place where one of these is at risk (`hazards`) with
the properties that watch it.

## 2. The modules

| module | models | is |
|---|---|---|
| `SrtApi` | the SRT library as the code uses it (external) | variables, operators for its calls, what the network does by itself |
| `LibSrt` | class `LibSrt` and its helpers, extends `SrtApi` | 2 threads, one action per step |
| `SrtHandle` | what a handle promises | abstract specification, implemented by `LibSrt` |
| `MCLibSrt` | | a statement of a comment that the code does not keep |
| `PushTest` | the program, through `SRTPush`, extends `LibSrt` | composition: the push thread is the owner of the handle |
| `SRTPush` | class `SRTPush` in the hands of several threads | any number of users |
| `Semaphore` | class `Semaphore` | any number of threads |
| `CountingSemaphore` | what a semaphore promises | abstract specification, implemented by `Semaphore` |
| `MCSemaphore` | | a negative initial count, symmetry |
| `XATask` | class `XATask` with `Timing`, `Counting` | worker, updater, destroying thread |
| `XTask` | class `XTask` with `Counting`, `Ticking` | one caller, pauses from anywhere |
| `CalcSample` | `CalcSample`, `FPS`, `Bitrate` | one caller |
| `TypeList` | `template.hpp` | the templates' recursions, over one list and one dictionary that programs go on changing |
| `TStream` | `TSMux`, `TStream`, over `Buffer` and `Packet` | two users, one of each public way in |
| `XLog` | the loggers' set-up | any number of threads, `setTextPath` from anywhere |
| `AACParse` | the ADTS parsers | pure operators on sets of bits |
| `MkdirP` | `mkdir_p` | any number of processes |
| `MCParts` | | `XLog`, `SRTPush`, `AACParse`, `MkdirP`, `CalcSample` in one instance |
| `LibSrtProofs`, `SemaphoreProofs`, `XATaskProofs`, `XTaskProofs`, `TStreamProofs`, `TypeListProofs` | | theorems and proofs about the module of the name, the first about `PushTest` too |
| `PartsProofs` | | theorems and proofs about the five parts of `MCParts` |
| `FoldProofs` | | induction, and what a fold is: used by the last two |

Names of definitions are those of the code where TLA+ allows it; `map` in
`PROJECT.json` gives the lines each stands for.

### LibSrt

State: the four members of the class under their own names; `res`, `sock`
(`fd`, the socket being tried), `writeEid` and `waitEid` (`tmp_eid`, or the
`eid` that `read` and `write` copied) are the locals of the running call; `pc`
says where each thread is; `op` and `ok` the owner's last call and its result;
`expired` that the running wait's timeout has passed; `lateIO` counts message
calls after a stop. The library's side is in `SrtApi`: the status of each
socket, its level-triggered readiness, and each epoll's socket and subscription.

Thread `owner` calls `open`, `read`, `write` and `close` one after the other.
Thread `ctl` calls `quit` and `close` at any time. A call is cut into steps
where it touches a member the other thread touches and where a library call may
fail; what lies between is one step. The loop of
`libsrt_network_wait_fd_timeout` is two steps a turn: the look at `quitIO`, then
the poll with its errors and timeout. `close()` is three: set `quitIO`, release
the epoll, close the socket. In each of the last two the test of the member, the
library call and the reset of the member are one step, since two closers that
meet there release the same identifier twice, which the library answers with an
error and no effect.

What is assumed of the library (external, written from how the code uses it):
identifiers are positive and are not used again; a call on a dead identifier is
an error without effect; `srt_epoll_wait` fills its read array for IN or ERR and
its write array for OUT or ERR, among the subscribed events. Any call may fail,
with or without a system errno where the code tells the two apart. A failing
`libsrt_socket_nonblock`, which the code only logs, has no effect in the model; a
socket that stays blocking, whose calls might not come back, is not modelled.

What is assumed of the caller: `open()` is called on a new handle, after a
failed `open()` or after the owner's `close()`, with no other thread in
`close()` (`OpenStart`). Nothing in the class enforces it: opening again without
closing loses the socket and the epoll. `close()` and `quit()` come after the
first `open()`, since the members are uninitialized before it; the model starts
from any value of them. So no property is about an `open()` on an open handle, a
`close()` before the first `open()`, or what these do to the sockets of others.

Behaviours the model has and the properties allow, which a user should know:
a `quit()` before `open()` is forgotten; a `close()` from another thread while
`open()` publishes may leave the socket open and up until the next `close()`;
every `write()` of a handle opened with `SRTIOFlag::WRITE` fails (section 6).

### PushTest

`PushTest` adds the two threads of the program and the members of `SRTPush` to
`LibSrt`, whose `owner` becomes the push thread. No `ctl` action is taken: the
program never calls `quit()`. `FileBlocks` bounds the whole blocks of the file;
the short read at the end seeks and starts over, as in the code, without going
back to the first block, so the thread spins there until it sees `quit`.

### Semaphore

What a method does while it holds the mutex is one action; waiting splits it.
`pc` is `asleep` in the wait set and `awake` between leaving it and taking the
mutex. A timeout and a spurious wakeup are one action, `WakeAlone`: the class
cannot tell them apart. `Post` notifies with the mutex held. `CountingSemaphore`
has no wait set: a call is begun, and ends with a token or, if it is timed,
without one. A thread may overtake another that was notified (barging), so one
thread may starve; what is promised is that a token does not lie unused.

### XATask

The worker's `run`, `update` and the destructor are three program counters.
`Timing::val` and `Counting::val` are plain integers that two threads use: each
read and each write another thread can tell apart is a step. A nap is measured
by a clock that may say anything from 0 up: a nap with a token may have lasted
the whole time (`tardy`). `kicked`, `tardy`, `overlap` and `few` are history
variables. `Semaphore` appears as its abstraction, a number of tokens.

### XTask

One thread calls `run` and the setters; `pauseOn`, `pauseOff` come from
anywhere, in between `run`'s look at `isPause` and the rest. The rest of `run`
is one step with two readings of the clock. The task may itself call anything
but `run`. `calls`, `since`, `starts`, `lowered`, `raised` and `late` are
history variables since the last `reset()`.

### CalcSample

Samples are pairs (tick, size), the rate the pair whose quotient it is.
`TIME_INTERVAL >= NB_SAMPLE` is assumed, as in the one instance of the code (a
second in microseconds, and 100 samples). `taken` is the history of samples.

### TypeList

A list is a sequence, a dictionary a sequence of pairs, a template the recursion
its partial specialisations spell out. They come in three kinds: a template that
ends at an element is a `Search` over the places it can end at, one that goes
through the whole pack and keeps some of it a `Collect`, and one that carries
something along a fold. `IllFormed` is an instantiation the compiler refuses.
The result of each template was compared with what g++ makes of the header.
`TypeListInsert` is ambiguous except at the end. Two aliases are never well
formed: `TypeDictCat` names a template that takes no dictionary (line 401), and
`TypeDictFromKeyListAndValueList` starts its recursion from a list where every
specialisation wants a dictionary (line 372). What is modelled is the recursion
behind each.

### TStream

Bytes are counted, not kept. The first user has a `TSMux`: `NewTS`, `WriteTable`
and `WriteFrame` are the calls of `newTS()`, of `writePAT()` and `writePMT()`
(private, and called by nobody), and of `TSMux::write`, with `Turn` a turn of
the loop of `writeFrame`. `writePacket` gives a packet up that has an adaptation
field, and comes to the virtual `type()` for any other, whose object the
constructor has zeroed, virtuals and all; so what follows in `writePacket` is
never reached. `header` and `counter` are what the loop goes on changing.

The second user calls the public `PES::writePayload` on buffers of its own, with
adaptation fields of its own, as long as `payload_len` is positive, which is the
loop `writeFrame` would be if `writePacket` went on. `source`, `left` and
`offset` are its frame, its `payload_len` and the offset of the frame's body.
`asserts` is the build: with assertions `Buffer::setOffsetIndex` ends the
program, without them the offset is stored. A copy past the end of the body may
end the program or not. `SizeofPES` is what g++ makes of the class on a 64-bit
machine. A prefix that leaves no room for the body is outside the contract.

### SRTPush

The handle inside is there or not, and calls into it come back: `LibSrt` has its
own module. `write()` is three steps: the test, the second reading of the
pointer, the return; `release()` two, around `LibSrt::close`. A user that drops
the object last destroys it, which is one more `release()`. `overlapped` and
`releases` record what the users did.

### XLog

A static is `unset`, `set`, or the thread in its initialiser, which copies the
path (`Initialise`), locks `LoggerLock` (`Lock`) and makes the logger (`Get`) or
throws (`Throws`). Assigning a string takes two steps, and a copy in between
reads the old one, the new one or neither (`Torn`). `setTextPath` calls do not
overlap each other: who calls it twice at once has to lock.

### AACParse, MkdirP

A number is the set of its one bits; shifts and masks are what they are on
sets. A path is a sequence of characters and no empty one, since the code looks
at the character before its end; a directory is the sequence of its names, which
a fold reads off the path (`Reading`). `mkdir(2)` is the system's: the parent has
to be there, the directory not, and the last name is not a dot (`Makeable`). Even
then it may fail whenever it is called, as it does without permission or space, on
a read-only system, for a name too long or where a file has the name; `refused`
is the history of that, and of a copy of the path for which there was no memory.
`..` and links are not modelled, nor directories that somebody removes meanwhile;
the path is not null, which `strdup` would read before the test for it.

### MCParts

The five parts share no state and never call each other, so their interleavings
say nothing. `active`, chosen at the start, is the part that moves; the states of
the parts add up instead of multiplying.

## 3. What each run checks

Every run finishes in well under a minute.

| run | bounds | properties |
|---|---|---|
| `LibSrt_caller` | caller, READ, two addresses, no timeout, POST options, 3 sockets, 4 epolls | `NoSocketLeak`, `NothingHeldAtRest`, `AtMostOneIoAfterQuit`, `IoOnAwaitedSocket`, `QuitInterrupts`, `ImplementsFairHandle` |
| `LibSrt_rendezvous` | rendezvous, READ, two addresses, `rw_timeout`, POST options | `TypeOK`, `OpenedHandleUsable`, `ImplementsHandle`, `CallsReturn` |
| `LibSrt_listener` | listener, WRITE, `listen_timeout` | `NoEpollLeak`, `ListenerNeverOpens`, `CallsReturn` |
| `LibSrt_write` | one address | violated, section 6 |
| `PushTest` | caller, WRITE, two addresses, a file of two blocks | `EndsClean`, `ProgramEnds` |
| `Semaphore` | three threads, initial count -1, four posts | `TypeOK`, `NoLostWakeup`, `ImplementsCounting`, `ImplementsFairCounting` |
| `XATask` | both plans, `max_cntout` 2, `max_timeout` 2, three updates | `CallbackAfterQuietNap`, `MissedOnlyByLateReset`, `DestructorReturns`, `WorkerEnds` |
| `XTask` | both plans, maxima in 0..2, clock to 4, three runs per reset | `OneStartPerReset`, `SkippedOnlyIfLowered`, `OneStartAfterPause`, `StartIsEarned` |
| `CalcSample_sum` | FPS, ring of 2 | violated, section 6 |
| `TypeList` | lists to length 3 over 3 types, three insertions of 3 keys and 2 values | `PositionsAgree`, `EditsKeepTheRest`, `DictIsMap` |
| `TStream` | bodies of 0, 22, 149, 170 and 334 bytes, heads of 0 and 30, fields of 0, 8 and 100 | `FrameHoldsThread`, `AssertsStopPayload`, `TailBounded` |
| `MCParts`: `XLog` | three threads, two paths | `LogsWhereSet`, `LogReturns` |
| `MCParts`: `SRTPush` | three users, two calls of `release()` | `ReleasedOnce` |
| `MCParts`: `AACParse` | headers with at most two one bits | `FieldsAreTheHeader` |
| `MCParts`: `MkdirP` | two processes, six paths, any `mkdir` refused | `DirectoryIsThere` |
| `MCParts`: `CalcSample` | Bitrate, ring of 3, interval 3, sizes 0 and 5, ticks to 6, five samples | `RingAndSum`, `NoTrapInFirstRound` |

What they show, in words:

- *LibSrt.* Sockets and epolls survive neither a failed `open()` nor a `close()`
  by the owner, whatever fails in whatever order and whatever the other thread
  does meanwhile (`NoSocketLeak`, `NoEpollLeak`, `NothingHeldAtRest`). A
  listener loses the socket it accepts and is exempt from the first: its `open()`
  goes on with the 0 that `libsrt_listen` returns, and never succeeds
  (`ListenerNeverOpens`, section 6).
  An open handle is connected, or was and has broken since, and the epoll it
  polls watches its own socket (`OpenedHandleUsable`, `IoOnAwaitedSocket`).
  `read` and `write` use `eid` before the wait and `sockFd` after it; the
  properties say that this is harmless unless somebody asked to stop, and
  `AtMostOneIoAfterQuit` bounds what happens then. `QuitInterrupts` says a stop
  gets the owner out with no timeout configured; `CallsReturn` that a timeout
  does without a stop. The run assumes for `ImplementsFairHandle` that a handshake
  ends; `QuitInterrupts` holds without that too. `ImplementsHandle` says that a user
  who knows `SrtHandle` knows enough.
- *PushTest.* After `q` the program ends and nothing is left. The second half
  holds because every exit of the push thread drops the `SRTPush`. The first
  holds although no timeout is set and nobody calls `quit()`, because the
  program writes to a write-only handle, whose waits end at once with an error
  (section 6): it is not evidence that a repaired `write()` would end.
- *Semaphore.* Waking one thread per `Post` is enough although woken threads
  may be overtaken, time out or wake spuriously; so the class is a counting
  semaphore, a free token does not coexist with a waiter for ever, and the timed
  calls come back (`ImplementsFairCounting`).
- *XATask.* The callback follows a nap that lasted `max_timeout`, under
  `CountingOrTiming` too: reaching the count does not run it earlier. The one
  way in which an `update()` loses the callback is that it resets the time after
  the worker has left its loop. The destructor returns without waiting for the
  clock.
- *XTask.* A start has been earned since the last `reset()`, is the only one
  unless a maximum was raised, and a pause lets at most one through. A task is
  passed over for good only when a maximum was lowered to what was reached, or
  the maxima made it due at once: with the default `maxTime` of zero no
  `CountingOrTicking` task ever starts.
- *CalcSample.* The ring holds the latest samples, and the sum is the sum of the
  first round only (`RingAndSum`). The division in `Bitrate` can trap only after
  the ring has wrapped.
- *TypeList.* A position and its type are looked up consistently
  (`PositionsAgree`); an edit changes what it names and keeps the rest in order
  (`EditsKeepTheRest`); a dictionary is the map of the last value put for each
  key, its keys in the order they first came, however it was put together, in
  particular from two halves (`DictIsMap`).
- *TStream.* `writeFrame` never returns: every packet of a frame is given an
  adaptation field and given up for it, so the loop turns on the same
  `payload_len` (`FrameHoldsThread`); before `newTS()` it does not even begin. By
  itself, `PES::writePayload` never gets past its first packet in a build with
  assertions (`AssertsStopPayload`). Without them a frame ends, but the
  optional header is counted as 3 bytes and written as 24: 21 bytes of the
  body stay behind where the packets are filled exactly, and never more; a packet
  that is not filled by the body takes up to 162 bytes from behind it
  (`TailBounded`).
- *XLog.* It is enough to set the path before the first line, and too late after
  it (`LogsWhereSet`). Statics, mutex and exceptions do not lock each other out
  (`LogReturns`).
- *SRTPush.* If `release()` is called once and beside nobody's `write()`, no null
  and no destroyed handle is used; as the destructor calls it too, a user never
  may (`ReleasedOnce`).
- *AACParse.* The fields are the header, bit for bit, although one mask is a bit
  too wide. *MkdirP.* The directory is there in the end, although results for prefixes
  are ignored and other processes make them, unless the system refused this call
  the directory or one above it; the result says who made it: it is
  an error where a separator or a dot ends the path, and none after a prefix was
  refused if somebody else made that one.

Why the bounds are enough. The code tells WRITE and READ_WRITE from READ only
(`Writes`), so the runs take one of each. Two addresses exercise `continue` to a
next address and from the last one; 3 sockets and 4 epolls leave a spare for
reopening after both were tried, and `open()` past the last identifier stops at
a failing call, which is a behaviour of the code too. The reopened handle finds
every interleaving of a late `close()`. Three threads let one sleep, one be
woken and one overtake; starting at -1 makes the first posts wake threads in
vain. Three updates let one token pile up, one hit a nap and one race the end of
the worker. A ring of three wraps, and wraps at an index other than where it
began. The bodies of `TStream` end before, at and after the end of a packet with
and without a field, one takes a second packet and one a third. Shifts and masks
treat every bit alike, so one bit shows where it goes and two whether they meet.
Three threads at two statics and a mutex let one hold, one wait inside and one
wait outside. Clocks and counters stop at a bound because nothing depends on
their size but comparisons with the maxima, on both sides of which they get. The
bounds are `MaxSock`, `MaxEpoll`, `MaxPosts`, `MaxUpdates`, `MaxClock`,
`MaxCalls`, `MaxTick`, `MaxLength`, `MaxPuts`, `MaxReleases`, `MaxOnes` and
`FileBlocks`.

Deadlock is checked in `LibSrt`, `Semaphore` and `XTask`, where some call is
always possible. The program of `PushTest`, the object of `XATask`, the user of
`PES::writePayload` beside a thread that crashed, and the parts of `MCParts`
(a destroyed `SRTPush`, a header of `MaxOnes` bits, a bounded history of samples)
really end.

### Faults

Next to some definitions stands a variant whose comment says "Fault": a guard
dropped, a reset forgotten, an order swapped, as a slip in the code would have
it. Nothing uses them. Put in place of the definition they stand next to, they
make TLC report the property that is about that code, which is how each property
is known to say something; `mutants` in `PROJECT.json` pairs them.

## 4. Fairness

Liveness is checked under what the code's environment owes it and no more.

- A thread inside a call is scheduled: `WF` of the steps of a call. Nothing
  makes a thread begin a call, post, press a key or destroy an object.
- The time of a running wait passes (`ClockTick`), where a timeout is set.
- SRT ends a handshake one way or the other (SRTO_CONNTIMEO). An established
  peer owes nothing: it need not send, receive or close.
- A timed wait of a condition variable ends; an untimed one need not.
- A thread in `log()` runs on. Creation may throw at every attempt; `LogReturns`
  assumes, as part of the property, that it does not do so for ever.
- In `XATask` the clock is an assumption of one property, `ClockGoesOn`, and is
  strong: a spurious wakeup starts the nap over, and they do not recur for ever.
  `DestructorReturns` does without.

## 5. What is proved

TLAPS checks the theorems below for every value of the constants that the
assumptions of the modules allow: any number of addresses, threads, users,
tokens, any sets of maxima, a ring of any size, headers with any bits, any paths,
lists and dictionaries of any length, any bounds.

| module | theorem | property |
|---|---|---|
| `LibSrtProofs` | `TypeCorrect`, `SocketsNotLeaked`, `EpollsNotLeaked`, `NothingHeld`, `OneLateMessage`, `ListenerFails`, `OpenedUsable`, `IoAwaited`, `Implements` | `TypeOK`, `NoSocketLeak`, `NoEpollLeak`, `NothingHeldAtRest`, `AtMostOneIoAfterQuit`, `ListenerNeverOpens`, `OpenedHandleUsable`, `IoOnAwaitedSocket`, `ImplementsHandle` |
| `LibSrtProofs`, the program | `ProgramEndsClean`; `UsesHandle`, `ProgramWrites` | `EndsClean`; `PushSpec => Spec`, `WritesGoToOpenSocket` |
| `SemaphoreProofs` | `TypeCorrect`, `NoWakeupLost`, `Implements` | `TypeOK`, `NoLostWakeup`, `ImplementsCounting` |
| `XATaskProofs` | `QuietNap`, `LateReset` | `CallbackAfterQuietNap`, `MissedOnlyByLateReset` |
| `XTaskProofs` | `OneStart`, `Skipped`, `Paused`, `Earned` | `OneStartPerReset`, `SkippedOnlyIfLowered`, `OneStartAfterPause`, `StartIsEarned` |
| `TStreamProofs` | `FrameNeverReturns`, `AssertsStop`, `TailsBounded` | `FrameHoldsThread`, `AssertsStopPayload`, `TailBounded` |
| `PartsProofs` | `TextLogger`, `OneRelease`, `FirstRoundSafe`, `RingTurnsSumStays`, `FieldsTakeTheHeader`, `DirectoriesAreThere`; `WaitsAreOrdered` | `LogsWhereSet`, `ReleasedOnce`, `NoTrapInFirstRound`, `RingAndSum`, `FieldsAreTheHeader`, `DirectoryIsThere`; `NoWaitCycle` |
| `TypeListProofs` | `LookUpsAgree`, `EditsNameWhatTheyChange`, `DictionariesAreMaps` | `PositionsAgree`, `EditsKeepTheRest`, `DictIsMap` |

What stands behind a semicolon is stated by no run on its own: `UsesHandle` is how
the program gets at the theorems of `LibSrt`, and the others are what the safety
of a liveness property rests on.

- **LibSrt.** The properties are not inductive. `LocalsInv` adds which of the
  members and locals can hold a resource at each program counter: in particular
  `sockFd` is unset as long as `open()` runs, and `eid` until it is published.
  `OpInv` ties the owner's operation to where it is, and says that when it
  releases its epoll none other is left. `QuitInv` says that whoever is in
  `close()` has set `quitIO`, and that after a late message no wait has passed
  its look at it. `IInv` is their conjunction with the properties; it is
  preserved step by step, one lemma per action. The refinement maps each step to
  a step of `SrtHandle` or to a stutter, using `IInv`. `ListenerInv` follows a
  listener: past `libsrt_listen` it works on socket 0, which is never alive, so
  it does not come to publish. `UsableInv` follows the others: `AttemptInv` says how
  far the attempt has come (the socket is there, the epoll watches it, the peer
  has answered), `PublishedInv` that the two members are published together as
  long as nobody asks to stop, and `AwaitedInv` that a message call's `waitEid`
  still is `eid`. A `quit()` or `close()` of the other thread only has to be shown
  to set `quitIO` first; a step of the network only to leave sockets up or broken.
- **PushTest.** The program is one of the users `LibSrt` allows (`UsesHandle`),
  so every invariant of `LibSrt` holds of its handle, and `PushInv` only says
  where the push thread and the handle are with respect to each other: the
  handle is new before the constructor, in a call while the program is in one,
  and closed at the end. With `NothingHeldAtRest` that gives `EndsClean`, and with
  `UsableInv` that every write goes to an open socket.
- **Semaphore.** `NoLostWakeup` is inductive together with `TypeOK`. The proof
  is arithmetic on the number of `awake` threads: `Post` adds one to both sides,
  a returning thread takes one from each or finds the count at most zero. The
  refinement maps `asleep` and `awake` to a call that is under way.
- **XATask.** The properties speak of the end of a nap, so `KickInv` has to say
  where a token that was posted in it has gone: it is there as long as the nap
  lasts, so the nap takes it. `NapInv` says that whoever has left the loop was told
  to quit or has napped to the end; `ResetInv` that from the end of the loop to
  the look at the time, `val` is what the nap measured unless an `update()` is on
  its way to reset it, which is what `overlap` records.
- **XTask.** `CountInv` bounds count and measured time by what was called and
  when, which gives `StartIsEarned`; `StartInv` says a started task is due unless
  a maximum was raised, and that a task due at zero counts nothing; `PauseInv`
  that a `run()` already in is the only one a pause lets through.
- **TStream.** `AccountInv` is the book-keeping of the second user: before its
  first packet nothing is taken, after it what is left and what was sent add up
  to the body less the 21 bytes the header was not counted with, and with
  assertions there is no "after". That a turn of `writeFrame` changes nothing but
  header and counters needs no invariant, only the cases of `Turn`.
- **XLog.** `InitialiserInv` says that a thread is in at most one initialiser, the
  one of each static is at most one thread, and the mutex belongs to one of
  them; `CopyInv` that the copy it took is the path unless an assignment followed
  or was under way. The set of threads need not be finite.
- **SRTPush.** `CountedInv` says that no pointer is reset and no user in
  `release()` without having been counted, `ApartInv` that a user in `write()`
  and one in `release()` have been recorded as overlapping, and `DestructorInv`
  and `FaultInv` what is left when the object goes and when something went wrong.
- **CalcSample.** Until the ring is full the sum has all the time that passed, so
  it has all that passed since the last report (`ElapsedInv`): at least
  `TIME_INTERVAL`, hence at least `NB_SAMPLE` ticks, which are shared among no more
  samples, and the divisor is positive. `RingInv` is `RingHoldsLatest` element by
  element. For the sum, `TotalOfOneMore` says what one more sample adds to a
  total; a full ring gives back what it takes (section 6), so `Plus` and `Minus` cancel
  and the total stays that of the first round (`StepSum`).
- **Induction and folds** (`FoldProofs`). `LeastNumber` takes the least number of a
  set from the library's theorem on well-founded relations, and `Induction` is
  induction with a set of numbers where the usual form has a predicate. The
  library's folds are folds over sets of indices, taken from the greatest down:
  `FoldByStep` shows that `FoldLeft` over a sequence is one step after the other
  (`IsFold`), and `FoldOfOneMore` what the last of them does. A step is given as a
  function, so the lemmas need no operator for a parameter.
- **ADTS.** `AdtsIsTheBytes`: the number built byte by byte has bit `b` of byte `i`
  at place `8 * (6 - i) + b`. `FieldsFit` is the table of the fields: each ends
  where the next starts, and is shifted by what follows it. So a field takes the
  bits of its own places, whatever its mask (`FieldIsItsBits`), and every place is
  in a field.
- **mkdir_p.** `ReadOneMore` says what one more character does to the reader of a
  path, and `MkdirMakes` what one call of `mkdir(2)` leaves: the directory is there,
  or refused. `ReadingInv` says of a call under way that the directory of the names
  it has read is there or was refused, in whole or in part (a prefix in the
  sense of `IsPrefix`, which goes on to every longer name), and that what it made
  itself is no longer than the name it is in, so that a name that has not ended yet
  was not made: that is why a result of -1 with the directory made by the same call
  can only come from the end of the path. Directories are never removed, which carries the invariant over the
  steps of the others.
- **TypeList.** A `Search` ends at the least of its places (`SearchEnds`), a
  `Collect` keeps its places in order (`CollectKeeps`), and removing duplicates
  keeps the first place of each type (`DuplicatesKeep`). With these
  `PositionsAgree` and `EditsKeepTheRest` hold of every list of types, and
  `EditsInv`, that the list is one, is inductive. `DictInv` is that the dictionary
  is what inserting all the puts into an empty one makes: `InsertedIsMap` finds,
  by induction over the puts, each key once, at the place of its first put, with
  the value of its last. That a dictionary may be put together from halves
  (`HalvesMakeTheWhole`) needs that a put in a dictionary that is inserted into
  another goes through to it (`PutsGoThrough`), which comes from what two puts of
  one key do (`PutTwice`) and two of different keys of which one is there already
  (`PutsCommute`).

Assumptions on constants are named in the module that declares them
(`SrtApiAssumption`, `LibSrtAssumption`, `PushTestAssumption`,
`SemaphoreAssumption`, `XATaskAssumption`, `XTaskAssumption`,
`CalcSampleAssumption`, `TStreamAssumption`, `XLogAssumption`,
`SRTPushAssumption`, `PathsAssumption`, `TypeListAssumption`). They say that
modes are modes, numbers are numbers, the set of threads of a semaphore is
finite, and that a model value does not stand for two things (a thread is not
the mark of a static). Three say more, which the code does: `PathsAssumption`
that no path is empty, `PushTestAssumption` that the handle is opened as
`SRTPush`'s constructor opens it, `CalcSampleAssumption` that the interval is no
shorter than the ring.

Only model-checked is everything temporal (`QuitInterrupts`, `CallsReturn`,
`ProgramEnds`, `DestructorReturns`, `WorkerEnds`, `LogReturns`, the two
refinements under fairness), since the prover does not do liveness. The safety
it rests on is proved where it could be said: `NoLostWakeup`, `NoWaitCycle`, the
two refinements without fairness. Every invariant and every action property of a
passing run is proved. The two statements of section 6 that runs violate are, of
course, not.

## 6. Where code and words disagree

- **`LibSrt_write`.** `write()` waits with `write = 0` (`srtcore/libsrt.cpp:177`).
  A handle opened with `SRTIOFlag::WRITE` ("write-only",
  `srtcore/libsrt_param.hpp:15`) subscribes to OUT and ERR, so its writable
  socket comes back in the array taken for the errors and the wait returns EIO:
  every `write()` of such a handle, that is every write of `SRTPush`, returns
  false. With READ_WRITE the handle subscribes the same events.
- **`CalcSample_sum`.** A full ring subtracts the new sample and adds it back
  (`base/calc_sample.hpp:33`), so rates stay those of the first `NB_SAMPLE`
  samples, although the average is over the cached ones.

Other defects, which passing runs state as what the code does:

- `libsrt_listen` returns the 0 of its wait and not the accepted socket
  (`srtcore/libsrt_utils.hpp:225`). The accepted socket is lost, the POST options
  ("can be altered any time on a connected socket", line 42) are set on socket 0,
  and a listener's `open()` never succeeds (`ListenerNeverOpens`).
- No frame gets through the mux (`FrameHoldsThread`): nobody calls `newTS()`;
  every PES packet asks for an adaptation field (`tscore/tstream.hpp:261`), and
  `writePacket` gives such packets up (`tstream.cpp:116`), its own branch for
  them (line 121) being unreachable. The two tables, which have none, end the
  program: the constructors zero the pointer to the virtuals
  (`tstream.hpp:122, 183, 259`) before `type()` is called.
- `PES::writePayload` puts the offset at the end of the buffer, which
  `setOffsetIndex` asserts it is not (`base/buffer.hpp:54`), and writes a C++
  object of 24 bytes for an optional header of 3 (`tstream.cpp:300`).
- `SRTPush::release` is public and is what the destructor calls: once is too
  often (`ReleasedOnce`).

## 7. Not modelled

- The contents of PAT and PMT with CRC and bit stream: bytes nobody can get the
  mux to write.
- `SPHolder` wraps `new` and `delete`, and nothing in the repository makes one.
  `SEI` puts one message together; whether it is right depends on the syntax of
  the codecs (the head of an HEVC message lacks the payload type,
  `base/sei.hpp:58`).
- `auto_guard`: its uses in `open()` are part of `LibSrt`. Time, shell helper,
  questions about disk space, small utilities: I/O or constants.
- The public interface and JNI: bodies are empty.
- In what is modelled: option values, addresses and payloads are abstracted to
  success or failure; the memory of the address list (`addrinfoCleanUp` frees
  what `res` has become, `srtcore/libsrt.cpp:38`) and the lines a logger writes
  are left out.

## 8. Plan

1. *Core*: `SrtApi`, `LibSrt`, `SrtHandle`, `PushTest`; `Semaphore` and its
   abstraction; `XATask`, `XTask`, `CalcSample`, `TypeList`; the theorems of
   section 5. Done.
2. *Extend*: the mux over `Buffer` and `Packet` with its proofs; the loggers'
   set-up; `SRTPush` shared by threads; ADTS; `mkdir_p`; the listener's end.
   Done.
3. *Prove more*: `OpenedHandleUsable` and `IoOnAwaitedSocket` of `LibSrt`, and
   `EndsClean` of the program over them; `XATask`'s two safety properties; the
   loggers for any number of threads, `SRTPush` for any number of users, a ring of
   any size and its sum; the ADTS header; `mkdir_p`; the type lists. Done: every
   safety property a passing run checks is proved.
4. *Left*: that `PushTest` implements `SRTPush` as one user of it, for which the
   program, whose thread learns the result of `open()` later than `SRTPush` says
   it, would need a prophecy variable; and the semaphore `XATask` naps on as an
   instance of `CountingSemaphore`, for which it would need the result of each
   nap as a history variable.
