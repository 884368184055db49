# A TLA+ verification project for wiikit

wiikit recompiles a Wii or GameCube game to C++ and runs it on a runtime that
stands in for the console. The game's own SDK (its scheduler, its interrupt
handlers, its IPC and GX libraries) is recompiled with the game, so the runtime
has to behave like hardware towards code that was written for hardware, on a
host with real threads. That boundary is what this project models: where host
threads, guest threads, interrupts and devices interleave.

Everything here is about the code in `runtime/` and `recomp/`; line numbers are
those of the commit the project stands beside. `PROJECT.json` maps each
definition to the lines it models.

## 1. Inventory

| Component | State it keeps | Operations | Talks to | What is hard | Correct when |
|---|---|---|---|---|---|
| **Guest threads** (`os.cpp` 60-240, 346-372) | the baton `g_running`, tables `g_by_ctx`, `g_fresh`; per host thread `ctx`, `zombie`, `delivering`, and its C++ stack | `OSLoadContext`, `OSSaveContext`, `OSCreateThread` hooks; `wait_baton`, `pass_to`, `adopt`, `deliver` | the SDK's scheduler, the interrupt dispatcher | look-up and hand-over are two critical sections; threads are re-created on contexts still in use; handlers switch threads | one guest thread runs at a time, on the host thread whose stack is its own; retired ones end; the baton always arrives |
| **Clock and interrupt delivery** (`os.cpp` 240-457) | decrementer, `g_kick`, `g_ppc_pending`, `g_idle_waiting` | `clock_main`, `mtdec`, `mttb`, `os_raise`, `ppc_poll`, `ppc_idle` | every device, the idle loop | flags set and tested without a common lock; sleeps that a write must cut short | what falls due is told, in time, and taken |
| **IOS** (`ios.cpp`) | IPC registers, request and reply queues, devices, descriptors | register writes, `update`, `execute`, `ios_idle`, `ios_tick` | the SDK's IPC client, the clock thread | one mailbox register for acknowledgements and replies; the clock thread between any two of the client's writes; latency | one reply each, never inside the call, no lock-up |
| **GP FIFO** (`gx.cpp` 76-100, 768-867; `hw.cpp` 842-871) | CP control, breakpoint halves, held bursts, PI write pointer | `gx_pipe_burst`, `gp_run`, CP and PI register writes | the SDK's GX, the CP's and the game's handlers | breakpoint address in two halves; addresses recur; watermarks; redirection | stream in order; stops there and only there; nothing overwritten; always goes on |
| **Command parser** (`gx.cpp` 390-634) | bytes not yet parsed, CP/BP/XF registers | `feed`, `parse`, `call_dl`, `decode_vertices` | the FIFO, the record | bursts end anywhere; a command's length hangs on registers set before it | each command executed once, at its length |
| **Texture cache and bindings** (`gx.cpp`, `video.cpp`) | dirty maps, bindings, hash cache, EFB copies | `sync_textures`, `bind_map`, `efb_copy`, draws recorded as one, `exec` | memory, the renderer | four layers that each skip work already done | a draw samples what its registers named |
| **Record and render queue** (`gx.cpp` 115-140, 636-754; `video.cpp`) | the record, the queue, the read-back's answer | `submit_record`, `video_submit`, `gx_efb_peek`, `gx_copy_to_ram`, the renderer's loop | guest threads and handlers, the renderer | waits that take interrupts, which switch threads, inside calls that hold state | drawn once and in order; read-backs current; draw-done told; nobody stuck |
| **Vertex ring** (`video.cpp`) | write offset, a fence per quarter | `draw` | the host's GPU | the GPU reads behind | nothing unread is written over |
| **Device registers** (`hw.cpp`, PE in `gx.cpp`) | PI, VI, PE, DSP, DI, SI, EXI, Hollywood: status, enables, cause, mask | register reads and writes, `*_tick`, `hw_vi_retrace` | clock, IOS, the guest's polls | many places can bring a line up, each has to raise it | a line that is up is known to the next poll |
| **DSP and AI** (`hw.cpp`, `audio.cpp`) | mails, DSPCR, the AI's schedule, the host's queue | `dsp_receive`, `ai_tick`, `ai_dma_block`, `audio_play` | AX in the guest, the host's sound | real time paced against the guest's mix | blocks keep coming, each with its frame |
| **Controllers** (`wpad.cpp`) | callbacks, what was told, late completions | hooks, `deliver` | guest callbacks | callbacks that switch threads or make requests | each change told once, each request called back |
| **AX micro-code** (`ax.cpp`) | voices in guest memory | `ax_command_list`, accelerator, resampler | DSP | runs, loops and headers cut the same sample differently | the samples a straight reading gives |
| **IOS files** (`ios.cpp`) | descriptors, a host folder | Open, Close, Read, Write, Seek, Delete, Rename, Create; DI | IPC | host rules differ from the NAND's; stdio reads ahead | the tree and the open files agree |
| **Dispatch, memory, RSO** (`core.cpp`, `mem.cpp`, `rso.cpp`) | function table, hooks, linked modules | look-up, link, unlink | all recompiled code | stale module addresses | a call reaches the code at its address |
| **Disc** (`disc.cpp`) | regions, open files | `disc_read` | DI, IOS | overlapping regions | bytes of the right file |
| **Recompiler** (`recomp/`) | units, tables, entries | discovery, jump tables, entry fixed point, emission | — | stripped images | every run-time target has code |
| Renderer's drawing, shaders, formats, boot, tools | — | data conversion | — | — | not modelled (section 7) |

How the modelled parts meet: guest code runs on the baton holder's host thread
(*Guest threads*). Its stores reach device registers synchronously, under
`g_hw`; GX stores feed the *GP FIFO*, whose parser fills the *record*, which the
*render queue* carries to the host's main thread. Lines go up from guest code,
the clock thread and the renderer, always by `os_raise`; guest code looks at
`g_ppc_pending` at loop back-edges and whenever it turns interrupts on
(*Clock*), and `deliver` runs the SDK's handler on the host thread that happens
to hold the baton. Handlers end in the SDK's scheduler, so that every place that
takes interrupts may also switch guest threads.

The hazards this code has are in `PROJECT.json` with their lines.

## 2. Plan

Order: what everything rests on first.

| Step | Modules | State |
|---|---|---|
| 1 | `GuestThreads` with the abstract `SingleCore`; `Clock`; `IosIpc`; `CpFifo`; `RenderQueue`; proofs about the first, second and fourth | done |
| 2 | the devices around them: `Registers`, `Wpad`, `IosFiles` (`MCDevices`); `AudioPath` and `Ax` (`MCSound`); `GxStream`, `GxTextures`, `Vertices` (`MCDrawing`); proofs about `IosIpc`, `Registers` and `AudioPath`, and the rest of `CpFifo`'s safety | done |
| 3 | proofs: an invariant over the host stacks, for `ThreadsInv`, `HandlerFindsItsContext` and `ImplementsSingleCore`; all of `RenderQueue`'s safety; `Wpad` and `IosFiles`; all of `GxStream`'s, `GxTextures`'s and `Vertices`'s safety; `Ax`'s voice | done |
| 4 | `wpad.cpp`'s callbacks composed with retirement in `GuestThreads`; AX's command list and its mixing buses; a descriptor closed with its request pending | open |

Compositions: `SingleCore` is what `GuestThreads` promises the rest, and the
other modules use that promise: `CpFifo`, `IosIpc` and `Clock` model one CPU,
`RenderQueue` a set of guest threads of which `cpu` runs. `Clock` and
`Registers` justify their treatment of interrupts: a line that is up makes
`g_ppc_pending` true (`Registers`, `LinesTold`), and what is pending with
interrupts on is taken at the next poll (`Clock`, `Taken`). `GxStream` takes up
where `CpFifo` ends (bursts in order), `GxTextures` and `Vertices` where
`GxStream` ends (commands in order), and `RenderQueue` carries what `GxTextures`
records. `MCDevices`, `MCSound` and `MCDrawing` each run modules side by side
that share no state: `part`, chosen in the initial state, says which of them
moves, so one run explores their sum and not their product.

## 3. The modules

TLC's configurations instantiate `MC...` modules; `MCAudioPath` is `AudioPath` alone.

**GuestThreads** (`os.cpp`). Host threads are model values. A step is what a
host thread does between two acquisitions of `g_mx`, or what guest code does
between two calls into `os.cpp`. The C++ stack, which the context switch relies
on, is a sequence of the calls that matter: guest code, `OSExitThread`,
`SelectThread`, and the context of each `deliver()` (those are
`HostThread::delivering`). `WaitBaton`, `PassTo`, `LoadFresh`, `LoadCarried`,
`Adopt`, `Deliver` are the functions of the same names. A condition variable
loses notifies nobody waits for and may wake spuriously. The SDK's part
(`Yield`, `ExitThread`, `HandlerReschedules`, `SelectThread`, `Wakeup`, `Stop`)
is external. `SingleCore` is the abstract specification: one core that executes
one context, and contexts whose continuations stay where they were left; the
refinement mapping takes the running context from the baton's holder and each
context's continuation from the host stack it is found on.

**Clock** (`os.cpp`; of `hw.cpp` the retrace and a timed device). Times are
what is left. Each access to `g_ppc_pending`, `g_idle_waiting`, `g_kick` and the
decrementer is a step of its own where another thread could come in between.
`Windows` chooses the host's waits: an auto-reset event, which remembers, or a
condition variable, which does not. `ppc_idle`'s look at `g_ppc_pending`
(`IdleLooks`) and its entry into the host's wait (`IdleBlocks`) are two steps: off
Windows a notify between them is lost, and the idle loop sleeps out its millisecond.

**IosIpc** (`ios.cpp`). `Update`, `Execute`, `Reply`, `WriteCtrl`, `Idle` are
functions from one state of IOS to the next, as the code runs each under `g_hw`.
Each register access of the client's call and of its interrupt handler is an
action. What a request asks is `now`, `wait` or `release`.

**CpFifo** (`gx.cpp`). A burst is its number, so that order and loss show;
addresses are slots of a small ring, in two halves as the registers are. The
writing thread, the CP's handler and the callback that moves the breakpoint
write one register per action, and every write runs `GpRun`, as the code does.

**RenderQueue** (`gx.cpp`, `video.cpp`). A thread's state in the runtime is its
stack of nested calls; `ppc_poll` inside a wait may run a handler, which records
more, and which may switch to the other thread. The renderer takes chunks, draws
commands one by one, answers read-backs.

**Wpad** (`wpad.cpp`). `deliver()` is a loop with guest calls inside: a thread's
place in it (`frame`) is a record, and every call of a callback is two steps
(out and back), between which the callback, or any other guest thread, may call
WPAD: register, unregister, probe, read, ask, with no restriction. `told` and
`toldHere` are the code's; `heard`, `believed`, `asked` and `answered` are what the
game has been told so far; `within` notes the channels whose KPAD callback was
registered inside their WPAD one, whose case is one of the findings.

**Registers** (`hw.cpp`, PE in `gx.cpp`). One device per behaviour (`used`), its
status and enable bits, the PI's mask, and `g_ppc_pending` with `ppc_poll`'s two
steps. Each register write and each device's tick is an action; whether it ends
in `os_raise` is what the code says, place by place. DI, SI, EXI and the ARAM's
DMA keep the state their completion depends on.

**AudioPath** (`hw.cpp`, `audio.cpp`). Times count half blocks. `ai_tick` is the
clock thread's look at the AI: it may play a due block, wait for the guest's
frame up to `Patience`, or give the schedule up when more than `LateMax`
behind. The DSP's mails, its boot task and its interrupt are `dsp_receive`'s;
the hooked AI handler, AX's callback and the SDK's DSP handler are the guest's
(external), step by step, because the clock thread's blocks fall between them.
Any block may have the length zero, after which `ai_tick` starts none until the game
starts the DMA again: `dmaOn` is `ai_dma_on` with a length.

**Ax** (`ax.cpp`). A decoded sample is named by what it was computed from
(address, predictor and scale, the two samples before it), so that a wrong
history, a header taken for sound or a skipped nibble shows, without any
arithmetic. `ProcessPb` is a whole run of a voice: load, resample, store; the
reference is the straight reading of the sample (`Expected`): the addresses of
sound from its start to its end (`Readable`), then from the loop's to the end.

**GxStream** (`gx.cpp`). Bytes are counted scaled: an opcode, its arguments, a
vertex. The guest sends commands, of which the gather pipe makes bursts that end
anywhere; `feed`'s loop parses the stream, `call_dl` a list in memory, command
by command. A draw's length hangs on the vertex size an earlier command set.

**GxTextures** (`gx.cpp`, `video.cpp`). One record per map of what its registers
name, what the cache has uploaded, what the record binds, what the renderer has.
Each draw carries, as a history, what it may sample on each map (`Wanted`: what
the memory its registers named has held since the last invalidation); `exec`
compares. Draws are joined into one when `Draw` finds them
alike.

**Vertices** (`gx.cpp`, `video.cpp`). `decode_vertices` goes attribute by
attribute over every vertex format; `draw` puts vertices in the ring, waits for
fences at quarters and leaves one behind, while the GPU finishes draws in order. The
wait ends after a second whether the fence is signalled or not, and the quarter is
written either way: `late` notes a quarter entered so, and each draw in flight carries
it.

**IosFiles** (`ios.cpp`). One IPC request per action. The host is Windows: an
open file is neither deleted nor renamed, nor a folder above one. A descriptor
reads through stdio, whose read-ahead may be older than the file. A seek may go past
the end; what is written there leaves zeros before it (`Zero`).

## 4. Runs, bounds, and what they show

| Run | Checks | Instance (distinct states) | Shows |
|---|---|---|---|
| `MCGuestThreads` | `StackInv`, `ThreadsInv`, `HandlerFindsItsContext`, `StartsAnew`; refines `SingleCore`; `HandoffCompletes`, `RetiredEnds` | 3 contexts, 3 host threads, 2 nested interrupts (97,788) | the switch is right over creation, exit, cancellation and reuse; the baton arrives; retired host threads unwind |
| `MCClock` | `ClockInv`; `Taken` | field 4, DMA 2, decrementer up to 2, 2 writes a tick (240,796) | with Windows' events nothing that falls due is slept over, and all of it is taken |
| `MCIosIpc` | `IpcInv`, `NotInsideTheCall`; `AllReplied` | 3 blocks, used again and again; latency 2 (201,025) | three blocks fill all stages at once: one waiting, one releasing it, one in the mailbox |
| `MCCpFifo` | `FifoInv`, `StopsOnlyThere`, `NotWrittenOver`, `LineRaised`; `AllRead` | 5 slots, 8 bursts, watermarks 2 and 1, slack 1, halves of 2 (31,951) | the ring is written around; overflow, underflow, and a breakpoint at a recurring address all happen |
| `MCRenderQueue` | `QueueInv`, `DrawnInOrder`, `ReadBackShowsAll` | 2 threads that both peek, 2 commands, queue of 2, 1 frame ahead | the hand-over, with interrupts on, off and in handlers. Deadlock is not checked: the system really may stop (`MCRenderQueueStuck`) |
| `MCRenderQueueLive` | `DrawDoneTold`, `ReadBackEnds` | 2 threads, one reads copies, 2 commands | with no peeks nobody is stuck |
| `MCDevices` | `RegInv`; `PadInv`, `HeardLatest`, `GoneAfterHere`, `TruthIsTold`, `AllAnswered`; `FsInv`, `AllOrNothing` | every device, 2 SI ports; 1 channel, 2 threads, 3 requests, a table of 2; 2 folders with 1 file each of up to 2 blocks, 1 value of a block, 2 descriptors (651,012) | lines are told; callbacks see the truth whoever calls in between, themselves included; files and descriptors agree |
| `MCSound` | `AudioInv`, `SkipsNoFrame`, `BlocksKeepComing`; `VoiceInv`, `StartsOnTime` | patience 3, lateness 4 half blocks, queue 4 over a cushion of 3; runs of 4 samples, 3 a frame, ratios below and above 1, 20 tracks (665,551) | no frame is lost to the schedule; a voice's sample is read as a straight reading would |
| `MCDrawing` | `ParsedAsSent`; `TexturesRight`, `GxInv`; `InStep`, `NotOverwritten` | bursts of 3, vertices of 1 and 2, 2 commands on their way; 2 maps, 1 address, 1 copy, a record of 2; every vertex format; a ring of 64 bytes with vertices of 5 (1,981,160) | parsing, binding, decoding and the ring agree with what the guest sent |

Three runs end in a violation, each of a sentence the repository's comments say
(the quotes are in `PROJECT.json`):

| Run | Property | What happens |
|---|---|---|
| `MCRenderQueueStuck` | `ReadBackEnds` | `gx_efb_peek` holds a host mutex over a wait that may switch guest threads; another peek then blocks with the baton |
| `MCClockKick` | `WakesInTime` | without Windows' events a kick between `clock_sleep`'s test and its wait is lost |
| `MCAudioPathStale` | `GivesUpLate` | the AI's DMA stopped while a block waits leaves `ai_wait_from`; the next DMA's first due block is given up on at once |

Eight more disagreements are listed in `PROJECT.json` without a run of their own.
Six can be seen by changing a run by hand:

| Change | Violates | What happens |
|---|---|---|
| `RecreateOwn = TRUE` in `MCGuestThreads` | `StartsAnew` | the test "this thread goes on" in `OSLoadContext` comes before the look at `g_fresh`: a thread re-created by a handler on the idle loop of its own dead host thread returns into the dead thread's stack |
| `KeptRecordTold` as an invariant of `MCRenderQueue` | itself | a record kept by a handler inside `ppc_poll`'s loop misses that `ppc_poll`'s only look, and the loop then clears `g_ppc_pending` |
| `PeekIsCurrent` as an invariant of `MCRenderQueue` | itself | `gx_efb_peek` notes `rec_total` after its wait, in which handlers may have recorded more |
| `SettledFirst` as a property of `MCDevices` | itself | a KPAD callback that the WPAD callback registers is called next, at once; and, with `NChan = 2`, `deliver()` reads the time once, so that a registration from inside a callback lies in its future and the unsigned difference wraps |
| `HeardLatest` without `~SetWithin` in `MCDevices` | itself | that KPAD callback hears "here" with `told` cleared; a controller that then leaves is noted as gone without a call |
| `NotOverwritten` without `gpu[i][3] \/` in `MCDrawing` | itself | a fence not signalled after a second is deleted and its quarter written over |

The other two need no run: `finish_later` drops the ninth completion
(`AllAnswered` counts those that entered the table), and DI's unknown command
returns 2 without setting the error that RequestError would report.

Every bound, by name:

- `Host` and `CreateThread`'s guard (threads ever started), `MaxDepth` (nested
  interrupts; `Stop` of the interrupted thread is not done at the last level,
  where the interrupt that wakes it could not be taken);
- `Field`, `DmaTime`, `DecMax` (times), `MaxWrites` (register writes a tick);
- `Block`, `Latency`, and `TimePasses`' guard (a call returns within the
  latency, which is what the latency is for);
- `Size`, `HighMark`, `LowMark`, `Slack`, `Half`, `MaxBursts`; `MaxCommands`,
  `QueueMax`, `FramesAhead`;
- `NChan`, `Thread`, `Callback`, `Button`, `DoneMax`, `Settle`, `Horizon` (the
  time base stops there), `MaxRequests`; `Port`, `Device`; `Dir`, `Leaf`,
  `Value`, `MaxLen`, `MaxFd`;
- `BootLen`, `Patience`, `LateMax`, `Target`, `MaxQueue`; `N`, `MsPerFrame`,
  `One`, `Ratios`, `Tracks`, `MaxFed` (a looping note is followed that far);
- `BurstLen`, `VSizes`, `MaxCount`, `MaxOwed`; `NMap`, `Addr`, `Prim`, `Flags`,
  `MaxCopies`, `MaxRec`, `MaxPieces`; `Size`, `ColorSize`, `NColor`, `NTex`,
  `VtxBytes`, `Quarter`, `MaxVerts`, `MaxFlight`.

The code's values are larger (a queue of 256, a latency of 50 µs, 32
descriptors, a ring of megabytes), but each enters only in comparisons with a
limit, and each run meets both sides of all of them. One texture address is
enough for `TexturesRight`: what it can hold (two values and an EFB copy) is
what a map can be wrong about, and two maps may disagree about it.

**Fairness.** Host threads that can run do (`WF` of each host thread's steps in
`wait_baton` and `pass_to`; of the clock thread's; of the renderer's). Guest code
that is in a handler or a critical section leaves it, and its loops poll: the
recompiler puts a poll in every back-edge. `SF` stands where a thing is enabled
again and again but not for ever: the interrupt dispatcher takes VI's and the
CP's lines in turn (`DeliverVi`, `DeliverCp`); time passes though the guest may
kick the clock (`TimePasses`), and guest code gets to a poll though it turns
interrupts off in between (`PollStarts`); the game goes on moving or clearing its
breakpoint (`MoveStarts \/ Clear`), which is the game's own frame loop; every
guest thread gets its turn (`Turn`). Nothing makes the guest submit a request,
write a burst, start a DMA, write the decrementer or idle. Retraces are 16 ms
apart: `SeldomRetrace` keeps them out of a running handler or poll loop in the
liveness run of `RenderQueue`, where without it one `ppc_poll` could find a new
retrace for ever; the safety run has no such limit.

In `MCDevices` retraces keep coming, and each calls `deliver()` on the thread
that runs (`StartDeliver`); a thread inside `deliver()` goes on (`DeliverStep`),
a callback returns (`CallReturns`), time passes (`Tick`). Nothing makes a
callback register again, ask, or a controller stay: `TruthIsTold` speaks of one
that does. In `MCSound` the clock thread comes round (`ai_tick`) and time passes
(`Pass`); the guest may do nothing at all, and the blocks keep coming.

## 5. Proofs

`tlapm` checks all of these for every value of the constants that satisfies the
modules' named assumptions.

**OsProofs.** Two modules. *GuestThreads:* `BatonInvariant` proves `BatonInv`; `TypeCorrect`,
`MutualExclusion` (`OneGuestThread`, `BatonIsTaken`) and `TablesAgree`
(`OneHostPerContext`) are its parts. None of them is inductive alone. The
heart is the window between the look-up in `hle_OSLoadContext` and `pass_to`:
there the target must stay a thread that will take the baton, so `BatonIsTaken`
speaks about `target` already while it is being handed; that nobody retires it
meanwhile follows from `OneGuestThread` (only the holder retires) and
`OneHostPerContext` (the holder is not the one found). `BeforeAdoption` is needed
for the main thread's host thread, which carries no context until the SDK first
saves one, and would otherwise break the tables. The model's guest side is
arbitrary in this part: it uses nothing of `tstate` beyond its type. Contexts,
host threads and nesting are unbounded.

The rest rests on `StackInvariant`, which proves `StackInv`: `Shapes` (what a
host thread's stack of calls may look like from bottom to top, and which entry
may be on top at each place of the code), `ExitedDead` (only a dead context's
thread is in `OSExitThread`), `StartedCarried` (a context that has started is
carried, and lies on its own host thread's stack), `Taker` (who takes the baton
next, by the place the holder is at) and `CurrentCarried`. From it `ThreadsRun`
(`ThreadsInv`) and `HandlersReturn` (`HandlerFindsItsContext`) follow. `ImplementsCore` is the refinement of `SingleCore`: `PassTo`
and what ends in it is the core's switch, `CreateThread` its creation, guest code
its run, and every other step a stutter; the mapping of each context to its
continuation is kept because a step changes the top of one stack only. Its
hypothesis `~RecreateOwn` leaves out the one case in which the code does not do
so, which is the first of the findings above.

*Clock:* `ClockInvariant` proves `ClockInv`: on every host `LinesTold` (a line up is
pending but between `ppc_poll`'s reset and its look), and with `Windows` `IdleSeen`
(the two-flag protocol of `os_raise` and `ppc_idle`, whose wake-up the event remembers
while the idle loop is between its look and its wait) and `KickSeen`: a sleep
that would end after the decrementer's deadline has a kick on its way that the
event remembers. `IdleWakes` and `NoLostKick` (`WakesInTime`, `DecTold`) state both for
hosts with events; without them the look and the wait leave the same gap twice, which
costs the idle loop a millisecond and the clock thread its deadline (`MCClockKick`).

**CpFifoProofs.** `FifoInvariant` proves `FifoInv`: `StreamOrder`, `StopsThere`,
plus `Connected` (when reading is enabled and the FIFO linked) and `BpSet` (how
far the two halves and the enable are set for the burst they are meant for, at
each step of a move). `StopsThere` needs `BpSet` because a stop is decided on the
address alone; `BpSet` needs `StreamOrder` because the burst's address is found
by counting from what was read. The rules of `GpRun` and `Accept` are lemmas.
The FIFO's size, the marks and the halves are arbitrary.
The rest of `CpFifo`'s safety is the module's second half. `FlowInv` adds to `FifoInv`:
`Interrupts` (which of the two watermark interrupts is enabled tells whether the
thread is suspended), `Room` (how much can be held: up to the high mark plus what
the thread writes before it polls), and `Ring` (held bursts lie one after the
other before the write pointer). From `Room` and `Ring` two held bursts never
share a slot: `NeverWrittenOver`, by the assumption that the slack fits between
the high mark and the size. `HeldForBreakpointOnly` and `LineIsRaised` prove
`StopsOnlyThere` and `LineRaised`. With this all of `CpFifo`'s safety holds for
FIFOs of any size.

**IosIpcProofs.** `IpcInvariant` proves `IpcInv` and `NeverInsideTheCall` proves
`NotInsideTheCall`, for any number of blocks and any latency. `Accounted` counts
a block over every place it can be at, as `OneReplyEach` does, with a count over
queues that has its own lemmas for what joins and leaves one. It is not inductive
without `OneWaits` and `Patient` (what a device keeps was asked to wait, and only
one block is: else a second request to wait would overwrite the first), `Healthy`
(a Y comes with the flag, and never both) and `Stage` (what the client holds at
each of its register accesses; between its write of a Y and that of the flag IOS
is held off). `CallOut` is the argument of the latency: a reply's remaining time
and the age of the call that has not returned are together at least the latency,
so what is due is never that call's. `UpdateStep` proves all of this of a round of
IOS from any healthy state, and each step of the client or the clock ends in one.

**RenderQueueProofs.** `QueueInvariant` proves the inductive `QueueIInv`, of which
the core is `Flow`. It holds `Sorted`, a row of all that is recorded, queued or being
drawn and not drawn yet, in which numbers only grow, so that drawing the first of it is
drawing in order; the frames in flight counted chunk by chunk (as sizes of disjoint
sets); and that a read-back's entry of the queue carries no commands. The row has
lemmas of its own for what joins at its end, what is inserted, and what leaves at the
front. `FramesInFlight` and
`DrawnOnceInOrder` prove `QueueInv` and `DrawnInOrder`. `ReadBacksShowAll` proves
`ReadBackShowsAll` from `ReadInv`: the shapes of the threads' stacks (`Shapes`), one
peek at a time (`Mutex`), and for the request under way where it is: handed over
(`Handed`), awaited (`Awaited`), answered (`Answered`). Its hypothesis `OneKind` says
that the threads peek, or one of them reads copies: the code has one answer
(`rb_ready`) for both.

**DevicesProofs.** Three modules. *Registers:* `RegistersInvariant` proves
`RegInv`, with `OnlyItsOwn` added: a DMA or a disc command is under way only on the
device the behaviour drives. Each action either ends in a raise, or brings no line
up; the proof has a lemma for each of the two ways, and the SI's poll interrupt
(`PollHonest`) apart.

*Wpad:* `PadInvariant` proves `PadIInv`: `Frames` (one thread at most is in
`deliver()`, the flag is up meanwhile, and at each place its index is within the
table or the channels, which is why the table may grow but not shrink under it) and
`Answers` (the table's requests are the last that were made, and those called back
are all before it and as many of it as `deliver()` has come past). `CalledBackInOrder`
(`PadInv`) follows by laying the two sequences end to end. `LatestHeard`
(`HeardLatest`) and `NeverGoneUntold` (`GoneAfterHere`) need `ConnectInv`: what each
registered callback has heard at each place between the three calls of its channel,
whatever is registered there meanwhile and by whom. Nothing is assumed about when a
channel counts as settled, so both hold whatever the unsigned difference of the times
says.

*IosFiles:* `FilesInvariant` proves `FsInv`, for positions anywhere, past a file's end
too. A read-ahead is what the file held when it was made, and `behind` says that
another descriptor has written since; what is read from such a one is the host's to
say, and not ruled out. The lemmas about paths (`PrefixFacts`, `RebasedFacts`) turn "lies below" into "is the folder of", and
`MovedFacts` says that a move keeps the tree a tree and leaves alone what is
elsewhere. `RenameAllOrNothing` proves `AllOrNothing`: once the target was there to
be removed, its folder is there too, so the move that follows cannot fail.

**FoldTheorems.** What the proofs about folds rest on. The community modules define a
fold by a recursive function over sets (`MapThenFoldSet`), chosen among the functions
that satisfy its equation, so nothing is known of one until such a function is shown to
exist. `FoldExists` does that for any finite set and any step given as a function:
induction over the set's size, from the library's theorem about least elements of a
well-founded relation, which takes a set and no operator (`Upto`). `FoldStays` carries
a property through a fold, `SumUpto` says that `SumFunction` adds up one value
after the other, and `LeftFoldSteps` that a left fold over 1..n goes from each number to
the next. At the end are the facts about multiples, quotients and remainders of any
divisor that the SMT solver does not find by itself (`TimesFacts`, `DivIs`, `NextDiv`).

**DrawingProofs.** Three modules. *Vertices:* `RingInvariant` proves `RingInv`: the
offset is a multiple of a vertex (`Aligned`), a draw the GPU has not finished lies
within one quarter (`OneQuarter`), either below the offset in the offset's own or in
another one, whose fence waits for it (`Fenced`), and no two of them overlap
(`Apart`), but where the later one lies in a quarter that was entered with its fence
given up (`late`), which excuses nothing in the next quarter or on the next lap.
`NeverOverwritten` proves `NotOverwritten` for any sizes with which a draw
fits a quarter and no vertex ends where a quarter does (`VerticesAssumption`).
`DecodedInStep` proves `InStep` from `DecodeInv`: there are running sums of the colours'
and the coordinates' bytes, and what is taken at each attribute is what they and the
attributes before say; the nine cases of `vertex_size` meet `decode_vertices` in the
last one.

*GxTextures:* `SampledRight` proves `TexturesRight` from `TexturesInv`. Its core,
`Agrees`, speaks of the renderer not as it is but as it will be once the record is
executed (`After(rec)`): it will have the parser's bindings for its sources, each
uploaded texture and each copy the parser counts on, and will have mistaken nothing.
That is what lets the parser skip a binding or an upload that is there already, and it
is kept by a hand-over because executing the record is what `After` says. `ExecAppend`
(one more command is executed last) is the lemma all of it needs; a draw that joins
the one before rewrites the record's last command, which `LastDraw` says it is.
`HeldRight` is the caches' side (an EFB copy stands for its memory while the bytes
under it are the ones it was made over), `LookedIn` and `BindingsRight` say what the
flags promise: a texture looked at, or a map not dirty, is one of what was there since
the last invalidation. `Synced` takes `sync_textures` map by map, through `BindMap`.
`PiecesTogether` proves `GxInv` from the commands' types.

*GxStream:* `ExecutedAsSent` proves `ParsedAsSent` from `StreamInv`: the bytes on
their way are a row of commands, each with the format it will meet (`Row`), and what
is owed is what is left of the list that runs (`Left`), then what each of them does.
The row grows at its end when the guest sends (`RowGrows`), keeps its bytes when a
burst moves from the pipe to the stream, and loses its head when that is parsed
(`RowTail`): `WholeFirst` and `TakeFirst` say that `Whole` is true exactly when the
row's first command is all there, and what `After1` leaves is then the row's rest. A
list short of a byte is its commands but the last, and `NoneLeft` says that what
`ListEnds` drops is nothing the guest is owed. Bursts, vertices, draws and XF loads are
of any length and any number of commands is on its way; a list has two commands, as in
the model. `Together` is a fold, taken apart by `Summing` with FoldTheorems.

**SoundProofs.** Two modules. *AudioPath:* `AudioInvariant` proves `AudioInv`, and
`NoFrameSkipped` `SkipsNoFrame`. The invariant behind them, `AudioIInv`, says where the
SDK's view of the DSP's task and the DSP's own may differ (`TaskAgrees`: only with a
mail or an interrupt under way), that `ai_in_handler` is set exactly where the guest is
in the AI's handler (`HandlerAgrees`), and what must have happened for the
guest to be found busy (`Waited`): a block whose wait had run out.

*Ax:* `VoiceInvariant` proves `VoiceInv` and `StartedOnTime` `StartsOnTime`, from
`FrameInv`, what a PB is between two frames: as far into its sample as it has read
(`Heard`), not past a one-shot's end (`Lasts`), its loops counted (`Counted`), and a
start that still waits finds the note at its beginning. The proof is long because one
step of the specification is a whole list: folds over samples, outputs and milliseconds
inside each other. From the bottom: `ReadableFacts` and `NextExpected` say how the
reference goes from one sample to the next; `FollowingFacts` that the accelerator's
address does the same; `SampleStep` that one sample in keeps `RunInv`; then
`TimesSample`, `TimesOutput` (an output reads as many as its position passes),
`RunVoiceStep` (what is loaded and written back) and `FrameExists` (the frame's
milliseconds, of which the one that starts a note finds the voice as the frame did)
carry that up with `LeftFoldSteps`. For `StartsOnTime`, `GcStarts` counts the samples of
the milliseconds after the start. Runs, frames, ratios and samples are of any size;
`SoundTracks` is a hypothesis: a sample's first address, its loop and its end are
nibbles of sound, none of a block's header. With an end in a header the code takes the
two ways of its own that `Following` has, and what it reads then is not proved.

**Only model-checked:** all liveness, which is out of the prover's reach
(`HandoffCompletes`, `RetiredEnds`, `Taken`, `AllReplied`, `AllRead`,
`DrawDoneTold`, `ReadBackEnds`, `TruthIsTold`, `AllAnswered`,
`BlocksKeepComing`). So is
`StartsAnew`: the code fails it in the case that `RecreateOwn` lets in, so there is no
theorem of it. Every other safety property of the passing runs is stated by a theorem.

## 6. Abstractions

- *Guest threads:* priorities are left out, so the scheduler may pick any ready
  thread: more behaviours than the SDK's. A handler runs with interrupts off;
  interrupts nest only through the idle loop that a handler's reschedule runs.
- *Clock:* host code takes no time; the 200 µs the clock thread spins before its
  deadline, and the millisecond that bounds `idle_wait`, are a wake-up that may
  come at any time. `mttb` moves the deadline along with the time base, so only
  its kick shows. The timed devices do not kick the clock thread: a DMA started
  while it sleeps ends at its next wake-up, or at the guest's next interrupt
  check, in the code as in the model. The ARAM's DMA stands for all of them. A
  handler takes less than two ticks. The PI's mask lets all through (`Registers` has it).
- *IosIpc:* enables stay on, as the client sets them. A client has at most one
  request outstanding of the kind that stays pending: the device keeps one.
  CPU-side bits without effect (X2, the masks) and what devices compute are left out.
- *CpFifo:* the PI's pointer is a slot of the FIFO or "off" it; display lists
  are "off". Breakpoints are put at a burst that is held or the next one, which is
  what the ports' engine does. `unpolled` counts bursts since a line was raised:
  interrupts are taken within `Slack` bursts, since stores happen in loops that poll.
  A redirection turns interrupts off and on, which polls.
- *RenderQueue:* a burst is a command. A handler does not read back. The bytes
  that a copy leaves in RAM, the recycled record buffers and the textures a record
  carries are left out. Timeouts of waits are their loops' next round.
- *Wpad:* one Remote's buttons stand for a sample; pointer and motion are left
  out. A thread retired while it is inside a callback (and so inside `deliver()`)
  is not composed with `GuestThreads`.
- *Registers:* one device a behaviour, since a device's line depends on its own
  registers; what crosses devices is `g_ppc_pending`, which any of them sets. SI's
  error bits and the data the devices move are left out. `LinesTold` leaves out VI
  and PE, whose enables raise nothing when the status is already set (a hazard of
  its own in `PROJECT.json`).
- *AudioPath:* half a block is the smallest time, and the lateness is counted to
  just past `LateMax`. The rate's correction by a few per mille is left out.
- *Ax:* volumes, mixing, filters and decoding arithmetic are left out, and
  of the commands of a list all but the pass over the PBs.
- *GxStream:* a display list whose draws rely on the format at the call is left
  out, since the length of what the guest owes is fixed when it is sent.
- *GxTextures:* the CPU does not rewrite the very bytes that lie under an EFB copy
  (it compares hashes of them, and would take the copy to stand again). Palettes,
  formats and the cache's eviction after many frames are left out.
- *Vertices:* a draw fits a quarter of the ring (`VerticesAssumption`), which the
  code's sizes give.
- *IosFiles:* nothing is created below a file; ES,
  attributes and directory listings are left out.

## 7. Not modelled

- *OpenGL, shader generation, texture and audio codecs, ciphers, image formats,
  SYSCONF, boot:* they convert data or run once, and keep no state that steps of
  different actors share.
- *The recompiler* (`recomp/`): it runs at build time on one game. Its fixed
  points (which addresses are entries, what a jump table covers) quantify over
  programs; at the sizes TLC reaches they would show little. The emitter is a
  table from instructions to C++, whose meaning is the CPU's manual.
- *RSO modules:* the loader that links and unlinks them is the game's own SDK,
  which is not in the repository; `rso.cpp` only mirrors it.
- *Disc reads:* a range split over files.
- *The sampling profiler* suspends guest threads from outside and has no effect
  on them.

What is modelled in part is in `PROJECT.json`, component by component, with what
is left out of each.
