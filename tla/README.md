# A TLA+ development of the Kria DFX applications

The repository holds a small C library, `lib/siha.c`, that drives reconfigurable
accelerators in one of two slots of an FPGA, four applications and a set of
notebooks built on it, and two kernels of a video pipeline. What can go wrong
here is mostly timing: a CPU and two data movers work on the same registers and
the same buffer, and the only synchronisation is a start bit and a done bit per
mover. This directory models that, checks it with TLC and proves the safety
properties it checks with TLAPS.

## 1. The system

| Part | State | Operations | Modelled in |
|---|---|---|---|
| SIHA transfers, `lib/siha.c:136-204` | registers of the slot's rm_comm_box, `m_addr` | `DataToAccel`, `DataFromAccel`, `DataToAccelDone`, `DataFromAccelDone`, `StartAccel` | `SlotSession`, `ObservedSession`, `AbortedSession` |
| Slot hardware (external) | start and done bits, running transfers, XRT buffer, configuration of the module, its output FIFO | begin, move a beat, finish, load a module | `RMCommBox` |
| SIHA resources, `lib/siha.c:7-134, 156-160, 206-216` | `m_rms`, `RMCOMMBOX`, file table, mapped windows | `InitializeMapRMs`, `FinaliseUnmapRMs` and what they call | `SihaLib` |
| aes128, aes192, fir, fft, `src/*/main.c` | the buffer's layout, the files | `main`, `internal_test` | `AESApp`, `FIRApp`, `FFTApp`; `AppRun` |
| Python wrapper `notebook/siha.py` and cells | the buffer, kept for the kernel's life | `loadData`, `config`, `config_fft`, `run`, `retrieve` | `NotebookApp`, `NotebookKernel` |
| Image padding `notebook/pad.py`, `AES128.ipynb` | Python variables, three files | `addpad`, `removePad`, two cells | `Pad`, `ImageCells` |
| AI render kernel `vvas_airender.cpp` | configuration, per-frame overlay state, frame counter | `init`, `start` with a callback per prediction, `deinit` | `AiRender`, `LabelText` |
| Preprocessing kernel `vvas_xpp_pipeline.c` | parameter buffer | `init`, `start` with a 1000 ms wait, `deinit` | `XppPipeline` |
| Pipelines, dfx-mgr, build files | | | not modelled |

**How the parts interact.** An application opens a slot (`InitializeMapRMs`),
which maps the slot's registers and sets `RMCOMMBOX[slot]`. It copies its inputs
into an XRT buffer and then makes a fixed sequence of library calls. A transfer
call writes a descriptor and then the start bit of a data mover; MM2S streams the
buffer to the module in the slot, S2MM writes the module's output to the buffer.
The Done calls poll. Nothing is locked, no interrupt is taken, and each process is
single threaded: the concurrency is between the program and the hardware. Hardware
state outlives the process. A Jupyter kernel drives two slots, whose movers work on
one buffer. The two video kernels are called by the VVAS framework, frame after frame
from one thread; the preprocessing kernel commands an accelerator and waits for it with
a limit, the render kernel computes on the CPU.

**What makes each part correct.**
- Transfers: no start is lost, no descriptor changes under a mover, a wait ends
  for its own transfer and does end, results are the inputs processed once under
  the configuration of this run, and an in-place result does not overtake its input.
- Resources: the pointers of an open slot lead to that slot, and closing gives back
  what opening took and nothing else, after any failure in between.
- Application runs: copies and transfers stay in the buffer, a failing run costs no
  more than it must, the output is the whole input processed, and the exit status says so.
- Notebook kernel: a cell gets its own results whatever was run before it on either slot.
- Image cells: decryption restores the image last encrypted, and every byte of it
  goes through the accelerator.
- Render kernel: each frame gets the labels, texts, offsets and rate that belong to it.
- Preprocessing kernel: no unfinished frame goes downstream, however late the accelerator is.

The hazards of the code, each at its line and with the properties aimed at it, are
listed in `PROJECT.json`.

## 2. Modules

```
Handshake        the start/await discipline, as operators on a program
  RMCommBox      hardware of a slot (external)
    SlotSession  an application's calls, register access by register access
      MCOvertaken                                     instance
      ObservedSession   ... with what the program reads; implements OrderedCalls
        MCFirstSession, MCReusedSlot                  instances
        SlotSessionProofs   types, handshakes, refinement and results: for every
                            program, then for the applications and the cells
      AbortedSession    a process killed anywhere, and the next;  MCAbortedSession
        AbortedProofs   the second process as an instance of SlotSessionProofs
      NotebookKernel    two SlotSessions, one buffer, one CPU;    MCNotebookKernel
        NotebookProofs  each slot as an instance of SlotSessionProofs
OrderedCalls     abstract: every library call is done when it returns
SihaApi          library calls as records
  AESApp, FIRApp, FFTApp, NotebookApp   programs as sequences of those records
AppRun           arguments, files, buffer layout and exit status of an application;
                 AppRunProofs, MCAppRun
SihaLib          files, windows and pointers of a process;  SihaLibProofs, MCSihaLib
Pad              padding of images
  ImageCells     the cells around it;  PadProofs, MCImageCells
LabelText        the text of one label
  AiRender       a frame's predictions and their overlay;  AiRenderProofs, MCAiRender
XppPipeline      a command against its wait;  XppPipelineProofs
```

**RMCommBox.** The hardware is not in the repository. `lib/siha.h` names an APCR,
GIER and IIER register with ADDR, SIZE and TID after them, the code writes bit 0 to
start and polls bit 1 for the end: the `ap_ctrl_hs` block of a generated data mover.
The model assumes the behaviour of that block: start stays set until the transfer
ends and writing it meanwhile does nothing; done is set at the end of a transfer,
survives a new start, and is cleared by the read that returns it; a mover samples its
descriptor when it leaves idle, some time after the start bit was written. The module
holds `FifoDepth` output beats and then stalls MM2S. A beat (16 bytes, the unit of
SIZE) is the identity of the data it came from with the configurations it was
processed under, so "processed twice", "not processed", "wrong key" and "stale" are
all visible. Addresses outside the modelled part of the buffer read as junk.

**SlotSession.** `pc` is the library call being executed and `stage` its next register
write, so a transfer call is three or four separate writes with the hardware moving in
between. `ReadDone` is the read that finds the bit set, `ReadNotDone` a turn of the
polling loop. GIER and IIER enable interrupts nobody takes and are left out. `Load` is
a `memcpy` to the buffer (with or without a fresh buffer under it), `Report` a printed
"configured" message, `Collect` the program reading its results.

**OrderedCalls, ObservedSession.** What a caller of the library would like to believe:
`OrderedCalls` has no mover, no register and no done bit. Each call takes effect as a
whole when it returns; a wait has nothing to do. `ObservedSession` is `SlotSession` with
two history variables, the results read last and the view the ordered calls would give,
and its property `ActsInOrder` is the specification of `OrderedCalls` under the mapping
that keeps `app` and `pc`. What is compared is what the program reads, from the real
buffer on one side and from the view on the other. In between the two do differ: a
transfer call returns with its data still unread.

**AbortedSession.** A process that is killed at any register access, the movers going on
without it, perhaps a module loaded anew, and a second process. The programs do nothing
to put a slot in order, so the properties ask what the second process needs: a slot that
is `Quiet`, with no bit set, no transfer running and no beat in the FIFO. Registers,
configuration and buffer may hold anything. Workloads marked `reliant` (aes, notebook)
stop where a mover is not ready in time, as with `CpuMayOvertake = FALSE`.

**AESApp, FIRApp, FFTApp, NotebookApp.** Each program as a sequence of calls, with the
offsets as constants and the data as arguments. The `if (status)` around each step of
the programs never fails, since the Done calls return only when bit 1 is set.
`aes192` makes the calls of `aes128`. Messages that only say that a transfer was
started ("Configure FIR Input data done.") are not `Report`s.

**NotebookKernel.** Two instances of `SlotSession` that share the buffer, the CPU and the
program counter; the user runs cells in any order and exchanges the accelerator of a
slot between cells, as the notebooks ask. `OtherSlotPassive` is what makes the sharing
work: the last MM2S transfer of a cell is not awaited, yet once its results have been
awaited it reads no more.

**AppRun.** One invocation of an application, with each `die` an exit. A file is its
length in bytes, -1 for one that cannot be opened; of the output it is also known how
many of its first bytes were processed. `AES128`, `AES192`, `FIR` and `FFT` are records of
what the four `main`s differ in, with the buffer's layout: the place of each copy is
an index of 32-bit words in the code, the place of each transfer an offset in bytes, and
both are kept as written. The session on the slot is one step (`Work`), and what
that step assumes, that the whole beats handed over are processed, is `ResultsExact` of
the session runs. A slot that does not exist leaves pointers unset; the outcomes
modelled are a killed and a hung process. An input file that is also the output is
truncated while it is mapped, and the copy from the mapping kills the process.

**SihaLib.** `InitializeMapRMs` is one step that obtains `n` of three files and `k` of
three windows: every failure of `open` and `mmap` is included, and what the code leaves
behind is left behind. A new structure is zeroed, so the descriptor fields of the other
slot are 0. `FinaliseUnmapRMs` gives back the fields of its slot and the SIHA manager's
descriptor; the manager's window stays, as do the pointers. The variable `careful`,
chosen in `Init`, is the client: TRUE for one slot at a time and an exit on failure, as
the `main`s have it; FALSE for cells run in any order over both slots, which go on after
a failure. What holds only of the first is a property with that hypothesis.

**Pad, ImageCells.** `Pad` is the arithmetic, byte for byte. `ImageCells` runs the
encryption and decryption cells in any order, with the file name changed and the kernel
restarted in between. AES is an invertible mark on a byte, and only whole beats are
marked.

**LabelText, AiRender.** `LabelText` is `get_label_text` with its array and its 8-bit
index, character positions instead of characters. In `AiRender` one action is one turn
of the loop over a prediction's classifications (`overlay_classification`), and
`overlay_node_foreach` is the callback's return to the traversal. Each drawing (box,
colour, text, offset) is recorded instead of painted. A frame carries its predictions in the
order of the traversal. Time is a counter that may move between any two actions.
`Fits` says for which lists of parts and which labels the index is right: with a third
part, a list without a known part, or a text longer than the index counts, the text is
not what `label_filter` asks for. The run evaluates `LabelsFit` for its instance.

**XppPipeline.** `start` in two steps, the command and the end of the wait; in between
and afterwards the accelerator begins and finishes, or never does. It reads the input
frame and the parameter buffer and writes the output frame, so a frame that went
downstream, and a parameter buffer that was freed, must not belong to a command.

Operators whose comment begins with "Mutant" are variants of a definition with a
plausible mistake. They are not used by the specifications; replacing the definition by
its variant must violate the property it is listed with in `PROJECT.json`.

## 3. Runs

| Run | Instance | Shows |
|---|---|---|
| `first_session` | fir and fft, `main` and `internal_test`, inputs of 1 to 6 beats, FIFO of 3, arbitrary timing | all slot properties, termination and the refinement, on a freshly loaded slot |
| `reused_slot` | aes128, fir, fft and three notebook cells, each twice on the same slot with other data; movers ready in time | exact results, no overtaking of an in-place input, termination, the refinement |
| `stale_done` | fir twice on the same slot, arbitrary timing | **violation**: "Configure Reload data done." before the coefficients have been taken |
| `aborted_session` | fir, fft (arbitrary timing), aes128 and two notebook cells (in time), killed at any access, then run again | a slot found quiet is enough for the process after it |
| `notebook_kernel` | four cells on two slots, up to 5 cells or exchanges in any order | every cell ends with its own results; the other slot keeps off the buffer |
| `slots` | 8 places for windows, every failure; up to 7 openings of one slot at a time, or 4 of both | pointers, files, windows and the standard files are right |
| `image_cells` | 12 image lengths, cells in any order | the last image encrypted is restored; nothing stays in the clear |
| `app_runs` | the four applications, 19 file lengths, every failure of a file, the slot or XRT | the buffer bound, what an unusable input may cost, packets intact |
| `write_error` | the same | **violation**: an exit with success without the output |
| `file_tail` | the same | **violation**: the last `len % 16` bytes are not processed |
| `ai_render` | four accepted and four incomplete configurations, five frames, 4 frames long, a clock of 3 ticks | labels, texts, offsets and frame rate |
| `xpp_pipeline` | 3 output frames, 5 inputs, an accelerator late or hung | whole frames, live parameters, `start` returns |

**Bounds.** Inputs below, at and above the FIFO depth are what distinguishes a module
that can swallow the whole input from one that stalls; the configuration of fir has two
beats, so that it can be half taken. The layouts keep the order and overlap of the
macros (fir and the cells write results over the input, fft has its own region); in the
fft instances the input stays within the region before the results, as the 64 KB of
`internal_test` do. Two sessions are enough to carry state from one to the next, and
five cells to leave any of the slots in any state a cell leaves, exchange its module
and come back. Seven openings with eight places reach the state where the windows
`FinaliseUnmapRMs` leaves mapped have exhausted the address space. With `MaxFd = 8` both
slots fit exactly. Image lengths cover both sides of each boundary of the padding (12
and 13, 15 to 17, 28 and 29 modulo 16) and the limit `BUFFSIZE`. The file lengths of
`MCAppRun` are both sides of every limit the four `main`s test, the 512 bytes a side file
has in the buffer, and lengths between two whole beats. A write returns an error,
nothing, half or all. In `ai_render` the index of the text has 3 bits, the array 16
places and `MAX_ALLOWED_CLASS` is 3; the frames have predictions with no box, a box at
the origin, no label, an empty label, several labels, and an unsupported format. Four
frames with an interval of 2 show a rate that is computed, kept and computed again.

**Timing.** `CpuMayOvertake = TRUE` assumes nothing about relative speed. fir and fft
are correct under it on a fresh slot. The aes applications and the notebooks are not:
they write the payload's descriptor and start bit with no wait after the key's, and
rely on the mover having sampled, and finished, the key by then; and the second session
of fir and fft waits on a done bit of the first. `FALSE` states exactly that reliance:
a started mover has sampled its descriptor before the next one is written, and has
finished before its start bit is written again. It is an assumption about the board
(a key of 32 bytes against several uncached register writes), not something the code
ensures; for fir it is also what hides the stale done bit. A consequence: the aes test
may print "Slot configured for DECRYPTION." before the key has been taken.

**Fairness.** Weak fairness of the CPU: a runnable process is scheduled. Weak fairness
of each hardware step (in the notebook kernel, of the hardware of each slot): a mover or
module that can move does. Both are what the polling loops presuppose, and nothing
stronger is used. Termination of the aes programs under
it is worth a remark: MM2S is awaited before S2MM is started, which would block for
ever on an input longer than the module can hold, were it not that the done bit seen is
the key's. The mutant that awaits the key finds that deadlock. Nothing is assumed of the
user, who may kill a process or never run another cell, and nothing of the accelerator
of the preprocessing kernel: the fairness of `Timeout` is that 1000 ms pass.

**Deadlock** is checked except in three runs. In `aborted_session` a reliant process on a
slot that was left in the middle of a transfer may be unable to go on, which is what such
a slot does. `ai_render` and `xpp_pipeline` end when the kernel is closed or the bounds
are reached.

**Findings.** Each of the three violations is listed in `PROJECT.json` with the line it
contradicts. `stale_done` is a message that comes before what it says; the
same cause would let a slow coefficient transfer be overwritten by the configuration's
descriptor. `write_error` is the test `if (!status)` after `write`, which returns -1 for
an error. `file_tail` is the conversion of bytes to beats by `len>>4`: a file whose
length is no multiple of 16 is "encrypted" into one whose last bytes are in the clear.
Behaviour of the render kernel that is modelled but contradicts no statement of the
repository is among the hazards: the text of a third part of a label, the black
rectangle of an unnamed classification, and a box in the corner that is not drawn.

## 4. Proofs

Every theorem holds for all values of the constants that satisfy the named assumptions:
`HardwareAssumption`, `TimingAssumption`, `WorkloadsAssumption`, `SecondAssumption`,
`CellsAssumption`, `SlotsAssumption`, `ProgramsAssumption`, `LimitsAssumption`,
`BufferAssumption`, `ConfigsAssumption`, `LabelAssumption`, the two `FramesAssumption`s
(of the two kernels) and `NoneAssumption`, which TLC evaluates in the runs.

**Handshakes (`SlotSessionProofs`).** For every buffer, FIFO depth, set of programs and
either timing, `TypeCorrect`; and for a program that is `Handshaked` (starts a mover only
when nothing is outstanding on it, awaits it only when something is)
`HandshakedNoLostStart`, `HandshakedDoneIsFresh` and `HandshakedDescriptorStable`.
`NoLostStart` and `DoneIsFresh` are not inductive: what a call may do depends on the
calls before it. So `HandshakeInv` relates hardware to program: a mover with nothing
outstanding at `pc` has start and done clear, one with a transfer outstanding has exactly
one of them set, and a running mover has start set. A call either changes what is
outstanding on its mover (`OutstandingStep`) or leaves it; a hardware step leaves the
program alone and moves start to running to done.

**Refinement and results (`SlotSessionProofs`).** The question is what the program can tell
from `OrderedCalls`, where a call is done when it returns. `Completed` is the slot's
state once everything pending on it has run to its end: the buffer with the target of
S2MM overwritten by the output still to come, the configuration packet with its missing
beats, the output left over. It is a function of the current state; for a mover that has
not begun, it reads the registers. Then

- a hardware step leaves `Completed` as it is (`HardwareKeepsCompleted`, with one lemma
  per kind of step), and
- a register access leaves it as it is until the one that lets the call return, which
  changes it by exactly `Ordered!Effect` of the call (`ConfigStartEffect`,
  `PayloadStartEffect`, `ResultStartEffect`, `LoadEffect`, `QuietEffect`; `SessionStep`).

So the observer's `view` equals `Completed` at all times (`SessionInv`). Two further
parts make that inductive: `DescriptorInv`, that a mover's registers and what is left of
its transfer are those of the call that started it, and `TargetInv`, that S2MM stays in
the buffer, has enough output coming, and does not write where MM2S has still to read.
Whether a program keeps the latter is a fact about its calls, `Disciplined`: it is
`Handshaked`, does not load or send while a transfer is outstanding, collects results
only when S2MM has been awaited, asks for no more output than there will be, and puts
results either apart from the payload or at or before the place they were computed from
(`Behind`). `Disciplined` mentions no hardware; it is decided on the views the calls
give one after the other. From this:

- `CallsActInOrder`: the initial states and steps of a session map to `OrderedCalls`,
  each call to one step and all else to stutters, i.e. the safety part of `ActsInOrder`;
- `WritesBehindReads`: `WriteBehindRead`;
- `SoundResultsExact`, `SoundReportsTrue`: a program that is `Sound`, that is, disciplined
  and right when its calls are done one after the other, is right on the slot:
  `ResultsExact` and `ReportsTrue`, at any relative speed.

**fir and fft (`SlotSessionProofs`).** `FIRHandshaked` and `FFTHandshaked` need no
assumption, so neither does `FirstSessionSafe`. `FIRSound` and `FFTSound` execute the
two programs call by call for data of any length and any layout in which the regions
follow each other and lie in the buffer (`FIRLayout`, `FFTLayout`). That is how the
macros of the two `main`s lay them out, but the lengths of the files must fit: the code
bounds the input of both, and of the coefficient and configuration files only from below
(`FIR/main.c:258,270`), so a longer file is outside the theorem (and among the hazards),
as is an fft input beyond 64 KB. `FirstSessionResultsExact`, `FirstSessionReportsTrue`,
`FirstSessionWritesBehindReads` and `FirstSessionActsInOrder` follow.

**Programs that rely on the movers being in time (`SlotSessionProofs`).** The aes
programs, the notebook cells and the second session of fir and fft are not `Handshaked`:
they start MM2S again without having awaited it, or take the done bit of an earlier
transfer. They are not right at every timing (`stale_done` shows it of fir), so what is
proved of them assumes `CpuMayOvertake = FALSE`. It is proved with a weaker discipline,
`InTime`:
the handshake is kept on S2MM alone; while a result is outstanding nothing is loaded,
sent or collected; and the buffer is loaded only when the latest transfer was a payload
whose output has all been fetched. A request for results needs, as before, enough output
to come and a place that is `Behind`. `HandshakeInv` is false here, and its place is
taken by a fact about every moment at which the CPU may go on: where it writes a
descriptor of MM2S the mover has begun or is clear, so the registers still decide what
`Completed` is, and a payload all of whose output was fetched has nothing left to read
(`InTimeInv`). `SoundInTime` says that a program is right when its calls are done one
after the other *whatever the buffer and the module hold*, and leaves nothing behind
that matters; a slot in the state it leaves is `Settled`: nothing to fetch, nothing
outstanding on S2MM, and MM2S at most about to report its end. A session that starts on
a settled slot ends on one (`SessionLaunch`, `SessionInTimeStep`, `SessionEnd`).
`InTimeResultsExact`, `InTimeWritesBehindReads` and `InTimeActsInOrder` are the results
for every such program.

That the programs are such is shown call by call, for data of any length that have their
places (`AESMainFits`, `AESTestFits`, `FIRLayout`, `FFTLayout`, `AESCellFits`,
`FIRCellFits`, `FFTCellFits`): a `Part` of a program leads from one state of the slot to
another, and parts compose (`PartThen`). `Session` is any of the seven, `Sessions` any
number of them one after the other on one slot, in any order and on any data
(`SoundConcat`), so `ReusedSlotResultsExact`, `ReusedSlotWritesBehindReads` and
`ReusedSlotActsInOrder` cover the workloads of `reused_slot` and all longer ones.

**After an abort (`AbortedProofs`).** The second process is a session of its own calls
that starts at its launch, so the theory above is instantiated with them, and
`ProcessInv` says which process runs where. On a quiet slot only the packets of the
process before may differ from a fresh one, so the hypothesis at arbitrary timing is
`SoundAfter` for whatever packets the module holds (`Second`); `FIRSound` and `FFTSound`
are proved in that form, since both programs send every packet they rely on. For a
process marked reliant the instance is the one with `CpuMayOvertake` FALSE (`Prompt`): a
quiet slot is a settled one, so a killed process has left no more behind than one that
has ended. `QuietSlotIsEnough` and `QuietSlotHandshaked` assume nothing of the first
process, nor of where it was killed. The corollaries `SecondSessionResultsExact` and
`SecondSessionHandshakes` are for fir and fft at any speed, and the first also for `main`
of the aes programs and the cells in time. The `internal_test` of aes is left out, since
it reports a packet early.

**Notebook kernel (`NotebookProofs`).** `NotebookResultsExact` and `NotebookSlotsApart`,
for every set of cells that fit, on either slot, and any number of cells run and
accelerators exchanged. Each slot is an instance of the theory of programs in time, and
`KernelInv` says that the slot of the running cell is in a session of that cell
(`InTimeSession`) and the other slot, like both between two cells, is `Settled`. A
settled slot stays so whatever its hardware does, and that leaves the buffer alone
(`SettledHardware`), which is why the two can share it; and its state does not mention
the buffer, so the other slot may write it (`SettledKept`).

**Resources (`SihaLibProofs`).** All five properties, for any number of places, files and
sessions. `open` and `mmap` return the lowest free entries; `LowestIsFree` and
`LowestDiffer` say that the i-th lowest exists, is free, and differs from the j-th, from
which the tables after any partial success follow (`FilesObtained`, `WindowsObtained`).
`LibInv` adds to the properties what they leave out: `ApartInv`, that what closing one
slot unmaps is not the window of the other open slot although they share a structure, and
for a careful process that at most one slot is open and its structure accounts for
exactly its files and its windows. `Places` is finite: an address space is.

**Application runs (`AppRunProofs`).** `RunTypeCorrect`, and `BufferSafe`,
`UnusableInputSafe` and `PacketsSafe` for inputs of every length. The properties do not
mention how the run got where it is, so they rest on `InputChecked` (`CheckedFirst`): a
run that is past a check has a file that passes it. `PacketsSafe` also needs that the
files stay what they were (`FilesFixed`) and, per program, that a key, configuration or
coefficient file of at most 512 bytes fits between its place and the next.

**Image cells (`PadProofs`).** `PaddedLength` and `RemoveUndoesAdd` for data of every
length, and with them `DecryptionRestores`, `NothingIsInTheClear` and `CellsTypeCorrect`
for any images and any order of cells and restarts. `CellsInv` says that the encrypted
file is that of the image last encrypted and that the kernel's `size` and `padcount`, if
they survived, belong to it.

**Preprocessing kernel (`XppPipelineProofs`).** `KernelTypeCorrect`, `FramesSafe` and
`ParamsSafe` for any pool and any number of frames. `KernelInv` adds what the properties
leave out: a command that outlives its wait does so by a timeout, its frame is the last
one `start` was given, and that frame is not downstream.

**Render kernel (`AiRenderProofs`).** `RenderTypeCorrect`, `LabelsAreComplete`,
`OffsetIsOfThisFrame`, `RateIsMean` and `LabelTextsAreExact`, for any configurations,
frames and number of frames. The properties are about a frame that has been traversed;
`RenderInv` says the same of the part behind the cursor: each classification there that
is not skipped has its drawing, the drawings are in the order of the traversal
(`DrawnInv`), the current offset is set exactly if a labelled classification of the
whole frame is among them (`OffsetInv`), and the rate is that of the frames counted
(`ClockInv`). That the search of `class_list` finds the first entry of a name is
`SmallestOf`, and an unused entry has an empty name, which is no label. The text of a
label is a fold over the parts; what a fold gives for every list cannot be proved here,
but a list of one or two is the fold unrolled, and those are the lists for which the
text is right. `LabelTextsAreExact` therefore assumes `LabelsFit`.

**Only model-checked.** Liveness, which is out of the prover's reach: `Termination`,
`QuietSlotTerminates`, `CellsEnd`, `StartReturns`, and the liveness part of `ActsInOrder`.
There is a theorem for every invariant that a passing run checks.

## 5. Not modelled

- The UIO paths looked up by dfx-mgr, and the daemon itself. Loading a module into a
  slot is modelled by what it leaves there.
- Two processes on one slot at a time: nothing prevents it, and nothing is said of it.
- Ordering of stores: the windows are mapped uncached with `O_SYNC`, and the model
  keeps program order.
- What the modules compute, and throughput figures. Hence also an fft input longer than
  64 KB, which reaches into the region of the results: what is overwritten before it is
  read depends on the latency of the FFT.
- What a slot does that was not quiet when a process started, and side files longer than
  512 bytes: the code promises nothing of either.
- The notebook `AES_On_HW_vs_SW.ipynb`, plots and the comparison in software.
- Painting, the rounding of coordinates for NV12 and the conversion of colours; the
  GStreamer pipelines, whose elements are not in the repository.

## 6. State

The modules, runs and proofs planned are done. Two assumptions carry the most weight and
would be worth discharging outside TLA+: that the generated data movers behave as
`RMCommBox` says, and, for the aes programs, the cells and a reused slot, that the board
is fast enough for `CpuMayOvertake = FALSE`.
