# mochivm in TLA+

Formal models of mochivm: the from-scratch VMX hypervisor (a UEFI application,
`src/`) and the desktop manager that boots it in QEMU and shows its serial
output (`manager/`).  TLC model-checks them on small instances; TLAPS proves the
properties that matter most for every value of the constants.  Paths below are
those of the repository.

## 1. The system

### 1.1 Inventory

| component | source | state it keeps | operations |
|---|---|---|---|
| processor (external) | Intel SDM, reached through `src/x86.rs`, `src/hv/vmx.rs` | CR0/CR4, IA32_FEATURE_CONTROL, VMX mode, VMXON and current-VMCS pointers, launch states, VMCS fields | VMXON, VMXOFF, VMCLEAR, VMPTRLD, VMREAD, VMWRITE, VMLAUNCH, VMRESUME, VM exits |
| VMX wrappers | `src/hv/vmx.rs` | none | `vmx_supported`, `feature_control`, `apply_fixed_bits`, one function per instruction, `calc_ctrl`, `calc_secondary` |
| x86 primitives | `src/x86.rs` | none | control registers, MSRs, segment and descriptor-table reads |
| bring-up and exits | `src/hv.rs`, `src/hv/vmcs.rs`, `src/main.rs` | `VMXON_REGION`, `VMCS_REGION`, `VMX_ACTIVE`, `EXIT_COUNT`, the host stack | `init`, `setup`, `write_state`, `enter_guest`, `host_entry`, `exit_handler`, `teardown`, `vmxoff_and_clear`, the panic handler |
| page allocation | `src/hv/efi.rs` | none (firmware) | `allocate_pages`, `allocate_page` |
| guest | `guest/hello.S`, `src/hv/guest.rs` | RIP, registers | four instructions |
| serial port | `src/serial.rs` | UART | `init`, `put_char`, `write` |
| backend | `manager/src/vm.rs` | `child`, `rx`, the run directory; per engine two reader threads, two pipes, a channel | `start`, `stop`, `drop`, `is_running`, `drain_log`, `spawn_reader` |
| window | `manager/src/main.rs` | list of vms, selection, log, status line | `App::new`, `run`, `update` |
| self-test | `manager/src/main.rs` 29-139 | log, deadline, report | `run_self_test` |
| FAT32 builder | `manager/src/fat.rs` | an image in memory | `write_fat32_disk` and its parts |
| OVMF | `manager/src/ovmf.rs` | files next to the executable | `detect`, `download`, `find_file` |
| smoke test, CI | `scripts/smoke.sh`, `.github/` | files | a sequential script |

**Interaction.**  `efi_main` calls `hv::init`, which calls the capability checks,
`vmcs::setup` (page allocation and the VMX wrappers) and `enter_guest`, which does
not return.  From then on control alternates between guest and `host_entry`, which
the processor enters on every VM exit; `host_entry` calls `exit_handler`, which may
call `teardown`.  The manager spawns QEMU, which boots the hypervisor from a disk
image `fat.rs` built; the hypervisor's serial output is QEMU's stdout, read by one of
two detached threads that send chunks through one `mpsc` channel to the window's
thread, which drains it once per frame.

**What is hard.**  In the hypervisor: an error at any of a dozen steps with VMX on; an
instruction order the processor insists on and reports badly; a register file that
goes through a stack by hand; a counter that must end the session.  None of it runs
on a machine without VMX, so the tests of the repository (the boot-only smoke test)
never execute it.  In the manager: the window's thread, engines and reader threads
interleave; engines die by themselves or by a signal that takes effect later; every
step of `start` can fail after the old engine is gone; a panic in `update` unwinds
through `Drop`; one run directory is used by one engine after another.  The list
`hazards` of `PROJECT.json` names each of these at its line.

### 1.2 What makes each part correct

- *Bring-up*: whichever step fails, the firmware gets the processor back outside VMX
  operation (unless the VMXON region is page 0, see 3.1); no VMX instruction runs outside
  VMX operation; `expect` cannot fire.
- *Exit path*: interception is invisible to the guest; the limit ends the session at
  the right count; the VMCS is cleared and VMX is off before control rests; only the
  first VM entry can fail; a running guest is eventually stopped.
- *Backend and window*: one engine at a time on the run directory; no engine survives
  the App; the console is the output of one engine, per stream in order and without
  holes, and only a character that a read has cut is shown as replacement characters; last words arrive; status and label tell of the engine there is; the
  selection stays in the list; threads end and calls return.
- *Self-test*: passes only if the banner was written; finds a banner that came in pieces;
  ends whatever the engine does; leaves no engine behind.
- *FAT32 builder*: both FATs equal; the chain from the directory entry visits exactly the
  file's clusters and ends; nothing is written outside its area; too long a file, and no
  other, panics.
- *OVMF*: a pair reported by a download that ran alone is whole, and both halves belong together.
- *Serial port*: line settings as the code has them, whatever the firmware left; no character is
  lost; prints return.
- *Control words*: VM entry never refuses one.

## 2. Modules

```
Vmx   GuestMachine   VmxSession               Backend
  \      |             | (abstract)          /       \
   Hypervisor----------+                  App       SelfTest
    |    \     \                           |           |
    |  Controls HypervisorInv            AppInv     SelfTestInv
    |    |   \   /   \                     |    \        \
    |    |    MCHypervisor HypervisorProofs|  AppProofs  SelfTestProofs
    |  ControlsProofs          |         MCApp
    +--------------------RefinementProofs

Fat32 -- Fat32Inv -- Fat32Proofs
Serial -- SerialInv -- SerialProofs
Ovmf -- OvmfInv -- OvmfProofs
```

### 2.1 `Vmx`: the processor and the wrappers

The state of one logical processor as mochivm drives it.  Each wrapper of
`src/hv/vmx.rs` and each control-register accessor of `src/x86.rs` is an operator over
the primed variables it changes; its last parameter is what the caller gets back:
`"ok"`, `"err"`, or that an instruction raised an exception (`"fault"`, and `"ud"` when
it was a VMX instruction outside VMX operation: VMXOFF, VMREAD and VMWRITE as well as VMCLEAR, VMPTRLD
and the VM entries).  What instructions do is external and
follows the SDM; how they are used follows the code, operand for operand:

- `read_cr0`, `read_cr3`, `read_cr4` *write* the register, from a register nothing has
  set (Intel syntax puts the destination first).  The value is a nondeterministic
  choice; the move may fault, and must fault in VMX operation when the value breaks
  the fixed bits.  `write_cr0` and `write_cr4` only read, so they change nothing.
- `vmxon`, `vmclear` and `vmptrld` are given `[region]` as their operand, so the address
  the processor takes is the region's first quadword: the revision identifier under
  whatever the page held.  `mem` is that quadword for each frame; its value when the
  identifier has been stored is a nondeterministic choice among the frames and `None`
  (an address the instruction refuses).
- `Reported`: all wrappers test CF only.  `VMfail` is what the processor sets.
- `vmread` gives the field's content or, with no current VMCS, anything: it does not look at the flags.
- a CR0 or CR4 is one bit in the model: whether it satisfies the fixed bits (CR4 with
  VMXE).  CR3 is not followed: what executes after a wrong CR3 is outside the model.

### 2.2 `Hypervisor`: bring-up, guest, exits, shutdown

One thread of control; `pc` names the next call or the place where control has come to
rest.  One action per call of `hv::init` and `vmcs::setup` (`Probe`, `FeatureControl`,
`ApplyFixedBits`, `AllocVmxon`, `Vmxon`, `Alloc` for the other four allocations,
`Vmclear`, `Vmptrld`, `WriteState`), then `EnterGuest`, the guest's instructions
(`GuestMachine`), VM exits, `HandleExit` (the pushes and the whole of `exit_handler`,
`teardown` included) and `Resume` or `Stop` (the pops and what follows them).  The
statics have their names.  Error paths go through `vmxoff_and_clear`.

Page allocation depends on the firmware (`SYSTEM_TABLE`).  `efi.rs` declares the tables by hand and
leaves out two members of the system table.  On a firmware with the tables it declares,
`allocate_pages` returns fresh pages (`Page(k)` is the k-th) or an error.  On one with the tables
of the UEFI specification the call lands in `SetAttribute` of the standard error output: it faults, answers
an error, or succeeds and leaves `addr` at 0, so that every page is page 0, where both
revision identifiers are then written.  There bring-up gets no further than VMCLEAR: VMCS and VMXON region are the same
page, and VMCLEAR refuses the VMXON pointer.  `vmxoff_and_clear` takes the 0 in `VMXON_REGION` for VMX never
entered and returns to the firmware with VMX on.

`write_state` makes 84 VMWRITEs; the model follows the six host selectors and
`GUEST_SYSENTER_CS`, whose encodings matter to a finding, and leaves what VM entry's
checks make of all of them (`entry`) open: valid, host state refused, guest state refused.
Everything proved holds for each verdict.

### 2.3 `GuestMachine` and `VmxSession`: what is promised

`GuestMachine` is the guest on a machine of its own where HLT completes.  `Transparent`
says that `Hypervisor` implements it, the guest's registers being those on the processor
or, between the pushes and the pops, those on the host stack.  `VmxSession` is the
promise to the firmware: VMX operation is entered at most once, the guest runs only in
it, at most `Limit` times intercepted, and the last intercept ends the session.
`OneSession` is the refinement, with `mode` and `pc` mapped to a phase.

### 2.4 `Backend`: `manager/src/vm.rs`

The calling thread is inside `start`, `stop` or `drop` while `pc` names a step; `Kill`
and `Wait` are the two halves of `stop`, with the engine dying in between or later;
`MakeDir`, `WriteDisk`, `CopyVars` and `Spawn` are the steps of `start` that can fail.
Engines are numbered by run; each has two pipes (written and not yet taken units), two
reader threads (`Read`, `Send`, `ReadEof`, `ReadFails`) and a channel.  A reader holds what
it has read in `hand` until it sends it, so a chunk in hand meets every interleaving,
a dropped receiver included.

### 2.5 `App`: `manager/src/main.rs`

`App::update` as one action per thing the user can do in a frame; each begins with the
drain of the channel and the trim of the log (`Poll`, `Capped`).  A click on start, reset
or stop enters `Backend`; what it returns is acted on (`Started`, `StartFailed`, `Stopped`)
before the next frame, since `pc` is not `"idle"` until then.  `TrimPanics` is the panic
of `String::drain` when the cap falls inside a character, `Close` the closed window; both
drop the App and with it the Backend.  `shown` is a history variable: how many units of
each stream have been drained.

A panic inside `start` (`WriteDiskPanics`, a hypervisor image longer than the disk) unwinds
through the caller as well and takes the Backend with it.

Output is counted in units.  A unit in `Wide` is the first part of a character of several bytes, the
next unit its second part.  Each read is decoded by itself (`from_utf8_lossy`): `Chunk` marks a part
whose other half is not in the same read as not `intact`, which stands for the replacement characters shown in
its place.  `CutsCharacter` is the cap falling between the two parts of a character that arrived whole; since
replacement characters are longer than what they replace, the cap may fall inside one wherever it is in
the log (`TrimPanics`).

### 2.6 `SelfTest`: `run_self_test`, the other caller of `Backend`

`SelfTest` composes the same `Backend` with the self-test's own thread instead of the window.
`st` is the place in `run_self_test`: the check for the files, `start`, the loop of `Drain`,
`Search` and `Sleep`, the deadline (`TimeIsOver`), `stop`, the report and the exit.  `Expire` is
the clock passing the deadline, at any moment of the loop.  The banner is the units from
`BannerFirst` to `BannerLast` of stdout, so that it can be cut anywhere by a read or a poll, and
`Contains` asks for them in one piece.  The banner is ASCII: none of its units is part of a longer
character, which `BannerAssumption` says.  `write_report` ignores its errors and may leave an old or
an empty report.  The exit code is known at the end only; a panic in `start` leaves none.

### 2.7 `Fat32`: the disk image, and a driver that reads it

The image is one flat function of slots, as it is one flat buffer in the code; a slot is a FAT
entry, a directory entry or a word of the file.  `Headers`, `FatHead`, `Chain` (one link per
step), `Dirs`, `Data` (one cluster per step) and `Save` are the parts of `write_fat32_disk`;
`ChainPanics` and `DataPanics` are the bounds checks of the slices.  `Open` and `ReadCluster` are an
external FAT driver which starts from the boot sector it finds in the image, walks the
directories by name, splits and joins the two halves of the first cluster, and follows the chain
in either FAT.  Formatting (padding of 8.3 names, time stamps, byte order) is left out.

### 2.8 `Controls`: the control words

A word is the set of its bits, a capability MSR the pair of what must and what may be 1.  `rdmsr`
joins the halves as the code does, `calc_ctrl` and `calc_secondary` take them apart, `Word` is what
`write_state` writes for each of the five words.  All of it is a function of the MSRs, so `Controls` adds
no variable to `Hypervisor`, which it extends: its properties say what the words are whenever a VM entry
is next, for every setting of the bits `MCOffered` lists.  A desired bit that the processor does not offer is
dropped, as the comment of `calc_ctrl` says; nothing is claimed of it.

### 2.9 `Serial`: the UART and what is printed

`Init` is any state the firmware can leave: a UART or none, interrupts on or off, the divisor latch
open or closed, a character in the FIFO.  With the latch open the first write of `init`, which is to turn
interrupts off, goes to the divisor.  `InitWrite` is one write of `init`; `Println` begins a line, and
`PutCr` and `PutChar` are the two writes `put_char` makes for a line feed, each after the wait for the
transmitter.  The UART (`Written`, `Transmit`) loses what does not fit.

### 2.10 `Ovmf`: search, download, restarts

`Launch` is `App::new`, `AutoDetect` and `ClickDownload` the two buttons; `Curl` and `Tar` are the external
programs, each of which can fail half way, leaving its file cut short or one half of an
architecture replaced.  `QuitWithChild` ends the manager and the child it waits for at any of these
steps; `QuitAlone` ends the manager only, since `Command::status` does nothing for the child when its
parent is killed.  An orphaned curl goes on writing the temporary file (`OrphanCurl`) and an orphaned tar the
directories (`OrphanTar`), beside the manager that `Launch` starts again and its next download.

`Find` is the two searches over one order of the listing, which is the file system's.  A directory that
cannot be read, or the entries after one that cannot, are passed over by `find_file`: each search sees
some set of the directories, and the two sets may differ (`Seen`; where they do, it is enough to tell apart which
directory, if any, each search comes upon).  Two history variables say when a promise can be
expected: `alone`, the last download began with no orphan about, and `agreed`, its two searches could
list the same directories.  Which architecture the pair is of is left to the order.

### 2.11 Invariant and proof modules

`HypervisorInv`, `AppInv`, `SelfTestInv`, `Fat32Inv`, `SerialInv` and `OvmfInv` hold the inductive
invariants, as conjunctions of named parts; TLC checks them as invariants of a run.  The modules named `...Proofs` hold the theorems
(section 4).  `MCHypervisor` and `MCApp` are the modules TLC runs.

## 3. What TLC checks

| run | bounds | shows |
|---|---|---|
| `hypervisor` | 5 frames, both kinds of firmware tables, limit 5 (the code's); control words over 9 bits | `IInv`, `ReturnsWithVmxOff`, `NoStrayVmxInstruction`, `SetupNeverPanics`, `StopIsClean`, `OnlyLaunchCanFail`, `LimitEndsTheSession`, `Transparent`, `OneSession`, `ControlsAreAccepted`; under fairness `GuestIsStopped` |
| `app` | 2 engines, 1 unit per stream (the first part of a character), log of 1, 2 vms | `IInv`, `RunDirectoryIsExclusive`, `NoOrphan`, `LabelTellsOfEngine`, `LogIsOfOneRun`, `StatusTellsOfEngine` |
| `console` | 1 engine, 3 units per stream, the first two one character, log of 1 | `ConsoleIsGapless`, `TailIsShown`; under fairness `ReadersEnd`, `CallsReturn` |
| `self_test` | 1 engine, 2 units per stream, a banner of both | `IInv`, `NoEngineLeft`, `PassMeansBooted`, `DrainedBannerIsFound`; under fairness `SelfTestEnds`, `BannerIsSeen` |
| `fat32` | sectors of 3 slots, 23 sectors, a FAT of 4, every length to 23 | `IInv`, `ReadsBack`, `ChainEnds`, `PanicsIffTooLong`, `AreasAreKept`, `CopiesAgree` |
| `serial` | 2 characters and the line feed, FIFO of 1, 2 lines of up to 2 characters | `IInv`, `Configured`, `LinesComeOut`; under fairness `PrintReturns` |
| `ovmf` | 2 architectures, both platforms, orphans of both kinds, no bound on downloads and restarts | `IInv`, `DownloadedPairIsWhole` |

`TypeOK` of each module, and `SelectedIsListed` of `App`, are conjuncts of `IInv` and are checked with it.

**Bounds.**  Five frames are what a complete setup allocates (the four-page host stack
counts as one); `FrameCount >= 5` is the assumption of the theorems, and a larger value adds only more
wrong addresses.  `MAX_HLT_EXITS = 5` is the constant of `vmcs.rs`.  The bits of `MCOffered` are those the code
names and at least one it does not name in each word.  Two engines are needed
for the old and the new one to meet, and more never do, since `stop` waits
(`ExclusiveRunDirectory` says so for any number).  Two vms are enough for a deletion to leave the
index behind.  Three units per stream are the least with which a unit can go missing in the
middle, and hold a character that can be cut and one unit more; a log of one
is exceeded by one chunk of two and by the chunks of two streams, and what the console will show is the log and
the channel behind it (`Console`).  The
self-test spawns one engine in its life; a banner of two units is the least that can be cut.  The
volume of `fat32` holds files of up to four clusters, so lengths from none to beyond the capacity,
on and around every multiple of a sector, all happen, as does a FAT longer than the data area.
Every run takes at most four minutes.

**Fairness.**  `Hypervisor!FairSpec`: a processor executes its next instruction; nothing is
assumed about which exit the guest takes, and since every path through `hello.bin` reaches
HLT none is needed.  `App!FairSpec`: a reader thread that can run does (weak fairness of
reading, sending, seeing end of file, and not of `ReadFails`, which is not its doing); an
engine that was sent the kill signal dies; the steps of a call go on.  Nothing is assumed of frames (the code
requests no repaint when output arrives), of engines that were not signalled, or of what
they write.  `SelfTest!FairSpec` adds that the self-test's own thread goes on.  It does not assume
that time passes: `SelfTestEnds` has that as its premise (polling for ever means that the deadline
comes), so that `BannerIsSeen` is not true just because the time is over.  `Serial!FairSpec`: the
processor goes on, and a UART that is there sends what it holds.

**Resting.**  The hypervisor rests in its cli/hlt loops, in the firmware or in an exception
handler; `AtRest` stutters there, so deadlock is checked everywhere else.  The manager and the
self-test rest when the Backend is dropped, the image builder at its end, the serial port when all
lines are out.

### 3.1 What the comments say and the code does not do

Each of these runs checks one property that states a comment, and TLC refutes it.

| run | comment | what happens |
|---|---|---|
| `doc_unlocks_vmx` | `vmx.rs:22` "Unlock VMX in IA32_FEATURE_CONTROL if the BIOS left it unlocked." | `msr \| 3` sets the bit for VMXON inside SMX; the one outside SMX is bit 2 |
| `doc_forces_fixed_bits` | `vmx.rs:35` "Force CR0/CR4 to satisfy the VMX fixed-bit requirements" | `read_cr` writes, `write_cr` reads |
| `doc_enters_root_operation` | `vmx.rs:52` "Enter VMX root operation on the current logical processor." | the operand is the region instead of a pointer to it |
| `doc_allocates_ram` | `efi.rs:43` "Returns a 4K-aligned pointer into identity-mapped RAM." | with the tables of the UEFI specification the call goes to another function, and a success leaves the address at 0 |
| `doc_host_selectors` | `vmcs.rs:6` "VMCS field encodings (Intel SDM, appendix B)" | host selectors in the wrong fields, none for CS |

The safety properties of section 3 hold *in spite of* these: the undo paths and the exit
path are right whatever the processor makes of the operands, with the one exception that
`ReturnsWithVmxOff` states.  A VMXON region at page 0 is not seen by `vmxoff_and_clear`
(`vmcs.rs:313`), and VMX is still on when control is back with the firmware.

Modelling brought up more places where a comment or a message promises what the code does not do;
the models have the behaviour, but no run is spent on it:

- `hv.rs:8` "only returns via VM exit handling (which eventually shuts VMX back down)": a VMLAUNCH
  that fails falls through into cli/hlt with VMX on (`AtRest` at `"entry_failed"`).
- `vmx.rs:49` "which set CF on failure": with a current VMCS a failing instruction sets ZF, which no wrapper
  tests; the write to 0x0820 stores nothing and setup is Ok (`VMfail`, `Reported`, `vmwrite`).
- `efi.rs:42` "EfiLoaderData": the 7 passed at line 53 is EfiConventionalMemory, EfiLoaderData is 2.
- `serial.rs:30` "no interrupts": with the divisor latch left open by the firmware that write goes to the
  divisor and IER keeps its value (`Configured` claims IER for a closed latch only).
- `vmcs.rs:110-111`: `LOAD_IA32_EFER_ENTRY` and `LOAD_IA32_EFER_EXIT` are bits 2 and 3; the SDM has bits 15
  and 21, and a processor that offers those never gets them (`Desired`).
- `fat.rs:121-122` "free cluster count", "next free": `write_fsinfo` counts every cluster of the data area as
  free and names the first cluster of the file (`FsInfo`).  A driver may take FSInfo for a hint only.
- `main.rs:113` "never appeared on serial": stderr and stdout share the log that is searched, so that a
  message of the engine can split the banner (`DrainedBannerIsFound` excludes that case).
- `ovmf.rs:34-35` "creates `<exe_dir>/ovmf/x64/{code,vars}.fd`": the archive unpacks below a directory of its
  own; after a restart nothing looks there (`Find`, `Candidates`).  Nothing prefers x64 either: the pair reported
  is that of the architecture listed first (`Order`, `find_file`).

## 4. What TLAPS proves

### 4.1 The hypervisor

For every `FrameCount >= 5` and every `MAX_HLT_EXITS >= 1`, from `FrameCountAssumption` and
`MaxHltExitsAssumption` alone:

| theorem | module | statement |
|---|---|---|
| `Invariance` | `HypervisorProofs` | `Spec => []IInv` |
| `TypeCorrect` | | `Spec => []TypeOK` |
| `ReturnsOff` | | `Spec => []ReturnsWithVmxOff` |
| `NoUndefinedOpcode` | | `Spec => []NoStrayVmxInstruction` |
| `NoPanic` | | `Spec => []SetupNeverPanics` |
| `CleanStop` | | `Spec => []StopIsClean` |
| `ResumeSucceeds` | | `Spec => []OnlyLaunchCanFail` |
| `LimitHolds` | | `Spec => []LimitEndsTheSession` |
| `Transparency` | `RefinementProofs` | `Spec => Transparent` |
| `Promise` | `RefinementProofs` | `Spec => OneSession` |

**The invariant.**  None of the properties is inductive: `StopIsClean`, for one, needs to
know that the VMCS teardown clears is the current one, which VMPTRLD found through the
page allocated for it, and that this address is not the VMXON region's.  `IInv` says, for
each value of `pc`: `ModeInv`, which mode the processor is in; `StaticsInv`, how many pages
there are and what the statics that error paths look at hold; `NullPageInv`, that on a firmware with
UEFI's tables the region's first quadword is the VMXON pointer once VMXON has succeeded, and that nothing
past VMCLEAR is reached there; `VmcsInv`, that the current
VMCS is the one in `VMCS_REGION`'s page, and its launch state; `ExitInv`, when the stack is
in use, that a HLT exit finds the guest at its HLT, and where the count stands.

**The argument.**  One lemma `Keeps<Action>` per action, one step per conjunct that the
action can disturb; `PopMirrorsPush` (a statement about the two lists of registers) is why
`Unwound` gives back what `Pushed` stored, and is the only place where the order of pushes
and pops matters.  `RefinementProofs` adds that each action is a step of `GuestMachine` or
leaves the guest alone, and a step of `VmxSession` or a stutter.

### 4.2 The manager

For every number of engines, amount of output, log capacity (0 included) and length of the
list, and any set of long characters, from `BackendAssumption`, `WideAssumption` and `AppAssumption` alone; all in `AppProofs`:

| theorem | statement |
|---|---|
| `Invariance` | `Spec => []IInv` |
| `TypeCorrect` | `Spec => []TypeOK` |
| `ExclusiveRunDirectory` | `Spec => []RunDirectoryIsExclusive` |
| `NoEngineOrphaned` | `Spec => []NoOrphan` |
| `TrueLabel` | `Spec => []LabelTellsOfEngine` |
| `UnmixedLog` | `Spec => []LogIsOfOneRun` |
| `SelectionInList` | `Spec => []SelectedIsListed` |
| `TrueStatus` | `Spec => []StatusTellsOfEngine` |
| `GaplessConsole` | `Spec => []ConsoleIsGapless` |
| `TailShown` | `Spec => []TailIsShown` |

**The invariant.**  `IInv` is `ControlInv`, which is inductive by itself, and `ConsoleInv`, which is with
its help.  In `ControlInv`, `FieldsInv`: `child` and `rx` are set and reset together, except that `stop`
takes `child` before it waits and drops `rx` after; past `stop` there is no child.
`EnginesInv`: an engine that is alive is the one the Backend holds or is waiting for, and its
files are complete.  `OutputInv`: a channel carries the output of its run and the log that of
one run, the current one except between a spawn and the `log.clear()` that follows.
`ReadersInv`: no reader holds more than it took, nor took more than was written (which is what
types the units it sends).

`ConsoleInv` follows each stream from the pipe to the window.  `Follows(text, p, b)` says that the units of
stream `p` in a text are number `b + 1`, `b + 2` and so on.  `LogInv`: the log follows what it has lost of
the stream, which is what was drained less what it still has.  `ChannelInv`: the channel follows what was
drained, and what was drained and what is in the channel add up to what the reader took and no longer
has in hand.  Between a spawn and the `log.clear()` after it the log is still that of the old engine,
and the new channel begins at its first unit (`Polled`).  `DoneInv`: a reader that saw the end of its stream
has nothing in hand and has taken all that was written, which stays true because it ends only after
its engine.  `FreshInv`: a run to come has sent nothing.  Gaplessness is `Follows` read at two units and the type of a unit (only a part of a long character is ever
replaced, which `ChunkIsOfRun` shows of a chunk),
and the last words are what `ChannelInv` and `DoneInv` say of an empty channel.

**The argument.**  The log and the channels are sequences: `ConcatOfRun`, `Drained`, `Extended`
and `CappedKeeps` say what draining, appending and trimming do to "all of one run";
`ChunkIsOfRun` what a reader sends.  Then one lemma per action or per group of actions with the
same effect, one step per conjunct, and the properties follow from the invariant.  For the console,
`CountFacts` and `CountConcat` count the units of a stream in a text, `FollowsConcat` says that a text and
one that goes on where it ends follow as a whole exactly if both do, which gives both the drain (read from right to
left) and the trim (`CappedFollows`, from left to right), and `ChunkFollows` what a reader has in hand.

### 4.3 The self-test

For every amount of output and every banner, from `BackendAssumption`, `WideAssumption` and `BannerAssumption` alone;
all in `SelfTestProofs`:

| theorem | statement |
|---|---|
| `Invariance` | `Spec => []IInv` |
| `TypeCorrect` | `Spec => []TypeOK` |
| `NoEngineIsLeft` | `Spec => []NoEngineLeft` |
| `PassIsEarned` | `Spec => []PassMeansBooted` |
| `PiecesAreJoined` | `Spec => []DrainedBannerIsFound` |

**The invariant.**  `ControlInv` ties the engine to the place in `run_self_test`, `FreshInv` says that a run
that was not spawned has no output, `OutputInv` that what was read, sent or drained was written.  `OrderInv`
is the one that matters: as long as no message of the engine is in the log and the channel, the log is
the output from the first unit on, the channel goes on where the log ends, and what the reader has in
hand goes on where the channel ends.  `VerdictInv` says that the verdict is that of the log.

**The argument.**  `TextAfter` and `JoinedText` say how written, pure and consecutive texts behave under
concatenation, `ChunkFacts` what a reader sends; then one lemma per action, one step per conjunct.

### 4.4 The disk image

For every geometry that `GeometryAssumption` allows (the code's constants are one) and every length;
all in `Fat32Proofs`:

| theorem | statement |
|---|---|
| `Invariance` | `Spec => []IInv` |
| `TypeCorrect` | `Spec => []TypeOK` |
| `FileIsReadBack` | `Spec => []ReadsBack` |
| `ChainEndsWithFile` | `Spec => []ChainEnds` |
| `PanicIsTooLong` | `Spec => []PanicsIffTooLong` |
| `AreasKept` | `Spec => []AreasAreKept` |
| `CopiesAgreed` | `Spec => []CopiesAgree` |

**The invariant.**  One conjunct per area of the volume says what each of its slots holds while the image is
built (`HeaderInv`, `FatInv`, `DirInv`, `DataInv`), `ProgressInv` where the loops are, `ReaderInv` that the
reader has read the first `i` clusters and stands at the next.

**The argument.**  Multiplication by `BS` is wrapped in `sector` and met only through `SectorFacts`; the
areas are shown to be disjoint once (`Bounds` and the lemmas around it); a step keeps the areas it
does not write (`KeptFrom`), and the reader is shown to compute the places the builder used.

### 4.5 The control words

For any sets of bits in which processors differ, `ControlsProofs` shows that every word is accepted
(`AcceptedControls`).

### 4.6 The serial port

For any characters, any depth of the FIFO, and any number and length of the lines, from
`SerialAssumption` alone; all in `SerialProofs`:

| theorem | statement |
|---|---|
| `Invariance` | `Spec => []IInv` |
| `TypeCorrect` | `Spec => []TypeOK` |
| `ConfiguredAtLast` | `Spec => []Configured` |
| `LinesAreWhole` | `Spec => []LinesComeOut` |

`ConfiguredAtLast` is about the line settings, for every state the firmware can leave, and about IER where
the latch was closed; the other case is told of in 3.1.

**The invariant.**  `ProgressInv`: what is left of `init` is the end of its list of writes.  `RegistersInv` says
from which write on each register holds what it should, and that the latch is open from the second write to
the fifth: the two writes of the divisor reach it, and no character does.  `TextInv`: nothing is printed before
`init` is done, and a carriage return on its own belongs to the line feed that is next.

**The argument.**  `Expanded` is defined by the place of each character (`After`) instead of by
recursion: `AfterFacts` has the places in order, `ExpandedAppend` what one more character adds.  `PutRaw` is
the one place that needs the wait for the transmitter: what `put_char_raw` writes goes into an empty FIFO,
so none of it is lost whatever the depth, and stands behind everything before it (`OneMore`).

### 4.7 Search and download of the firmware files

For any set of architectures, from `OvmfAssumption` alone; all in `OvmfProofs`:

| theorem | statement |
|---|---|
| `Invariance` | `Spec => []IInv` |
| `TypeCorrect` | `Spec => []TypeOK` |
| `WholePair` | `Spec => []DownloadedPairIsWhole` |

**The invariant.**  `BundledInv`: the bundled directory is never written, so nothing in it is torn.
`AloneInv`: a download that began without an orphan stays without one, since only the end of a manager
makes one, and so does its result.  `UnpackedInv`: the searches of such a download begin only when every
architecture is complete, since the status of tar is looked at; whatever an interrupted download left has been
overwritten by then.

**The argument.**  `FirstFound` (with `LeastElement`) says what a search returns, `OrderType` what a listing
holds.  If no half of the bundled pair is in the way and both searches could list the same directories
(`agreed`), the same ones have either half, so the first one with `code.fd` is the first one with `vars.fd`, in
whatever order they are listed (`KeepsFind`).  `KeepsOrphans` says that what an orphan writes touches no result of
a download that was alone.

## 5. What is only model-checked, and what is assumed

- Liveness (`GuestIsStopped`, `ReadersEnd`, `CallsReturn`, `SelfTestEnds`, `BannerIsSeen`, `PrintReturns`) is
  out of this prover's reach and is model-checked only.  Every invariant and every refinement the runs check is
  also a theorem.
- Atomicity: a wrapper, or the pushes and `exit_handler`, is one step.  There is one thread
  in the hypervisor and interrupts are not taken in VMX root operation's exit path.
- A firmware with the tables `efi.rs` declares returns distinct pages, none at address 0 (2.2 says
  what happens on the other).  Frames reached by a wrong address are those of the model, and the damage done
  to other memory there, page 0 included, is not followed.  A wrong CR3 is not followed either.
- Exceptions of the guest, which go through the firmware's IDT, do not happen: `hello.bin` has no
  instruction that raises one.
- The upper halves of the registers that hold a 32-bit field encoding are zero, as every
  build that loads an immediate makes them.
- VMXOFF does not fail (dual-monitor treatment of SMM is not in use).
- `wait` and `kill` do not fail; `child.stdout.take()` is `Some`, since the pipes were
  requested; creating a thread succeeds; pipes do not fill up (a blocked engine still dies of the
  signal).
- `StatusTellsOfEngine` is about the engine the Backend holds: the status line says nothing of whether that one
  is still alive (the label next to it does, `LabelTellsOfEngine`).
- A frame has at most one click, as a mouse has; the marker lines `>> ...` the App adds to
  the log are left out, and so are the two file pickers, which only replace a path.
- tar writes the halves of an architecture one after the other, `code.fd` first; the bundled pair comes
  with the release and is never torn; the two searches of one download list in one order; a second manager
  does not run at the same time.
- A FAT driver reads a directory as far as its first cluster, which is all the builder writes.

## 6. Not modelled

- Of the 84 fields `write_state` fills, those that are followed are named in 2.2 and 2.8; the rest, and
  the segment and descriptor-table reads that feed them, enter as the open verdict of VM entry.
- The egui widgets, the QEMU command line and the search for its binary, the smoke script and CI: no
  state of theirs can be wrong in a way a model would show.
