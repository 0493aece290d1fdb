# LearnBoy: a verification development

TLA+ models of LearnBoy, a Game Boy emulator in C++, with the TLC runs that check
them on small instances and the proofs TLAPS checks about them for every value of
their constants. Paths below are relative to the repository, for instance
`source/cpu/Cpu.cpp`; `PROJECT.json` lists for every definition the lines it models
(`map`), for every run what it shows (`runs`), and for every property a change of the
code that breaks it (`mutants`, the `Mut_` operators of the modules).

To check: `tlc -workers 2 -config devices.cfg MCDevices.tla`; to prove:
`tlapm DevicesProofs.tla`.

## 1. The system

LearnBoy runs one Game Boy. `EmulatorState` owns the devices; `CliManager` reads
commands and drives `Debugger`; up to four threads run, and the callback SDL takes the sound from:

| thread | runs | touches |
|---|---|---|
| emulation thread (`Debugger::Detach` starts it, `Attach` joins it) | `while(!Stopped()) Cpu::Step()` | CPU, memory, PPU, timer, serial, APU |
| command line | `CliManager`; steps the CPU itself while the debugger is attached | the same, plus cheats, savestates, `m_stopped` |
| display | SDL events and drawing | joypad registers and IF, `m_stopped` (Ctrl+C), `Display::m_stop`, the presented frame |
| serial device ("ex" thread of `UdpSerial`) | answers the transfers of the peer | serial registers and IF |

Every memory access and internal cycle of an instruction calls `EmulatorState::Sync`,
which advances DMA, PPU, timer, APU and serial clock by one or two M-cycles; so the
devices run *inside* an instruction, on the thread that steps the CPU. Few of the
shared fields are protected: bytes and flags are atomic, a read-modify-write is not.

### Inventory

| component | state | operations | what is hard | what makes it correct |
|---|---|---|---|---|
| CPU, interrupts (`source/cpu/Cpu.cpp`) | IME, `ei_delay`, `halted`, `haltBug`, IF, IE | `Step`, `handle_interrupts`, `serve_interrupt`; EI, DI, HALT, RETI | IF is changed by three threads; EI is delayed; HALT must end | no request is lost, the highest enabled one is served, IME is set one instruction late, a halted CPU wakes up |
| CPU, instructions (`source/cpu/CpuInstr.cpp`) | registers, F, SP, ip, memory | 500 opcodes | flags flow from one instruction to a later one; DAA; an interrupt at any point | code computes what it says and returns |
| PPU, lines and modes (`source/graphics/ppu/PPU.cpp`, `PPU_Modes.cpp`) | mode, dot, LY, pixel index, LYC and window state | one dot per call in each mode, register writes | registers may change between any two dots; the end of a line is tested with `==` | mode, line, dot and buffer index agree; a frame has all its lines and is always followed by another |
| PPU, pixels (`PPU_Modes.cpp` `mode_oam`, `PixelFifos.cpp`, `PixelQueue.h`) | objects of the line, two fifos, a tile queue, the fetch state | OAM search, one dot | fifos filled in bursts by different producers; order at equal x | fifos hold the same columns, the object that comes first is shown, the line is done in time |
| Timer (`source/timing/Timer.cpp`) | DIV, TIMA, TMA, TAC, two remainders | `Tick`, register writes | one period per call | no cycle is lost |
| Serial port (`source/datatransfer/Serial.cpp`) | SB, SC, shift clock, `m_flag` | `Clock`, writes, `RequestInterrupt` | changed by two threads, `LOCK()` is empty, Send blocks | a transfer takes its time and no more |
| Serial link (`source/datatransfer/out/UdpSerial.cpp`) | two sockets, two addresses, `m_connected`, `m_stop` | Listen, Connect, Send, the ex thread, CloseConnection | three threads and a peer, receives without a timeout | answers match transfers; closing comes back and frees the peer |
| Cartridges (`Mbc1.cpp`, `Mbc3.cpp`, `RomOnly.cpp`, `RealTimeClock.cpp`) | bank registers, ROM, RAM, clock | reads, writes, patches, save and load | masks and zero tests; patches remember what they replaced | mapped banks exist; cheats are seen in each banking state and leave nothing behind |
| Debugger, command line, emulation thread (`source/debugger/Debugger.cpp`, `CliManager.cpp`, `source/state/EmulatorState.cpp`) | `m_stopped`, `m_debugging`, the thread, breakpoints, the stack trace | step, next, continue, stepout, attach, detach, exit | three writers of `m_stopped`; commands that block | one stepper at a time; commands end; the trace is the stack |
| Memory bus, OAM DMA (`source/memory/Memory.cpp`) | WRAM, HRAM, OAM, DMA source and position | Read, Write, `DmaAdvance` | access rules depend on the PPU mode; the game may write both pages meanwhile | a DMA copies 160 bytes of its source |
| Joypad (`source/input/Joypad.cpp`) | button matrix | Set*, Read | set by the display thread | an interrupt per press |
| Display (`source/graphics/display/Display.cpp`) | window, presented frame | events, Render, SetFrame | frame handed from one thread to another | the last frame is shown, none torn |
| APU, sound (`source/sound/`) | four channels, each with sequencer, length, envelope, sweep, timer; sample buffer | Tick, register writes, audio callback | units clocked at different rates, stopped by power and DAC, written in any T-state | length, volume and pitch are functions of time; the noise does not die |
| Savestates, saves (`source/save/`) | files | store, load | loaded in parts, by a thread that does not wait for the game; a process may end between truncating and writing | a machine of one instant; only whole saves are loaded |
| Disassembler, header tables, options, logging | tables | lookups | - | - |

`PROJECT.json` lists under `hazards` each place where this can go wrong in a way a test
would hardly reach, and the properties that watch it.

## 2. Modules

| part | specification | instance | proofs | what it is compared with |
|---|---|---|---|---|
| interrupts | `Interrupts` | `MCInterrupts` | `CpuProofs` | the atomic controller `IrqController` |
| instructions | `Cpu`, `Alu` | `MCCpu` | `CpuProofs` | the routines' meaning in `MCCpu` |
| lines and modes | `PpuModes` | `MCPpuModes` | `PpuProofs` | - |
| objects and pixels | `PixelPipeline`, with `Scanline` in common | `MCPixelPipeline` | `PpuProofs` | `PpuModes`; columns and priorities as the registers and OAM have them |
| timer, DMA, serial port | `Devices` of `Timer`, `OamDma`, `SerialPort` | `MCDevices` | `DevicesProofs` | the exact clock `TimerPromise`; the clock of DIV |
| serial link | `UdpLink` | itself | `LinkProofs` | - |
| cartridges | `Cards` of `Mbc1`, `Mbc3`, `RomOnly` | `MCCards`, `MCMbc1` | `CardsProofs` | `Laid`: the file with the inserted cheats laid over it |
| sound | `SoundChannel` | `MCSoundChannel` | `SoundProofs` | functions of the time since the trigger |
| debugger and threads | `Lifecycle` | `MCLifecycle` | `LifecycleProofs` | - |
| saves and the window | `Session` of `Saves`, `FrameHandOff` | `MCSession` | `SessionProofs` | - |

The modules are connected by what they assume of one another:
`PpuModes` takes the pipeline as "completes k pixels in a dot, the line within
`MaxTransfer` dots", and `PixelPipeline` keeps that promise (`KeepsPromise`: through the
instance `Modes`, each of its dots is a `TransferDot` or `EndTransfer` of `PpuModes`).
`MaxTransfer` is then `LongestLine`: with the real numbers and ten objects 258 dots, nine
more for each time the window is switched off and on again, of the 375 the line has
after the OAM search. So 27 writes of LCDC in one line are covered; a game that does
nothing else could make 47, and what happens then is not said. `Timer` assumes
that `Sync` is called with one or two M-cycles; `Interrupts` takes each
device as a source that may raise its bit in any Sync phase; `Cpu` abstracts the
interrupt protocol of `Interrupts` to IME alone; `Lifecycle` abstracts an instruction to
its effect on the stack, with one Sync; `Saves` abstracts it to the order in which the
parts of the machine change.

### Interrupts

A register byte is a set of bits. The emulation thread is the program counter `pc`
inside `Cpu::Step`: `HaltedStep`, `NoInterrupt` and `Handle` are `handle_interrupts`,
`ServeRead` and `ServeWrite` the two accesses of `serve_interrupt`, `Plain`, `DI`, `HALT`,
`EnableInterrupts`, `WriteIF`, `WriteIE` the instruction, `EndStep` the tail with
`ei_delay`. Between them the devices raise bits (`DeviceRead`, `DeviceWrite`), and the
joypad and serial threads do so at any point (`AsyncRead`, `AsyncWrite`). `stale` is
history: whose copy of IF is out of date. `IrqController` is the same controller with
every request and every service in one step.

### Cpu and Alu

One action per family of opcodes, from the functions of `CpuInstr.cpp` and the templates
of `Cpu.h`; `Alu` holds the arithmetic with its flags. A program is a function from
addresses to decoded instructions: fetching and decoding are not modelled. Registers,
flags and pointers keep their widths (% 256, % 65536). Reads of memory outside `Cells`
do not occur in the routines that are run. `master` is IME; `Interrupt` pushes ip and
enters the handler at any instruction while it is set. `MCCpu` has the routines, the
code that calls them (`Rom`), what they may be called with (`Callable`) and what each
must have computed (`Correct`).

### PpuModes

One action per exit of `mode_hblank`, `mode_vblank`, `mode_oam` and `mode_transfer`, and
per register write. The frame buffer index is `row * Width + col`. `since` and
`lycKnown` are history: the window row and the line after which the game last wrote WY,
WX or LCDC, and the line LYC was last compared for.

### PixelPipeline

`SpriteList` is the search of `mode_oam` and the sorting of `Reset`, with the index the
code gives an entry (`OamIndex`, a byte, 254 for entry 0). Then `m_temp_bg`, the two fifos,
`x`, `spritex` and the fetch state, one dot at a time. A pixel is the column it stands
for, so that the properties can compare where it is with where it belongs; all objects
are opaque. `WriteLcdc` sets the two bits the loop reads, window and objects, between any
two dots; `dark` is history: the columns passed with objects disabled.

### Devices: Timer, OamDma, SerialPort

`Timer` has `Tick`, with `AdvanceDivider` and `AdvanceTima`, and the register writes;
`TimerPromise` is an exact clock: any number of cycles at once, `\div` and `%` instead of
remainders kept by hand. `OamDma` has the write of FF46, `DmaAdvance` and the writes of
the game to the two pages; `before`, `changed` and `hidden` remember what was to be
copied. `SerialPort` has SB, SC and `Clock`, which with the internal clock leaves the
emulation thread in `Send` (`sending`) while the thread of the device may end a transfer of
the peer. `Devices` advances them together: `SyncAll` is `EmulatorState::Sync`; nothing
advances while Send waits. The PPU is seen only as hiding OAM or not.

### UdpLink

Each of two nodes has three program counters (`cli`, `emu`, `ex`), two sockets with
their queues, two addresses. The network is external: datagrams to an open socket
arrive once and in order, others are lost, as on the loopback device. `CloseConnection`
is two steps of whichever thread is in it, the command line or `Send`: `BeginJoin`, which
ends the emulator ("thrown") when the other one is in the same join, and `DisconnectEnd`
or `SendClosed` when the ex thread has ended.

### Cards: Mbc1, Mbc3, RomOnly

The registers, the mapped areas, and `AddGenie`/`RemoveGenie` of `EmulatorState` with
`ApplyPatch`/`RemovePatch` of each class. In `Mbc1`, `rom` has one more bank than the
cartridge, the memory behind the buffer, and `% size` stands for the code's mask, the
sizes being powers of two. In `Mbc3` the mask is the one of the code, which clears one
bit, and `Replaces` is its loop, which tests and writes the same cell in every turn. In
`RomOnly`, a cheat that matched nothing cannot be removed: the code reads the first
element of an empty vector. `Cards` is `CreateCartridge`.

### SoundChannel

One of the four channels with its `Sequencer`, `LenCounter`, `Envelope`, `Sweep`,
`SoundTimer` and, for the noise, the LFSR: `Tick` is one T-state of `APU::Tick`, the rest are
the register writes, the DAC and the power bit. `note`, `age`, `pure` and `doomed` are
history: what was triggered, how long it has sounded and what has happened to it.

### Lifecycle

The user closes the window or presses Ctrl+C at any time (handled by the display thread); the command line
executes one command after the other (`cmd`, `at`); the emulation thread is `thread`. The
game is a little program that calls, returns, drops a return address, switches the LCD
and is interrupted. `beat` and `missed` stand for the counter `m_stop_check_cycles`.

### Session: Saves, FrameHandOff

In `Saves` the content of a part of the machine is the instant of the game it belongs to. A
step takes the parts from one instant to the next one after another; a savestate is
written and read part by part in the order of `Savestate.cpp` (`Dumped`), typed attached
or detached; `part` found at another instant than the step began with becomes `Mixed`.
`bootRom` says whether the process was started with `--enable-bootrom`; in one that was not,
a savestate command stops at the memory, where only `Exit` goes on.
`Exit` is the end of the process at any point and a new one, perhaps with another
cartridge, on the same files. A game save is written in two steps, its header with the
first bytes of the RAM, and the rest, with the game running in between if detached. `FrameHandOff` is `ShowFrame`, `SetFrame` and `FramePresent` on
the thread that runs the game against `Loop` and `Render` of the display thread, each copy
in two halves. `Session` puts them together: the frame is handed over while a step is
between two parts.

## 3. Runs

| run | instance and bounds | properties |
|---|---|---|
| `irq` | timer and serial on the emulation thread, serial and joypad on others | `EnableProtocol`, `ImplementsController`, `WakesUp` |
| `irq_race` | timer and joypad; **violated** | `TimerRequestKept` |
| `cpu` | ten routines from edge values, one interrupt anywhere | `RoutinesCompute`, `RoutinesReturn` |
| `ppu_modes` | screen of 3 x 3, 5 lines of 8 dots | `LineInv`, `LycFlagCurrent`, `WindowRowFollowsLines`, `FramesKeepComing` |
| `pipeline` | lines of 24 pixels (three tiles), OAM of 4 entries of which 3 fit a line, window at 3 places, SCX 0 and 3, two writes of LCDC that set or clear window and objects | `FifosInStep`, `SpritesNearColumn`, `FirstSpriteShown`, `ColumnsFollowRegisters`, `KeepsPromise` |
| `devices` | DMA of two bytes, registers of 2 values, DIV period 3, TIMA periods 3 and 4, a transfer of 5 T-states, steps 1 and 2 | `DmaCopies`, `SentOnTime`, `OneClock`, `KeepsTime` |
| `udp_link` | both nodes start up to 2 transfers, the connecting one closes | `Paired`, `ExchangesMatch`, `DisconnectReturns`, `PeerReleased` |
| `cards` | MBC1 with a low register of two bits and 2 to 16 banks, MBC3 with 2 to 8 banks, ROM only; 3 or 4 cheats | `HighBankNotX0`, `CheatsAreSeen`, `RomIsFileAndCheats`, `OthersKeepFile` |
| `mbc1_ram` | 16 banks with RAM; **violated** | `RamBankIsHi` |
| `sound` | all four kinds of channel, steps of 2 T-states, small lengths, volumes, frequencies, an LFSR of 4 bits | `NoteLength`, `VolumeFollowsTime`, `PitchSlides`, `OnPitch`, `NoiseNeverDies` |
| `lifecycle` | 4 commands, stack depth 3 | `NeverTerminates`, `OneStepper`, `TraceIsStack`, `AttachReturns`, `CloseIsSeen`, `EndIsSeen` |
| `session` | 3 commands, 3 instants (steps and processes), 2 frames, 5 cartridges, with and without a boot ROM | `LastFrameShown`, `WholeMachine`, `OwnSavesLoad` |

Why the bounds are enough:

- **irq**: no bound but the number of sources; a device below, a thread beside and one
  below the source being served, and two threads for every overlap of
  read-modify-writes. The type invariant and the protocol are proved for all sets.
- **cpu**: the edge values cover carries, half carries, sign changes, zero and every
  decimal adjustment. One interrupt at any of the instructions; a second one would have
  to fall into the handler, which runs with IME off, or into a state the first one has
  restored. `Count` in 0xFF80 counts handlers run. All register contents and any number
  of interrupts are proved (`RoutinesAlwaysCompute`); that the routines return is checked
  on these values.
- **ppu_modes**: the constants keep the order of the real ones (160 x 144, 154 lines, 456
  dots); each mode takes several dots and there are two lines of vertical blank. What
  depends on the numbers is proved for all of them.
- **pipeline**: tile and fetch sizes are the real ones; three tiles are the first, a
  middle and a last one. Objects at the first, last and inner columns of tiles, alone, in
  pairs and stacked, in and against the order of OAM, one more than the line may show,
  and off the screen on either side. Two writes switch objects or the window on and off,
or off and on, at any two dots of the line; any number of them is proved.
- **devices**: a step of two may reach, overshoot or miss the end of the DMA, of the
  transfer and of both timer periods; the shortest period is one longer than the longest
  step, the worst case the assumption allows. In one behaviour the game programs the DMA,
  the whole timer, or the serial port and DIV: they do not read each other's state.
- **udp_link**: two transfers from each side let an answer of an old one meet a new one.
- **cards**: sizes below, at, and two and four times `Step`, the classes the code treats
  differently; two cheats at one address, a third elsewhere, for MBC3 and ROM only one
  more whose compare value is the one it writes. Bank numbers up to four times the size
  of an MBC3. `CheatsAreSeen` leaves out bank 0 in the high area: the code does not apply
  a cheat of that area to bank 0.
- **sound**: `Horizon` lets every counter run out and the sequencer pass its eight steps
  (for the envelope four times); lengths below, at and above the maximum, a volume with both
  ends, frequencies the sweep takes out of range, a noise period that does not fit the
  word. In one behaviour the game programs one unit.
- **lifecycle**: four commands are enough for detach, attach, a command of each kind and
  exit; depth three for recursion with an interrupt.
- **session**: three commands are a save, a load and what makes them differ (a step, detach,
  another save); two frames are one that is shown and one that arrives meanwhile. The
  five cartridges are three with one title, on different chips or with RAM of different
  sizes, one with a short title and an MBC3.

`CHECK_DEADLOCK FALSE` appears where the system may stop: `cpu` at the end of a routine,
`udp_link` when both have closed, `lifecycle` when the command line has ended, `session`
when its bounds are used up.

### Fairness

- `Interrupts`: weak fairness of the emulation thread as a whole (`while(!Stopped())
  Step()` never waits for anything in the model), none of the devices and threads that
  raise requests.
- `PpuModes`: weak fairness of a dot, because each instruction calls `Sync`; none of
  register writes. `FramesKeepComing` asks for the LCD to stay on.
- `UdpLink`: weak fairness of each thread that is able to go on; nobody has to start a
  transfer or to disconnect.
- `Lifecycle`: weak fairness of the emulation thread and of the command line while it
  executes a command; nobody has to type, close the window or press a key.
- `Cpu`: weak fairness of the next step: `Step` is called in a loop.

Nothing in the models needs strong fairness, and the other modules state safety only.

## 4. Proofs

All are for every value of the constants under the named assumptions of the
specifications, which the runs evaluate on their instances.

| module | theorem | statement | argument |
|---|---|---|---|
| `CpuProofs` | `TypeCorrect`, `EnableProtocolHolds` | `[]TypeOK`, `[]EnableProtocol` | `DelayInv` ties `eiDelay` and IME to the history `armed`: a pending delay means the EI is so many steps old. `EnableProtocol` alone says nothing about the delay and is not inductive. |
| | `RefinesController`, `OneThreadIsAtomic` | `Spec => ImplementsController`; without other threads the refinement has no exception | The invariant says that a local copy of IF whose owner is not in `stale` is IF plus the bit being raised (or minus the one being served). Each action maps to one step of `IrqController`, a stutter or a `StaleWrite`. |
| | `DecimalAddition`, `DecimalSubtraction`, `WideAddition` | ADC, SBC and DAA on all decimal operands and carries; ADD HL against ADD and ADC | Split on half carry and carry; each case is linear arithmetic. |
| | `RoutinesAlwaysCompute` | `ProgramSpec => []RoutinesCompute` | `ProgramInv`. For each address of the program one predicate says what registers, flags, stack and memory hold there in terms of the registers at the start (`Running`: `CallInv` and one predicate per routine; `MulInv`, `DivInv` and `ReverseInv` hold the invariants of the loops, such as `HL + B * DE` being the product sought). While the handler runs (`Handling`), there is an interrupted address whose predicate holds of what the handler has saved on the stack (`Saved`). Each routine keeps in memory only what is out of the handler's reach (`InterruptKeeps`). The property speaks of the end alone and is not inductive. |
| `PpuProofs` | `TypeCorrect`, `LinesAreComplete`, `LycFlagIsCurrent` | `[]TypeOK`, `[]LineInv`, `[]LycFlagCurrent` | `LineInv` says for each mode where line, dot and buffer index are and is inductive with `TypeOK`. Assumed: OAM scan and longest transfer end before the line does (`PpuAssumption`), and the pipeline keeps to `MaxTransfer` (`InTime`, a guard of `TransferDot`; see `PipelineKeepsPromise`). |
| | `WindowRowsFollow` | `[]WindowRowFollowsLines` | The row is a function of LY, WY and what was seen at the last write (`Counted`). Each line that begins moves it on by one exactly when it moves the count of lines on (`CountKept`); the line after which the last write came is never past the next (`SinceInv`). |
| | `FifosAlwaysInStep` | `[]FifosInStep` | `QueuesInv`: both fifos end where the loop of mode 4 and the sprites have arrived, and what the loop has left over is less than a tile and only there while a sprite is fetched. `Pushed` says once what a run of that loop leaves, whatever it was given. |
| | `LinesInTime` | `[]LineInTime` | `TimeInv`: there are a number of tiles and, among them, of tiles lost to the window, that account for all dots taken; each lost tile but the first cost two writes since the one before (`Turns`). |
| | `PipelineKeepsPromise` | `PipelineSpec => KeepsPromise` | Each step of `PixelPipeline` before the line is complete maps to a step of `PpuModes`. `DotTaken` is what a dot does to the column and the queue; `InTime` comes from `TimeInv` (`TimeLeft`): while columns are missing, enough dots of `LongestLine` are left for them. |
| | `ColumnsAlwaysFollow` | `[]ColumnsFollowRegisters` | `ColumnInv` and `WindowInv` say it of the whole line: shown, waiting and left over (`Line`). The properties look at shown pixels only, which come from the other two. |
| | `SpritesAlwaysNear` | `[]SpritesNearColumn` | `PlaceInv`: the loop has passed columns of the next sprite only with objects disabled (`Unmet`), stands at one of its columns while it is fetched, and so few pixels are waiting then that at most one is left when it is read. `NearInv` follows for the pixels waiting, and they become the ones shown. |
| | `FirstSpritesShown` | `[]FirstSpriteShown` | `CoverInv`: each column of a drawn sprite but its last shows that sprite or one drawn before, if its left end was not passed with objects disabled. At the end of the line, by `Unmet`, a sprite that is not drawn is behind one whose columns were all passed so. They are drawn in the order of the list, which is sorted and has the first objects of OAM (`SpriteListIsSorted`); that the sorting exists is `CanSort`, the search's recursion `FoundIsScanned`. |
| `DevicesProofs` | `TypeCorrect`, `TimerKeepsTime` | `[]TypeOK`, `Spec => KeepsTime` | `currentCycles` is below a running period, so a step below every period (`StepAssumption`) completes at most one; then `\div` gives 0 or 1 and `%` is one subtraction. |
| | `DevicesKeepTime` | `SysSpec => KeepsTime` | Every step of the composition is a step of `Timer` or a stutter of it, so `TimerKeepsTime` carries over. |
| | `TransfersAreOnTime` | `[]SentOnTime` | `PortInv`: of a transfer with the internal clock, the count is the time since SC was written, and a Send that waits has taken one period. The property alone does not know the count. |
| | `PagesAreCopied` | `[]DmaCopies` | `DmaInv` adds that what is still to be copied is as it was when the DMA began, but for the bytes the game has written. |
| | `ClocksAgree` | `[]OneClock` | `ClockInv`: DIV and the part of its period that has passed, taken from where they stood when SC was written, are the time since then, modulo one turn of DIV. A `Sync` adds the same to both, and the turns cancel (`TurnDistance`, `DistanceKept`). |
| `LinkProofs` | `LinkIsPaired` | `[]Paired` | `HandshakeInv`: what the queues may hold at each point of the two handshakes. `NodeInv`: the address of a joined node is the one of the peer's ex socket, and whatever is on its way to `Send` comes from there. `Paired` says nothing of datagrams under way and is not inductive: every answer `Send` receives sets the address. |
| | `TransfersMatch` | `[]ExchangesMatch` | `ExchangeInv`: a transfer of a side is in exactly one place, its request under way, being answered by the peer's ex thread, or its answer under way; `CountInv` counts the interrupts of the peer by that place. |
| `CardsProofs` | `TypeCorrect`, `HighBankIsNotX0` | `[]TypeOK`, `[]HighBankNotX0` | The low register masked by the size is nonzero if the cartridge has at least `Step` banks; the high part is a multiple of `Step` and so is the size. |
| | `RomIsTheFile`, `GameSeesCheats` | `[]RomIsFileAndCheats`, `[]CheatsAreSeen` | `CheatInv`: there is a stack of layers over the file, one for each inserted cheat, each differing from the one below in the cells its cheat replaces, and the bytes a cheat keeps are the ones of the layer below (`IsStack`). A removal takes its layer out and puts its change to the layers above through, which is a stack again if no later cheat is at its address. |
| | `OtherRomsKeepTheFile` | `[]OthersKeepFile` | The same for the loops of the MBC3 and of the ROM only, one bank at a time (`OtherInv`). `CardsPlayMbc1`: a cartridge without an MBC1 leaves that one's state alone, so the theorems about it hold of `Cards`. |
| `SoundProofs` | `NoiseLives` | `[]NoiseNeverDies` | `LfsrLives`: the LFSR is not zero, and in the short mode its short part is not, unless `doomed`. The bit shifted in is zero only if the two lowest are equal, so that a single bit is never shifted out into nothing (`WideShiftLives`, `ShortShiftLives`). |
| | `NotesLastTheirLength` | `[]NoteLength` | `Typed`: the sequencer's position and remainder are functions of the note's age. `LengthInv`: while nobody changes what the note began with, the counter is its length less the steps entered so far (`Entered`), or the note has ended at the age its length gives. |
| | `VolumesFollowTime` | `[]VolumeFollowsTime` | `VolumeInv`: there is a number of steps of the envelope which, times its period, plus its counter are the steps of the sequencer it was clocked at, and the volume is that far along the ramp (`Ramp`). |
| | `NotesKeepTheirPitch` | `[]OnPitch` | `ToneInv`: the age of the note is a whole number of periods and the T-states counted since, and the position in the wave has moved by that number. |
| | `PitchesSlide` | `[]PitchSlides` | `SlideInv`: there is a sequence of frequencies, each the sweep of the one before (`IsSlide`), at whose end the note is. The property's recursion satisfies the same equation, and two such sequences agree, for there is no least index where they differ (`SlideUnique`). |
| `LifecycleProofs` | `StepsAlone`, `ThreadsArePaired` | `[]OneStepper`, `[]NeverTerminates` | `debugging` is false from the start of the thread until after its join (`ThreadInv`), and step and continue run only while it is true (`CommandInv`). |
| | `TraceIsOnStack` | `[]TraceIsStack` | `StackInv`: with nothing traced the trace is empty, so that the first call after tracing is switched on is already in order. For each way an instruction changes stack and trace, the positions of the trace in the stack are extended, cut or kept. |
| `SessionProofs` | `WindowIsCurrent` | `[]LastFrameShown` | The mutex is held by the thread that copies (`HolderInv`), so the buffer is one frame except while it is copied to, and stays the same while it is drawn (`BufferInv`). |
| | `OwnSavesAreLoaded` | `[]OwnSavesLoad` | A file is cut from its truncation to the end of its write; a complete one has the title, the size and, unless a step came between, the RAM of the cartridge when the save was typed. The answer of the last load is withdrawn before the file changes. |
| | `MachineIsWhole` | `[]WholeMachine` | `GameInv`: between two steps the dumped parts are of one instant, within a step of the old one or the new one by what the step has reached. `DumpInv`, `FileInv` and `LoadInv` carry the instant through the buffer and the file, for as long as no step came between. For every order of the parts in which the cartridge is dumped last and a part that is dumped is advanced first (`SavesAssumption`). |

The type invariants are proved, as a part of the strengthenings, and not checked by runs
of their own.

What is assumed of the constants, beyond their types: PPU, timer, DMA and saves as named in
the table; of `Lifecycle`, that the game stays in its code (`LifecycleAssumption`); of
the program `Cpu` runs, that it is the one of `MCCpu`, with its handler, entered with what
the routines are meant for (`RoutineAssumption`: digits go to the buffer, divisors are 1 to
128, decimal numbers have decimal digits, everything else is any byte, and the handler's
counter does not wrap); of `Mbc1`, that the number of banks is one a header can state (it divides `Step`, or is
two or four times `Step`); of the cheats, that they are addresses and bytes
(`CardsAssumption`); of `SoundChannel`, that the range of frequencies is a whole number of
what the low register holds, and that the bound `Horizon` on the age of a note lies
behind the end of every length and envelope (`HorizonAssumption`). That the powers of two
the sweep divides by are positive integers is written as an assumption because the provers
know no exponentiation; it is a fact.

Only model-checked: the liveness properties (fairness and ENABLED are out of the prover's
reach), among them that the routines return. Every safety property of the passing runs
is stated by a theorem. What a recursion yields is not proved by the
induction theorems of the library, which take an operator and which no prover here can
instantiate, but from the fact that a nonempty set of naturals has a least element
(`LeastNumber`), which takes a set.

## 5. What the checks found

Violated on purpose, because something written in the repository says otherwise:

- `irq_race`, `TimerRequestKept`: `Joypad::RequestInterrupt` runs on the display thread and
  stores an old copy of IF over a timer request made meanwhile. `Timer.h` says an interrupt
  is requested; the request is lost. The same holds between any two threads.
- `mbc1_ram`, `RamBankIsHi`: the RAM bank is the ROM bank register, not `banknum_hi`.

Exceptions that properties name, because the code does not do better:

- `ImplementsController`: the `StaleWrite` steps, the ones of `irq_race`.
- `SpritesNearColumn`: `push_sprite_pixels` starts at the front of the waiting fifo. If an
  object is met after seven pixels were pushed in a dot, one of them is still waiting
  when the fetch ends and the object is drawn one column to the left. An object that is
  first met after objects were switched on in mid-line is drawn late, by as many columns as
  were passed at its left end (`dark`).
- `FirstSpriteShown`: entry 0 of OAM comes last at equal places (its index is 254). An
  object all of whose columns were passed with objects disabled is never met, and blocks
  all others behind it; so does one at x = -8, which has no column on the screen.
- `LycFlagCurrent`: a write of LYC is not compared until the next line.
- `WindowRowFollowsLines`: line 0 is never counted, because the row is reset to 255 after
  the WY test of that line. With WY = 0 it is drawn with row 255 and every line LY with
  row LY - 1; a write of WY, WX or LCDC in mid-frame starts the count from the row it finds.
- `DmaCopies`: a DMA of the OAM page itself reads 0xFF in modes 2 and 3; OAM and the source
  may be written while it runs.
- `RomIsFileAndCheats`: cheats at one address removed in another order than they were
  inserted put each other's bytes back (`disorder`). A cheat in the low area of a 32- or
  64-bank cartridge also writes the bank behind the ROM (`<= m_numbanks`); the model has
  that bank, and the removal restores it.
- `OthersKeepFile`: a cheat of the high area of an MBC3 is inserted in bank 1 only, and
  its removal writes its value to the banks above if that value matches its compare value
  or it has none (`spoilt`). A bank number of twice the size or more reads behind the ROM.
- `DisconnectReturns`: after `m_stop` is set, `Send` of the emulation thread closes as well.
  If it and the command line are in the join of the ex thread at once, which no lock
  prevents, one gets a `std::system_error` and the emulator ends (`Thrown`).
- `PeerReleased`: if the closing side's ex thread is between its receive and its test when
  `m_stop` is set, it ends without telling the peer, whose `Send` waits for ever. A transfer
  begun during the handshake goes to an address not set, Poco throws and the emulator
  ends (`down`).
- `NoiseNeverDies`: no trigger reloads the LFSR, and a switch to the short mode while the
  short part is zero silences the noise until it is switched back. `OnPitch`: a noise
  period cut to 0 by the width of a word counts as 1. `PitchSlides`: a sweep that has once
  been on is never switched off; a period of 0 then counts as 1.
- `OneStepper`: next and stepout do not ask `IsDebugging`; typed while detached, two
  threads step the CPU. In the model the game is then at address 0, "anywhere".
- `CloseIsSeen`: when `Sync` finds the window closed it leaves its counter at 500, and the
  test is `==`. After a command has cleared `m_stopped`, only `ShowFrame` looks at the window
  again, which an LCD that is off never calls (`Blind`). stepout does not test
  `m_stopped` at all, and ends early at the same return address of a deeper recursion.
- `TraceIsStack`: what the game does while detached, or to the stack by itself, leaves stale
  entries (`stale`).
- `WholeMachine`: parts of several instants remain after a savestate was saved or loaded
  while a step was in progress, after one of another cartridge type (the load throws at
  its end), on an MBC3 (which saves nothing in it) and after a game save was loaded.
  Savestates need the boot ROM: the memory dumps and loads 255 bytes through `m_bootrom`,
  which is null unless the emulator was started with `--enable-bootrom`, so that by default
  each savestate command ends the process in the memory part, the old file of a save being
  already empty and the CPU and most of the memory replaced by a load. A
  savestate saved before the first line was drawn ends it in the PPU part, through the
  null pointer of the pipeline.
- `OwnSavesLoad`: the title of some cartridges has 11 characters of which `checkHeader`
  compares 16; what follows was never written, and the own save may be refused. A save of
  a revision with the same title and another size of RAM is refused by its size. A process
  that ends between the truncation and the end of the write leaves no save, and one saved
  while the detached game runs may have RAM of two instants (`torn`).

## 6. Not modelled

- cycle counts and the order of Sync calls within one instruction, opcode decoding, the
  missing opcodes;
- colours, palettes, tile data addresses; duty patterns, wave RAM, mixer and sample buffer
  (data), the unlocked copy of the buffer in `SdlOutput.cpp` (a race on data alone);
- Game Shark codes: the map they are in is changed and iterated over by two threads without
  a lock, which has no outcome to model;
- the RAM of the MBC3 and its clock (`RealTimeClock.cpp`: whether it runs is read from a register
  that only its own write could set, and that write returns first);
- the bytes within a part of a savestate;
- lost datagrams (nothing is sent again, no progress could be stated), a second
  connection after a disconnect;
- address decoding of the memory bus, the boot ROM, the button matrix;
- the breakpoint list, watchpoints, printing commands;
- the link composed with the debugger (Attach joining a thread blocked in Send), whose
  product TLC cannot explore; a savestate loaded while the debugger keeps a stack trace;
- SDL, files, logging: input and output only; disassembler and header tables: constants.

## 7. Plan

Done: interrupts with all threads; lines and modes; objects and pixels; timer, DMA and
serial port as parts of Sync; serial link; three cartridges; instructions; debugger and
threads; sound channels; savestates, game saves and the frame hand-off; the safety
properties of all of them proved.

Next:

1. A line given up when the LCD is switched off, with the pixels still queued.
2. Game Shark writes and the RAM banks of the MBC3 with its clock.
3. Decoding and the order of the Sync calls within an instruction.
