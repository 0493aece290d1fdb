--------------------------------- MODULE Saves ---------------------------------
(***************************************************************************)
(* Savestates and game saves, typed at the command line while the emulator  *)
(* is attached (the command line runs the game) or detached (a thread of    *)
(* its own does, and neither waits for the other), and the files they leave *)
(* for the next process.                                                    *)
(*                                                                          *)
(* The content of a part of the machine is the instant of the game it is    *)
(* of.  A step of the game takes all parts from one instant to a new one,   *)
(* one after another; a part found at another instant than the first one of *)
(* the step gets a content that belongs to none (Mixed).                    *)
(***************************************************************************)
EXTENDS Integers, Sequences

CONSTANTS Roms,          \* [title, short, chip, size]: ROM files the user has;
                         \* short: the title has 11 characters; size: KB of RAM
          Dumped,        \* parts in the order of SaveState
          Advanced,      \* all parts in the order in which a step changes them
          MaxInstants,   \* bound: steps and processes
          MaxCommands    \* bound: commands typed

ASSUME SavesAssumption ==
  /\ Roms \subseteq [title : STRING, short : BOOLEAN, chip : {"MBC1", "MBC3", "ROM"},
                     size : Nat]
  /\ \A r, s \in Roms : r.title = s.title => r.short = s.short /\ (r.chip = "MBC3" <=> s.chip = "MBC3")
  /\ \A p \in {"memory", "ppu", "card"} : \E i \in DOMAIN Dumped : Dumped[i] = p
  /\ Dumped \in Seq(STRING) /\ Advanced \in Seq(STRING) /\ Len(Advanced) > 1
  /\ \A i \in DOMAIN Dumped : Dumped[i] = "card" <=> i = Len(Dumped)
  /\ \A i \in DOMAIN Dumped : \E j \in DOMAIN Advanced : Advanced[j] = Dumped[i]
  /\ \A i, j \in DOMAIN Advanced : Advanced[i] = Advanced[j] => i = j
  /\ \E i \in DOMAIN Dumped : Dumped[i] = Advanced[1]
  /\ MaxInstants \in Nat /\ MaxCommands \in Nat

Mixed == -1

(* a savestate and a game save that do not exist, or are empty              *)
NoFile == [title |-> "", written |-> FALSE]
NoSave == [title |-> "", size |-> 0, written |-> "nothing", ram |-> Mixed, torn |-> FALSE]

VARIABLES
  rom,                   \* the cartridge
  bootRom,               \* m_bootrom is set: started with --enable-bootrom
  spare,                 \* the bytes behind the characters of m_title are zero
  part,                  \* contents of the parts of the machine
  pointer,               \* m_sprites of the pipeline is set
  running,               \* detached: the emulation thread runs the game
  advanced,              \* parts the step in progress has changed
  base,                  \* the instant it started from
  cli, done,             \* the command being executed; parts it has dealt with
  buffer,                \* megabuffer
  stateFile, gameFile,   \* a savestate and a game save
  answer,                \* what the last game load said
  now,                   \* history: the latest instant
  origin,                \* history: who typed the last game save and the RAM then
  given,                 \* history: what the last game load gave to the card
  overlapped,            \* history: a step was in progress during the command
  mangled,               \* history: why the parts may be of different instants
  cut,                   \* history: the last game save was cut off
  commands

game == <<part, pointer, advanced, base, now, overlapped>>
files == <<stateFile, gameFile, origin, cut>>
process == <<rom, bootRom, spare, running>>

Fresh(n) == [p \in {Advanced[i] : i \in DOMAIN Advanced} |-> n]

Start(r, n) ==
  /\ rom' = r /\ spare' \in (IF r.short THEN BOOLEAN ELSE {TRUE}) /\ bootRom' \in BOOLEAN
  /\ part' = Fresh(n) /\ now' = n
  /\ pointer' = FALSE /\ running' = FALSE /\ advanced' = 0 /\ base' = n
  /\ cli' = "idle" /\ done' = 0 /\ buffer' = <<>> /\ answer' = "none" /\ given' = Mixed
  /\ overlapped' = FALSE /\ mangled' = FALSE

Init ==
  /\ rom \in Roms /\ spare \in (IF rom.short THEN BOOLEAN ELSE {TRUE}) /\ bootRom \in BOOLEAN
  /\ part = Fresh(0) /\ now = 0
  /\ pointer = FALSE /\ running = FALSE /\ advanced = 0 /\ base = 0
  /\ cli = "idle" /\ done = 0 /\ buffer = <<>> /\ answer = "none" /\ given = Mixed
  /\ overlapped = FALSE /\ mangled = FALSE
  /\ stateFile = NoFile /\ gameFile = NoSave /\ cut = TRUE
  /\ origin = [title |-> "", size |-> 0, ram |-> Mixed]
  /\ commands = 0

Typed == cli = "idle" /\ commands < MaxCommands /\ commands' = commands + 1

-----------------------------------------------------------------------------
(* The game, run by the emulation thread or by the command line             *)

BeginStep ==
  /\ advanced = 0 /\ now < MaxInstants
  /\ running \/ cli = "step"
  /\ now' = now + 1 /\ base' = part[Advanced[1]]
  /\ part' = [part EXCEPT ![Advanced[1]] = now + 1]
  /\ advanced' = 1
  /\ overlapped' = (overlapped \/ cli # "idle")
  /\ UNCHANGED <<process, pointer, cli, done, buffer, files, answer, given, mangled, commands>>

AdvancePart ==
  /\ advanced # 0
  /\ LET p == Advanced[advanced + 1]
     IN /\ part' = [part EXCEPT ![p] = IF @ = base THEN now ELSE Mixed]
        /\ \E line \in BOOLEAN : pointer' = (pointer \/ (p = "ppu" /\ line))
        /\ IF advanced + 1 < Len(Advanced) THEN advanced' = advanced + 1 /\ UNCHANGED cli
           ELSE advanced' = 0 /\ cli' = IF cli = "step" THEN "idle" ELSE cli
  /\ overlapped' = (overlapped \/ cli # "idle")
  /\ UNCHANGED <<process, base, now, done, buffer, files, answer, given, mangled, commands>>

Step ==
  /\ Typed /\ ~running
  /\ cli' = "step"
  /\ UNCHANGED <<process, game, done, buffer, files, answer, given, mangled>>

Detach ==
  /\ Typed /\ ~running
  /\ running' = TRUE
  /\ UNCHANGED <<rom, bootRom, spare, game, cli, done, buffer, files, answer, given, mangled>>

(* the thread is joined at the end of its step                              *)
Attach ==
  /\ Typed /\ running /\ advanced = 0
  /\ running' = FALSE
  /\ UNCHANGED <<rom, bootRom, spare, game, cli, done, buffer, files, answer, given, mangled>>

-----------------------------------------------------------------------------
(* SaveState and LoadState                                                  *)

BeginCommand(c) ==
  /\ Typed
  /\ cli' = c /\ done' = 0
  /\ overlapped' = (advanced # 0)
  /\ answer' = "none"
  /\ UNCHANGED <<process, part, pointer, advanced, base, now, given, mangled>>

SaveState ==
  /\ BeginCommand("dump")
  /\ stateFile' = NoFile /\ buffer' = <<>>
  /\ UNCHANGED <<gameFile, origin, cut>>

(* The memory dumps 255 bytes of the boot ROM, through a pointer that is    *)
(* null unless the user asked for one, and the pipeline its sprites,        *)
(* through one that is null until the first line is drawn: the process ends *)
(* there (Exit), the file is empty.                                         *)
DumpPart ==
  /\ cli = "dump"
  /\ LET p == Dumped[done + 1]
         b == Append(buffer, <<p, part[p]>>)
     IN /\ p = "memory" => bootRom
        /\ p = "ppu" => pointer
        /\ IF p = "card"
           THEN /\ cli' = "idle" /\ done' = 0 /\ buffer' = <<>>
                /\ stateFile' = [title |-> rom.title, written |-> TRUE, chip |-> rom.chip,
                                 size |-> rom.size, content |-> b, torn |-> overlapped \/ mangled]
           ELSE /\ done' = done + 1 /\ buffer' = b
                /\ UNCHANGED <<cli, stateFile>>
  /\ UNCHANGED <<process, game, gameFile, origin, cut, answer, given, mangled, commands>>

LoadState ==
  /\ stateFile.written /\ stateFile.title = rom.title
  /\ BeginCommand("load")
  /\ buffer' = stateFile.content
  /\ UNCHANGED files

(* Parts are found by their place in the buffer: what another part dumped   *)
(* there is of no use.                                                      *)
Found(p) == IF buffer[done + 1][1] = p THEN buffer[done + 1][2] ELSE Mixed

(* An MBC1 reads as much RAM as it has itself.                              *)
CardFits ==
  stateFile.chip = rom.chip /\ (rom.chip = "MBC1" => stateFile.size = rom.size)

Mut_LoadPart ==          \* the serial port and the APU in the other order
  /\ cli = "load"
  /\ LET p == CASE Dumped[done + 1] = "serial" -> "apu"
                [] Dumped[done + 1] = "apu" -> "serial"
                [] OTHER -> Dumped[done + 1]
     IN /\ p = "memory" => bootRom
        /\ pointer' = (pointer \/ p = "ppu")
        /\ IF p # "card"
           THEN /\ part' = [part EXCEPT ![p] = Found(p)] /\ done' = done + 1
                /\ UNCHANGED <<cli, buffer, mangled>>
           ELSE /\ part' = IF stateFile.chip = rom.chip /\ rom.chip # "MBC3"
                           THEN [part EXCEPT ![p] = IF CardFits THEN Found(p) ELSE Mixed]
                           ELSE part
                /\ mangled' = \/ overlapped \/ stateFile.torn
                              \/ ~CardFits \/ rom.chip = "MBC3"
                /\ cli' = "idle" /\ done' = 0 /\ buffer' = <<>>
  /\ UNCHANGED <<process, advanced, base, now, overlapped, files, answer, given, commands>>

(* The memory writes the boot ROM back, through the same pointer.  The      *)
(* cartridge comes last: MBC3 loads nothing, the others throw if the type   *)
(* byte is not theirs; the exception ends the command, no more.             *)
LoadPart ==
  /\ cli = "load"
  /\ LET p == Dumped[done + 1]
     IN /\ p = "memory" => bootRom
        /\ pointer' = (pointer \/ p = "ppu")
        /\ IF p # "card"
           THEN /\ part' = [part EXCEPT ![p] = Found(p)] /\ done' = done + 1
                /\ UNCHANGED <<cli, buffer, mangled>>
           ELSE /\ part' = IF stateFile.chip = rom.chip /\ rom.chip # "MBC3"
                           THEN [part EXCEPT ![p] = IF CardFits THEN Found(p) ELSE Mixed]
                           ELSE part
                /\ mangled' = \/ overlapped \/ stateFile.torn
                              \/ ~CardFits \/ rom.chip = "MBC3"
                /\ cli' = "idle" /\ done' = 0 /\ buffer' = <<>>
  /\ UNCHANGED <<process, advanced, base, now, overlapped, files, answer, given, commands>>

-----------------------------------------------------------------------------
(* SaveGame and LoadGame                                                    *)

SupportsSaves == rom.chip # "ROM" /\ rom.size # 0

SaveGame ==
  /\ SupportsSaves
  /\ BeginCommand("save")
  /\ gameFile' = NoSave /\ cut' = TRUE
  /\ origin' = [title |-> rom.title, size |-> rom.size, ram |-> part["card"]]
  /\ UNCHANGED <<stateFile, buffer>>

(* The header and the first bytes of the RAM, and then the others.  Nothing *)
(* keeps the game from running meanwhile, or the process from ending.       *)
WriteHeader ==
  /\ cli = "save" /\ gameFile.written = "nothing"
  /\ gameFile' = [title |-> rom.title, size |-> rom.size, written |-> "header",
                  ram |-> part["card"], torn |-> FALSE]
  /\ UNCHANGED <<process, game, cli, done, buffer, stateFile, origin, cut, answer, given,
                 mangled, commands>>

WriteGame ==
  /\ cli = "save" /\ gameFile.written = "header"
  /\ gameFile' = [title |-> rom.title, size |-> rom.size, written |-> "all",
                  ram |-> IF gameFile.ram = part["card"] THEN part["card"] ELSE Mixed,
                  torn |-> overlapped]
  /\ cut' = FALSE /\ cli' = "idle"
  /\ UNCHANGED <<process, game, done, buffer, stateFile, origin, answer, given, mangled, commands>>

Mut_HeaderOk ==          \* the RAM of another revision of the game is accepted
  gameFile.written # "nothing" /\ gameFile.title = rom.title /\ (rom.short => spare)

(* checkHeader compares 16 characters from the start of a title of 15 or 11 *)
(* and so, for a short one, four bytes nobody wrote.                        *)
HeaderOk ==
  /\ gameFile.written # "nothing"
  /\ gameFile.title = rom.title /\ (rom.short => spare)
  /\ gameFile.size = rom.size

(* "Could not read enough bytes" otherwise                                  *)
EnoughBytes == gameFile.written = "all" /\ rom.size <= gameFile.size

(* The copy to the card is not atomic for a game that runs.                 *)
LoadGame ==
  /\ Typed /\ SupportsSaves
  /\ IF HeaderOk /\ EnoughBytes
     THEN /\ answer' = "loaded" /\ given' = gameFile.ram /\ mangled' = TRUE
          /\ \E c \in {gameFile.ram} \cup (IF running THEN {Mixed} ELSE {}) :
               part' = [part EXCEPT !["card"] = c]
     ELSE answer' = "refused" /\ UNCHANGED <<part, given, mangled>>
  /\ UNCHANGED <<process, pointer, advanced, base, now, overlapped, cli, done, buffer, files>>

-----------------------------------------------------------------------------
(* The process ends, orderly or not, and the user starts another one.       *)
Exit ==
  /\ now < MaxInstants /\ commands < MaxCommands
  /\ \E r \in Roms : Start(r, now + 1)
  /\ UNCHANGED <<files, commands>>

CommandLine ==
  \/ Step \/ Detach \/ Attach
  \/ SaveState \/ DumpPart \/ LoadState \/ LoadPart
  \/ SaveGame \/ WriteHeader \/ WriteGame \/ LoadGame

-----------------------------------------------------------------------------
(* Whenever no step and no command is in progress, the parts that are       *)
(* dumped are of one instant of the game, unless a savestate was loaded     *)
(* while a step was in progress, or had been saved so (or of such a         *)
(* machine), or was of a cartridge of another type or size, or has no       *)
(* cartridge in it (MBC3), or a game save was loaded.                       *)
WholeMachine ==
  advanced = 0 /\ cli = "idle" /\ ~mangled =>
    \A i, j \in DOMAIN Dumped : part[Dumped[i]] = part[Dumped[j]] /\ part[Dumped[i]] # Mixed

(* A game save that was written to its end is refused to the game that      *)
(* saved it, or to one of the same title and RAM size, only if the title is *)
(* the short one.  What is loaded was written to its end by such a game and *)
(* is the RAM the cartridge had when the save was typed, unless the game    *)
(* ran in the meantime.                                                     *)
OwnSavesLoad ==
  LET own == ~cut /\ origin.title = rom.title /\ origin.size = rom.size
  IN /\ answer = "refused" /\ own => rom.short
     /\ answer = "loaded" => own /\ (given = origin.ram \/ gameFile.torn)
=============================================================================
