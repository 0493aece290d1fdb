----------------------------- MODULE SessionProofs -----------------------------
(***************************************************************************)
(* The hand-off of frames in a session: whatever is saved, loaded or        *)
(* restarted, and whatever the order of the two threads, the window ends up *)
(* with the latest frame and never shows halves of two.  The game saves:    *)
(* which files are loaded and which are refused, whenever processes end.    *)
(* Savestates: which of them leave a machine of one instant.                *)
(***************************************************************************)
EXTENDS Session, TLAPS

HandTyped ==
  /\ frame \in Nat /\ pixels \in Nat \X Nat /\ window \in Nat \X Nat
  /\ present \in BOOLEAN
  /\ emu \in {"game", "lock", "bottom", "announce"}
  /\ display \in {"poll", "lock", "bottom"}

(* The mutex is held by the thread that copies, and by no other.            *)
HolderInv ==
  /\ holder = "emu" <=> emu = "bottom"
  /\ holder = "display" <=> display = "bottom"

(* The buffer holds one frame except while it is copied to, the latest one  *)
(* after that, and the same one as long as the display thread draws.        *)
BufferInv ==
  /\ emu # "bottom" => pixels[1] = pixels[2]
  /\ emu # "lock" => pixels[1] = frame
  /\ display = "bottom" => window[1] = pixels[1]

HandInv == HandTyped /\ HolderInv /\ BufferInv /\ Hand!LastFrameShown

LEMMA HandFirst == Hand!Init => HandInv
<1> SUFFICES ASSUME Hand!Init PROVE HandInv
  OBVIOUS
<1>1. present \in BOOLEAN
  BY Zenon DEF Hand!Init
<1>2. /\ frame = 0 /\ pixels = <<0, 0>> /\ window = <<0, 0>>
      /\ holder = "nobody" /\ emu = "game" /\ display = "poll"
  BY DEF Hand!Init
<1> QED BY <1>1, <1>2 DEF HandInv, HandTyped, HolderInv, BufferInv, Hand!LastFrameShown

LEMMA HandGame ==
  ASSUME HandInv, Hand!ShowFrame \/ Hand!InShowFrame
  PROVE  HandInv'
<1> USE DEF HandInv, HandTyped, HolderInv, BufferInv, Hand!LastFrameShown
<1>1. CASE Hand!ShowFrame
  BY <1>1 DEF Hand!ShowFrame
<1>2. CASE Hand!SetTop
  BY <1>2 DEF Hand!SetTop
<1>3. CASE Hand!SetBottom
  BY <1>3 DEF Hand!SetBottom
<1>4. CASE Hand!FramePresent
  BY <1>4 DEF Hand!FramePresent
<1> QED BY <1>1, <1>2, <1>3, <1>4 DEF Hand!InShowFrame

LEMMA HandDisplay ==
  ASSUME HandInv, Hand!DisplayThread
  PROVE  HandInv'
<1> USE DEF HandInv, HandTyped, HolderInv, BufferInv, Hand!LastFrameShown
<1>1. CASE Hand!Poll
  BY <1>1 DEF Hand!Poll
<1>2. CASE Hand!DrawTop
  BY <1>2 DEF Hand!DrawTop
<1>3. CASE Hand!DrawBottom
  <2>1. present' \in BOOLEAN /\ ~present'
    BY <1>3, Zenon DEF Hand!DrawBottom
  <2>2. /\ frame' = frame /\ pixels' = pixels /\ emu' = emu
        /\ holder' = "nobody" /\ display' = "poll" /\ holder = "display" /\ emu # "bottom"
    BY <1>3 DEF Hand!DrawBottom
  <2>3. window' = <<pixels[1], pixels[2]>>
    BY <1>3 DEF Hand!DrawBottom
  <2>4. HandTyped' /\ HolderInv' /\ BufferInv'
    BY <2>1, <2>2, <2>3
  <2>5. Hand!LastFrameShown'
    BY <2>1, <2>2, <2>3
  <2> QED BY <2>4, <2>5
<1> QED BY <1>1, <1>2, <1>3 DEF Hand!DisplayThread, Hand!Drawing

LEMMA HandRestart ==
  ASSUME Hand!Restart
  PROVE  HandInv'
BY DEF Hand!Restart, HandInv, HandTyped, HolderInv, BufferInv, Hand!LastFrameShown

LEMMA HandUnchanged ==
  ASSUME HandInv, UNCHANGED handVars
  PROVE  HandInv'
BY DEF handVars, HandInv, HandTyped, HolderInv, BufferInv, Hand!LastFrameShown

(* In every session, with any cartridges, commands and ends of processes,   *)
(* the window shows the latest frame as soon as nothing is announced and no *)
(* thread is in the hand-off.                                               *)
THEOREM WindowIsCurrent == SessionSpec => []LastFrameShown
<1>1. SessionInit => HandInv
  BY HandFirst DEF SessionInit
<1>2. HandInv /\ [SessionNext]_<<savesVars, handVars>> => HandInv'
  <2> SUFFICES ASSUME HandInv, [SessionNext]_<<savesVars, handVars>> PROVE HandInv'
    OBVIOUS
  <2>1. CASE GameThread
    BY <2>1, HandGame, HandUnchanged DEF GameThread
  <2>2. CASE CommandLine /\ UNCHANGED handVars
    BY <2>2, HandUnchanged
  <2>3. CASE UNCHANGED savesVars /\ Hand!DisplayThread
    BY <2>3, HandDisplay
  <2>4. CASE Exit /\ Hand!Restart
    BY <2>4, HandRestart
  <2>5. CASE UNCHANGED <<savesVars, handVars>>
    BY <2>5, HandUnchanged
  <2> QED BY <2>1, <2>2, <2>3, <2>4, <2>5 DEF SessionNext
<1>3. HandInv => LastFrameShown
  BY DEF HandInv, LastFrameShown
<1> QED BY <1>1, <1>2, <1>3, PTL DEF SessionSpec

-----------------------------------------------------------------------------
(* A save is the latest one's that was typed; what it holds and whom it is  *)
(* of is known once it is complete, and so is the answer of the last load.  *)
SavingInv ==
  cli = "save" =>
    /\ cut /\ answer = "none"
    /\ origin.title = rom.title /\ origin.size = rom.size
    /\ ~overlapped => /\ advanced = 0 /\ part["card"] = origin.ram
                      /\ gameFile.written = "header" => gameFile.ram = origin.ram

CompleteInv ==
  /\ cut => gameFile.written # "all"
  /\ ~cut => /\ gameFile.written = "all"
             /\ gameFile.title = origin.title /\ gameFile.size = origin.size
             /\ gameFile.ram = origin.ram \/ gameFile.torn

OwnInv == rom \in Roms /\ SavingInv /\ CompleteInv /\ OwnSavesLoad

LEMMA OwnUnchanged ==
  ASSUME OwnInv, UNCHANGED <<gameFile, cut, origin, answer, given, rom>>,
         \/ cli' # "save"
         \/ UNCHANGED <<cli, overlapped, part, advanced>>
         \/ cli' = cli /\ overlapped'
  PROVE  OwnInv'
BY DEF OwnInv, SavingInv, CompleteInv, OwnSavesLoad

LEMMA OwnGame ==
  ASSUME OwnInv, BeginStep \/ AdvancePart
  PROVE  OwnInv'
<1>1. UNCHANGED <<gameFile, cut, origin, answer, given, rom>>
  BY DEF BeginStep, AdvancePart, process, files
<1>2. cli' # "save" \/ (cli' = cli /\ overlapped')
  BY Zenon DEF BeginStep, AdvancePart
<1> QED BY <1>1, <1>2, OwnUnchanged

LEMMA OwnCommands ==
  ASSUME OwnInv, CommandLine
  PROVE  OwnInv'
<1>1. CASE Step \/ Detach \/ Attach
  <2>1. UNCHANGED <<gameFile, cut, origin, answer, given, rom>> /\ cli' # "save"
    BY <1>1 DEF Step, Detach, Attach, Typed, process, files
  <2> QED BY <2>1, OwnUnchanged
<1>2. CASE SaveState \/ LoadState
  <2>1. UNCHANGED <<gameFile, cut, origin, rom>> /\ answer' = "none" /\ cli' # "save"
    BY <1>2 DEF SaveState, LoadState, BeginCommand, process, files
  <2> QED BY <2>1 DEF OwnInv, SavingInv, CompleteInv, OwnSavesLoad
<1>3. CASE DumpPart \/ LoadPart
  <2>1. UNCHANGED <<gameFile, cut, origin, answer, given, rom>> /\ cli' # "save"
    BY <1>3 DEF DumpPart, LoadPart, process, files
  <2> QED BY <2>1, OwnUnchanged
<1>4. CASE SaveGame
  <2>1. /\ gameFile' = NoSave /\ answer' = "none" /\ cut' /\ (overlapped' <=> advanced # 0)
        /\ origin' = [title |-> rom.title, size |-> rom.size, ram |-> part["card"]]
        /\ UNCHANGED <<rom, part, advanced>>
    BY <1>4 DEF SaveGame, BeginCommand, process
  <2>2. gameFile'.written = "nothing"
    BY <2>1 DEF NoSave
  <2>3. /\ origin'.title = rom.title /\ origin'.size = rom.size
        /\ origin'.ram = part["card"]
    BY <2>1
  <2> QED BY <2>1, <2>2, <2>3 DEF OwnInv, SavingInv, CompleteInv, OwnSavesLoad
<1>5. CASE WriteHeader
  <2>1. /\ cli = "save" /\ gameFile'.written = "header" /\ gameFile'.ram = part["card"]
        /\ UNCHANGED <<cli, cut, origin, answer, given, rom, overlapped, part, advanced>>
    BY <1>5 DEF WriteHeader, process, game
  <2> QED BY <2>1 DEF OwnInv, SavingInv, CompleteInv, OwnSavesLoad
<1>6. CASE WriteGame
  <2> DEFINE t == overlapped
  <2>1. /\ cli = "save" /\ cli' = "idle" /\ gameFile.written = "header"
        /\ UNCHANGED <<origin, answer, rom>>
    BY <1>6 DEF WriteGame, process
  <2>2. ~cut'
    BY <1>6, Zenon DEF WriteGame
  <2>3. gameFile' = [title |-> rom.title, size |-> rom.size, written |-> "all",
                     ram |-> IF gameFile.ram = part["card"] THEN part["card"] ELSE Mixed,
                     torn |-> t]
    BY <1>6, Zenon DEF WriteGame
  <2>4. gameFile'.torn = t
    <3> HIDE DEF t
    <3> QED BY <2>3
  <2>5. /\ gameFile'.title = rom.title /\ gameFile'.size = rom.size
        /\ gameFile'.written = "all"
        /\ gameFile.ram = part["card"] => gameFile'.ram = part["card"]
    <3> HIDE DEF t
    <3> QED BY <2>3
  <2>6. gameFile'.ram = origin.ram \/ gameFile'.torn
    <3>1. overlapped => gameFile'.torn
      BY <2>4, Zenon
    <3>2. ~overlapped => gameFile'.ram = origin.ram
      BY <2>1, <2>5 DEF OwnInv, SavingInv
    <3> QED BY <3>1, <3>2
  <2> QED BY <2>1, <2>2, <2>5, <2>6 DEF OwnInv, SavingInv, CompleteInv, OwnSavesLoad
<1>7. CASE LoadGame
  <2>1. UNCHANGED <<gameFile, cut, origin, rom, cli>> /\ cli = "idle"
    BY <1>7 DEF LoadGame, Typed, process, files
  <2>2. CASE HeaderOk /\ EnoughBytes
    <3>1. answer' = "loaded" /\ given' = gameFile.ram /\ ~cut
      BY <1>7, <2>2 DEF LoadGame, EnoughBytes, OwnInv, CompleteInv
    <3> QED BY <2>1, <2>2, <3>1 DEF HeaderOk, OwnInv, SavingInv, CompleteInv, OwnSavesLoad
  <2>3. CASE ~(HeaderOk /\ EnoughBytes)
    <3>1. answer' = "refused"
      BY <1>7, <2>3 DEF LoadGame
    <3>2. rom.size <= rom.size
      BY SavesAssumption DEF OwnInv
    <3> QED BY <2>1, <2>3, <3>1, <3>2
            DEF HeaderOk, EnoughBytes, OwnInv, SavingInv, CompleteInv, OwnSavesLoad
  <2> QED BY <2>2, <2>3
<1> QED BY <1>1, <1>2, <1>3, <1>4, <1>5, <1>6, <1>7 DEF CommandLine

LEMMA OwnExit ==
  ASSUME OwnInv, Exit
  PROVE  OwnInv'
<1>1. /\ rom' \in Roms
      /\ UNCHANGED <<gameFile, cut, origin>> /\ answer' = "none" /\ cli' = "idle"
  BY DEF Exit, Start, files
<1> QED BY <1>1 DEF OwnInv, SavingInv, CompleteInv, OwnSavesLoad

(* In every session a game save is loaded only if it was written to its end *)
(* by a game of the same title and RAM size, and gives the card the RAM it  *)
(* had then unless the game ran; it is refused to such a game only if the   *)
(* title is short.                                                          *)
THEOREM OwnSavesAreLoaded == SessionSpec => []OwnSavesLoad
<1>1. SessionInit => OwnInv
  <2> SUFFICES ASSUME SessionInit PROVE OwnInv
    OBVIOUS
  <2>1. rom \in Roms /\ cli = "idle" /\ answer = "none" /\ gameFile = NoSave /\ cut
    BY Zenon DEF SessionInit, Init
  <2>2. gameFile.written = "nothing"
    BY <2>1 DEF NoSave
  <2> QED BY <2>1, <2>2 DEF OwnInv, SavingInv, CompleteInv, OwnSavesLoad
<1>2. OwnInv /\ [SessionNext]_<<savesVars, handVars>> => OwnInv'
  <2> SUFFICES ASSUME OwnInv, [SessionNext]_<<savesVars, handVars>> PROVE OwnInv'
    OBVIOUS
  <2>1. CASE BeginStep \/ AdvancePart
    BY <2>1, OwnGame
  <2>2. CASE CommandLine
    BY <2>2, OwnCommands
  <2>3. CASE Exit
    BY <2>3, OwnExit
  <2>4. CASE UNCHANGED savesVars
    BY <2>4, OwnUnchanged DEF savesVars, process, game, files
  <2> QED BY <2>1, <2>2, <2>3, <2>4 DEF SessionNext, GameThread
<1>3. OwnInv => OwnSavesLoad
  BY DEF OwnInv
<1> QED BY <1>1, <1>2, <1>3, PTL DEF SessionSpec

-----------------------------------------------------------------------------
(* Savestates.  Parts are of one instant between two steps, and of the old  *)
(* or the new one within a step; a buffer is filled and read in the order   *)
(* of the parts, and is of one instant if no step came between.             *)

Parts == {Advanced[j] : j \in DOMAIN Advanced}

Reached == {Advanced[k] : k \in 1..advanced}

Whole(v) == \A i \in DOMAIN Dumped : part[Dumped[i]] = v

Entries(c) == c \in Seq(STRING \X Int) /\ \A i \in DOMAIN c : c[i][1] = Dumped[i]

OneInstant(c) == \E v \in Nat : \A i \in DOMAIN c : c[i][2] = v

SavesTyped ==
  /\ part \in [Parts -> Int] /\ now \in Nat
  /\ advanced \in 0..Len(Advanced) - 1
  /\ gameFile.ram \in Int
  /\ cli \in {"dump", "load"} => done \in 0..Len(Dumped) - 1

GameInv ==
  cli # "load" /\ ~mangled =>
    IF advanced = 0 THEN \E v \in Nat : Whole(v)
    ELSE \A i \in DOMAIN Dumped :
           part[Dumped[i]] = IF Dumped[i] \in Reached THEN now ELSE base

FileInv ==
  stateFile.written =>
    /\ Entries(stateFile.content) /\ Len(stateFile.content) = Len(Dumped)
    /\ ~stateFile.torn => OneInstant(stateFile.content)

DumpInv ==
  cli = "dump" =>
    /\ Entries(buffer) /\ Len(buffer) = done
    /\ ~overlapped => advanced = 0
    /\ ~overlapped /\ ~mangled => \A i \in DOMAIN buffer : buffer[i][2] = part[Dumped[i]]

LoadInv ==
  cli = "load" =>
    /\ stateFile.written /\ buffer = stateFile.content
    /\ ~overlapped => advanced = 0
    /\ ~overlapped /\ ~stateFile.torn => \A i \in 1..done : part[Dumped[i]] = buffer[i][2]

StateInv == SavesTyped /\ GameInv /\ FileInv /\ DumpInv /\ LoadInv

LEMMA DumpedParts ==
  /\ Dumped \in Seq(STRING) /\ Advanced \in Seq(STRING) /\ Len(Advanced) > 1
  /\ \A i \in DOMAIN Dumped : Dumped[i] \in Parts
  /\ "card" \in Parts /\ Len(Dumped) \in DOMAIN Dumped
  /\ Advanced[1] \in Parts
<1>1. \E i \in DOMAIN Dumped : Dumped[i] = "card"
  BY SavesAssumption
<1>2. \A i \in DOMAIN Dumped : Dumped[i] \in Parts
  BY SavesAssumption DEF Parts
<1> QED BY <1>1, <1>2, SavesAssumption DEF Parts

LEMMA StateBegin ==
  ASSUME StateInv, BeginStep
  PROVE  StateInv'
<1>1. /\ advanced = 0 /\ advanced' = 1 /\ now' = now + 1 /\ base' = part[Advanced[1]]
      /\ part' = [part EXCEPT ![Advanced[1]] = now + 1]
      /\ overlapped' = (overlapped \/ cli # "idle")
      /\ UNCHANGED <<cli, done, buffer, mangled, stateFile, gameFile>>
  BY DEF BeginStep, files
<1>2. SavesTyped'
  BY <1>1, DumpedParts DEF StateInv, SavesTyped
<1>3. GameInv'
  <2> SUFFICES ASSUME cli # "load", ~mangled
               PROVE  \A i \in DOMAIN Dumped :
                        part'[Dumped[i]] = IF Dumped[i] \in Reached' THEN now' ELSE base'
    BY <1>1 DEF GameInv
  <2>1. PICK v \in Nat : Whole(v)
    BY <1>1 DEF StateInv, GameInv
  <2>2. base' = v
    BY <1>1, <2>1, SavesAssumption DEF Whole
  <2>3. Reached' = {Advanced[1]}
    BY <1>1 DEF Reached
  <2> QED BY <1>1, <2>1, <2>2, <2>3, DumpedParts DEF Whole, StateInv, SavesTyped
<1>4. FileInv'
  BY <1>1 DEF StateInv, FileInv, Entries, OneInstant
<1>5. DumpInv' /\ LoadInv'
  BY <1>1 DEF StateInv, DumpInv, LoadInv, Entries
<1> QED BY <1>2, <1>3, <1>4, <1>5 DEF StateInv

LEMMA StateAdvance ==
  ASSUME StateInv, AdvancePart
  PROVE  StateInv'
<1> DEFINE p == Advanced[advanced + 1]
<1>1. /\ advanced # 0 /\ UNCHANGED <<base, now, done, buffer, mangled, stateFile, gameFile>>
      /\ part' = [part EXCEPT ![p] = IF @ = base THEN now ELSE Mixed]
      /\ overlapped' = (overlapped \/ cli # "idle")
      /\ IF advanced + 1 < Len(Advanced) THEN advanced' = advanced + 1 /\ cli' = cli
         ELSE advanced' = 0 /\ cli' = IF cli = "step" THEN "idle" ELSE cli
  BY DEF AdvancePart, files
<1>2. p \in Parts /\ advanced + 1 \in DOMAIN Advanced
  BY DumpedParts DEF StateInv, SavesTyped, Parts
<1>3. SavesTyped'
  BY <1>1, <1>2, DumpedParts DEF StateInv, SavesTyped, Mixed
<1>4. GameInv'
  <2> SUFFICES ASSUME cli # "load", ~mangled
               PROVE  IF advanced' = 0 THEN \E v \in Nat : Whole(v)'
                      ELSE \A i \in DOMAIN Dumped :
                             part'[Dumped[i]] = IF Dumped[i] \in Reached' THEN now' ELSE base'
    BY <1>1 DEF GameInv
  <2> DEFINE R == {Advanced[k] : k \in 1..advanced + 1}
  <2>1. \A q : q \in R <=> q \in Reached \/ q = p
    BY DEF Reached, StateInv, SavesTyped
  <2>2. p \notin Reached
    BY <1>2, SavesAssumption DEF Reached, StateInv, SavesTyped
  <2>3. \A i \in DOMAIN Dumped : part'[Dumped[i]] = IF Dumped[i] \in R THEN now ELSE base
    BY <1>1, <1>2, <2>1, <2>2, DumpedParts DEF StateInv, GameInv, SavesTyped
  <2>4. CASE advanced + 1 < Len(Advanced)
    <3>1. Reached' = R /\ advanced' # 0
      BY <1>1, <2>4 DEF Reached, StateInv, SavesTyped
    <3> QED BY <1>1, <2>3, <3>1
  <2>5. CASE ~(advanced + 1 < Len(Advanced))
    <3>1. advanced + 1 = Len(Advanced) /\ advanced' = 0
      BY <1>1, <2>5, DumpedParts DEF StateInv, SavesTyped
    <3>2. \A i \in DOMAIN Dumped : Dumped[i] \in R
      BY <3>1, DumpedParts DEF Parts
    <3> QED BY <1>1, <2>3, <3>1, <3>2 DEF Whole, StateInv, SavesTyped
  <2> QED BY <2>4, <2>5
<1>5. FileInv'
  BY <1>1 DEF StateInv, FileInv, Entries, OneInstant
<1>6. DumpInv' /\ LoadInv'
  BY <1>1 DEF StateInv, DumpInv, LoadInv, Entries
<1> QED BY <1>3, <1>4, <1>5, <1>6 DEF StateInv

LEMMA StateSame ==
  ASSUME StateInv,
         UNCHANGED <<part, advanced, base, now, overlapped, stateFile, gameFile, mangled>>,
         \/ cli' = cli /\ done' = done /\ buffer' = buffer
         \/ cli # "load" /\ cli' \notin {"dump", "load"}
  PROVE  StateInv'
<1>1. SavesTyped'
  BY DEF StateInv, SavesTyped
<1>2. GameInv'
  BY DEF StateInv, GameInv, Whole, Reached
<1>3. FileInv'
  BY DEF StateInv, FileInv, Entries, OneInstant
<1>4. DumpInv' /\ LoadInv'
  BY DEF StateInv, DumpInv, LoadInv, Entries
<1> QED BY <1>1, <1>2, <1>3, <1>4 DEF StateInv

LEMMA StateSave ==
  ASSUME StateInv, SaveState
  PROVE  StateInv'
<1>1. /\ cli = "idle" /\ cli' = "dump" /\ done' = 0 /\ buffer' = <<>>
      /\ stateFile' = NoFile /\ (overlapped' <=> advanced # 0)
      /\ UNCHANGED <<part, advanced, base, now, mangled, gameFile>>
  BY DEF SaveState, BeginCommand, Typed
<1>2. SavesTyped'
  BY <1>1, DumpedParts DEF StateInv, SavesTyped
<1>3. GameInv'
  BY <1>1 DEF StateInv, GameInv, Whole, Reached
<1>4. FileInv' /\ LoadInv'
  BY <1>1 DEF FileInv, LoadInv, NoFile
<1>5. DumpInv'
  BY <1>1 DEF DumpInv, Entries
<1> QED BY <1>2, <1>3, <1>4, <1>5 DEF StateInv

LEMMA StateLoad ==
  ASSUME StateInv, LoadState
  PROVE  StateInv'
<1>1. /\ stateFile.written /\ cli' = "load" /\ done' = 0 /\ buffer' = stateFile.content
      /\ (overlapped' <=> advanced # 0)
      /\ UNCHANGED <<part, advanced, base, now, mangled, gameFile, stateFile>>
  BY DEF LoadState, BeginCommand, files
<1>2. SavesTyped'
  BY <1>1, DumpedParts DEF StateInv, SavesTyped
<1>3. GameInv' /\ DumpInv'
  BY <1>1 DEF GameInv, DumpInv
<1>4. FileInv'
  BY <1>1 DEF StateInv, FileInv, Entries, OneInstant
<1>5. LoadInv'
  BY <1>1 DEF LoadInv
<1> QED BY <1>2, <1>3, <1>4, <1>5 DEF StateInv

LEMMA StateDump ==
  ASSUME StateInv, DumpPart
  PROVE  StateInv'
<1> DEFINE p == Dumped[done + 1]
           b == Append(buffer, <<p, part[p]>>)
<1>1. /\ cli = "dump"
      /\ UNCHANGED <<part, advanced, base, now, overlapped, gameFile, mangled>>
  BY DEF DumpPart, game
<1>2. /\ done \in 0..Len(Dumped) - 1 /\ done + 1 \in DOMAIN Dumped
      /\ p \in STRING /\ part[p] \in Int
  BY <1>1, DumpedParts DEF StateInv, SavesTyped
<1>3. Entries(buffer) /\ Len(buffer) = done
  BY <1>1 DEF StateInv, DumpInv
<1>4. b \in Seq(STRING \X Int) /\ Len(b) = done + 1
  BY <1>2, <1>3 DEF Entries
<1>5. \A i \in DOMAIN b : b[i] = IF i = done + 1 THEN <<p, part[p]>> ELSE buffer[i]
  BY <1>2, <1>3 DEF Entries
<1>6. Entries(b)
  BY <1>2, <1>3, <1>4, <1>5 DEF Entries
<1>7. ~overlapped => advanced = 0
  BY <1>1 DEF StateInv, DumpInv
<1>8. ~overlapped /\ ~mangled => \A i \in DOMAIN b : b[i][2] = part[Dumped[i]]
  BY <1>1, <1>2, <1>3, <1>4, <1>5 DEF StateInv, DumpInv, Entries
<1>9. GameInv'
  <2>1. cli' # "load"
    BY <1>1 DEF DumpPart
  <2> QED BY <1>1, <2>1 DEF StateInv, GameInv, Whole, Reached
<1>10. CASE p = "card"
  <2>1. done + 1 = Len(Dumped)
    BY <1>2, <1>10, SavesAssumption
  <2>2. cli' = "idle" /\ stateFile'.written /\ stateFile'.content = b
    BY <1>1, <1>10 DEF DumpPart
  <2>3. stateFile'.torn = (overlapped \/ mangled)
    <3> DEFINE t == overlapped \/ mangled
    <3>1. stateFile' = [title |-> rom.title, written |-> TRUE, chip |-> rom.chip,
                        size |-> rom.size, content |-> b, torn |-> t]
      BY <1>10, Zenon DEF DumpPart
    <3> HIDE DEF t
    <3>2. stateFile'.torn = t
      BY <3>1
    <3> QED BY <3>2, Zenon DEF t
  <2>4. SavesTyped'
    BY <1>1, <2>2 DEF StateInv, SavesTyped
  <2>5. ~overlapped /\ ~mangled => OneInstant(b)
    <3> SUFFICES ASSUME ~overlapped, ~mangled PROVE OneInstant(b)
      OBVIOUS
    <3>1. PICK v \in Nat : Whole(v)
      BY <1>1, <1>7 DEF StateInv, GameInv
    <3>2. \A i \in DOMAIN b : i \in DOMAIN Dumped
      BY <1>4, <2>1, DumpedParts
    <3>3. \A i \in DOMAIN b : b[i][2] = v
      BY <1>8, <3>1, <3>2 DEF Whole
    <3> QED BY <3>3 DEF OneInstant
  <2>6. FileInv'
    <3>1. ~stateFile'.torn => ~overlapped /\ ~mangled
      BY <2>3, Zenon
    <3> QED BY <1>4, <1>6, <2>1, <2>2, <2>5, <3>1 DEF FileInv, Entries, OneInstant
  <2>7. DumpInv' /\ LoadInv'
    BY <2>2 DEF DumpInv, LoadInv
  <2> QED BY <1>9, <2>4, <2>6, <2>7 DEF StateInv
<1>11. CASE p # "card"
  <2>1. done + 1 # Len(Dumped)
    BY <1>2, <1>11, SavesAssumption
  <2>2. cli' = "dump" /\ stateFile' = stateFile /\ done' = done + 1 /\ buffer' = b
    BY <1>1, <1>11 DEF DumpPart
  <2>3. SavesTyped'
    BY <1>1, <1>2, <2>1, <2>2, DumpedParts DEF StateInv, SavesTyped
  <2>4. FileInv'
    BY <2>2 DEF StateInv, FileInv, Entries, OneInstant
  <2>5. DumpInv' /\ LoadInv'
    BY <1>1, <1>4, <1>6, <1>7, <1>8, <2>2 DEF DumpInv, LoadInv, Entries
  <2> QED BY <1>9, <2>3, <2>4, <2>5 DEF StateInv
<1> QED BY <1>10, <1>11

LEMMA StateRead ==
  ASSUME StateInv, LoadPart
  PROVE  StateInv'
<1> DEFINE p == Dumped[done + 1]
           e == buffer[done + 1][2]
<1>1. /\ cli = "load"
      /\ UNCHANGED <<advanced, base, now, overlapped, stateFile, gameFile>>
  BY DEF LoadPart, files
<1>2. /\ done \in 0..Len(Dumped) - 1 /\ done + 1 \in DOMAIN Dumped
      /\ p \in Parts
  BY <1>1, DumpedParts DEF StateInv, SavesTyped
<1>3. /\ stateFile.written /\ buffer = stateFile.content
      /\ Entries(buffer) /\ Len(buffer) = Len(Dumped)
  BY <1>1 DEF StateInv, LoadInv, FileInv
<1>4. /\ buffer[done + 1] \in STRING \X Int
      /\ buffer[done + 1][1] = p /\ e \in Int
  BY <1>2, <1>3, DumpedParts DEF Entries
<1>5. Found(p) = e
  BY <1>4 DEF Found
<1>6. FileInv'
  BY <1>1 DEF StateInv, FileInv, Entries, OneInstant
<1>7. ~overlapped /\ ~stateFile.torn /\ part' = [part EXCEPT ![p] = Found(p)]
        => \A i \in 1..done + 1 : part'[Dumped[i]] = buffer[i][2]
  <2> SUFFICES ASSUME ~overlapped, ~stateFile.torn, part' = [part EXCEPT ![p] = e],
                      NEW i \in 1..done + 1
               PROVE  part'[Dumped[i]] = buffer[i][2]
    BY <1>5
  <2>1. PICK v \in Nat : \A k \in DOMAIN buffer : buffer[k][2] = v
    BY <1>3 DEF StateInv, FileInv, OneInstant
  <2>2. i \in DOMAIN buffer /\ done + 1 \in DOMAIN buffer /\ i \in DOMAIN Dumped
    BY <1>2, <1>3, DumpedParts DEF Entries
  <2>3. i # done + 1 => part[Dumped[i]] = buffer[i][2]
    BY <1>1, <1>2 DEF StateInv, LoadInv
  <2>4. part \in [Parts -> Int] /\ Dumped[i] \in Parts
    BY <2>2, DumpedParts DEF StateInv, SavesTyped
  <2> QED BY <1>2, <2>1, <2>2, <2>3, <2>4
<1>8. part' = part \/ \E c \in {Found(p), Mixed} : part' = [part EXCEPT ![p] = c]
  BY DEF LoadPart
<1>9. part' \in [Parts -> Int]
  BY <1>2, <1>4, <1>5, <1>8 DEF StateInv, SavesTyped, Mixed
<1>10. CASE p # "card"
  <2>1. /\ cli' = "load" /\ done' = done + 1 /\ buffer' = buffer
        /\ part' = [part EXCEPT ![p] = Found(p)]
    BY <1>1, <1>10 DEF LoadPart
  <2>2. done + 1 # Len(Dumped)
    BY <1>2, <1>10, SavesAssumption
  <2>3. SavesTyped'
    BY <1>1, <1>2, <1>9, <2>1, <2>2, DumpedParts DEF StateInv, SavesTyped
  <2>4. GameInv' /\ DumpInv'
    BY <2>1 DEF GameInv, DumpInv
  <2>5. LoadInv'
    BY <1>1, <1>7, <2>1 DEF StateInv, LoadInv
  <2> QED BY <1>6, <2>3, <2>4, <2>5 DEF StateInv
<1>11. CASE p = "card"
  <2>1. cli' = "idle"
    BY <1>11 DEF LoadPart
  <2>2. done + 1 = Len(Dumped)
    BY <1>2, <1>11, SavesAssumption
  <2>3. mangled' = (overlapped \/ stateFile.torn \/ ~CardFits \/ rom.chip = "MBC3")
    BY <1>11, Zenon DEF LoadPart
  <2>4. ~mangled' => /\ ~overlapped /\ ~stateFile.torn
                     /\ part' = [part EXCEPT ![p] = Found(p)]
    <3>1. ~mangled' => /\ ~overlapped /\ ~stateFile.torn
                       /\ CardFits /\ rom.chip # "MBC3"
      BY <2>3, Zenon
    <3>2. CardFits /\ rom.chip # "MBC3" => part' = [part EXCEPT ![p] = Found(p)]
      BY <1>11 DEF LoadPart, CardFits
    <3> QED BY <3>1, <3>2
  <2>5. SavesTyped'
    BY <1>1, <1>9, <2>1 DEF StateInv, SavesTyped
  <2>6. GameInv'
    <3> SUFFICES ASSUME ~mangled' PROVE advanced' = 0 /\ \E v \in Nat : Whole(v)'
      BY DEF GameInv
    <3>1. \A i \in 1..done + 1 : part'[Dumped[i]] = buffer[i][2]
      BY <1>7, <2>4
    <3>2. PICK v \in Nat : \A k \in DOMAIN buffer : buffer[k][2] = v
      BY <1>3, <2>4 DEF StateInv, FileInv, OneInstant
    <3>3. \A i \in DOMAIN Dumped : i \in 1..done + 1 /\ i \in DOMAIN buffer
      BY <1>2, <1>3, <2>2, DumpedParts DEF Entries
    <3>4. Whole(v)'
      BY <3>1, <3>2, <3>3 DEF Whole
    <3>5. advanced' = 0
      BY <1>1, <2>4 DEF StateInv, LoadInv
    <3> QED BY <3>4, <3>5
  <2>7. DumpInv' /\ LoadInv'
    BY <2>1 DEF DumpInv, LoadInv
  <2> QED BY <1>6, <2>5, <2>6, <2>7 DEF StateInv
<1> QED BY <1>10, <1>11

LEMMA StateGameSave ==
  ASSUME StateInv, SaveGame \/ WriteHeader \/ WriteGame
  PROVE  StateInv'
<1>1. /\ cli \in {"idle", "save"} /\ cli' \in {"idle", "save"}
      /\ UNCHANGED <<part, advanced, base, now, mangled, stateFile>>
      /\ gameFile'.ram \in {Mixed, part["card"]}
  <2>1. CASE SaveGame
    <3>1. gameFile' = NoSave
      BY <2>1 DEF SaveGame
    <3>2. gameFile'.ram = Mixed
      BY <3>1 DEF NoSave
    <3> QED BY <2>1, <3>2 DEF SaveGame, BeginCommand, Typed
  <2>2. CASE WriteHeader
    <3>1. gameFile'.ram = part["card"]
      BY <2>2 DEF WriteHeader
    <3> QED BY <2>2, <3>1 DEF WriteHeader, game
  <2>3. CASE WriteGame
    <3>1. gameFile'.ram \in {Mixed, part["card"]}
      BY <2>3 DEF WriteGame
    <3> QED BY <2>3, <3>1 DEF WriteGame, game
  <2> QED BY <2>1, <2>2, <2>3
<1>2. SavesTyped'
  BY <1>1, DumpedParts DEF StateInv, SavesTyped, Mixed
<1>3. GameInv'
  BY <1>1 DEF StateInv, GameInv, Whole, Reached
<1>4. FileInv'
  BY <1>1 DEF StateInv, FileInv, Entries, OneInstant
<1>5. DumpInv' /\ LoadInv'
  BY <1>1 DEF DumpInv, LoadInv
<1> QED BY <1>2, <1>3, <1>4, <1>5 DEF StateInv

LEMMA StateGameLoad ==
  ASSUME StateInv, LoadGame
  PROVE  StateInv'
<1>1. /\ cli = "idle" /\ cli' = "idle"
      /\ UNCHANGED <<advanced, base, now, overlapped, done, buffer, stateFile, gameFile>>
  BY DEF LoadGame, Typed, files
<1>2. CASE HeaderOk /\ EnoughBytes
  <2>1. mangled' /\ \E c \in {gameFile.ram, Mixed} : part' = [part EXCEPT !["card"] = c]
    BY <1>2 DEF LoadGame
  <2>2. SavesTyped'
    BY <1>1, <2>1, DumpedParts DEF StateInv, SavesTyped, Mixed
  <2>3. FileInv'
    BY <1>1 DEF StateInv, FileInv, Entries, OneInstant
  <2>4. GameInv' /\ DumpInv' /\ LoadInv'
    BY <1>1, <2>1 DEF GameInv, DumpInv, LoadInv
  <2> QED BY <2>2, <2>3, <2>4 DEF StateInv
<1>3. CASE ~(HeaderOk /\ EnoughBytes)
  <2>1. UNCHANGED <<part, mangled>>
    BY <1>3 DEF LoadGame
  <2> QED BY <1>1, <2>1, StateSame
<1> QED BY <1>2, <1>3

LEMMA StateStart ==
  ASSUME part = Fresh(now), now \in Nat, advanced = 0, cli = "idle"
  PROVE  GameInv /\ DumpInv /\ LoadInv /\ part \in [Parts -> Int]
<1>1. Whole(now)
  BY DumpedParts DEF Whole, Fresh, Parts
<1>2. part \in [Parts -> Int]
  BY DEF Fresh, Parts
<1> QED BY <1>1, <1>2 DEF GameInv, DumpInv, LoadInv

LEMMA StateFirst == SessionInit => StateInv
<1> SUFFICES ASSUME SessionInit PROVE StateInv
  OBVIOUS
<1>1. /\ part = Fresh(0) /\ now = 0 /\ advanced = 0 /\ cli = "idle"
      /\ stateFile = NoFile /\ gameFile = NoSave
  BY DEF SessionInit, Init
<1>2. GameInv /\ DumpInv /\ LoadInv /\ part \in [Parts -> Int]
  BY <1>1, StateStart
<1>3. ~stateFile.written /\ gameFile.ram \in Int
  <2>1. gameFile.ram = -1
    BY <1>1 DEF NoSave, Mixed
  <2>2. stateFile.written = FALSE
    BY <1>1 DEF NoFile
  <2> QED BY <2>1, <2>2
<1>4. SavesTyped
  BY <1>1, <1>2, <1>3, DumpedParts DEF SavesTyped
<1> QED BY <1>2, <1>3, <1>4 DEF StateInv, FileInv

LEMMA StateRestart ==
  ASSUME StateInv, Exit
  PROVE  StateInv'
<1>1. /\ part' = Fresh(now') /\ now' = now + 1 /\ advanced' = 0 /\ cli' = "idle"
      /\ UNCHANGED <<stateFile, gameFile>>
  BY DEF Exit, Start, files
<1>2. now' \in Nat /\ part' = [q \in Parts |-> now']
  BY <1>1 DEF Fresh, Parts, StateInv, SavesTyped
<1>3. /\ \A i \in DOMAIN Dumped : part'[Dumped[i]] = now'
      /\ part' \in [Parts -> Int]
  BY <1>2, DumpedParts
<1>4. FileInv'
  BY <1>1 DEF StateInv, FileInv, Entries, OneInstant
<1>5. SavesTyped'
  BY <1>1, <1>2, <1>3, DumpedParts DEF StateInv, SavesTyped
<1>6. GameInv' /\ DumpInv' /\ LoadInv'
  BY <1>1, <1>2, <1>3 DEF GameInv, DumpInv, LoadInv, Whole
<1> QED BY <1>4, <1>5, <1>6 DEF StateInv

LEMMA StateCommands ==
  ASSUME StateInv, CommandLine
  PROVE  StateInv'
<1>1. CASE Step \/ Detach \/ Attach
  BY <1>1, StateSame DEF Step, Detach, Attach, Typed, game, files
<1> QED BY <1>1, StateSave, StateDump, StateLoad, StateRead, StateGameSave, StateGameLoad
        DEF CommandLine

(* In every session the machine is of one instant whenever no step and no   *)
(* command is in progress, but for the listed ways to mix two.              *)
THEOREM MachineIsWhole == SessionSpec => []WholeMachine
<1>1. SessionInit => StateInv
  BY StateFirst
<1>2. StateInv /\ [SessionNext]_<<savesVars, handVars>> => StateInv'
  <2> SUFFICES ASSUME StateInv, [SessionNext]_<<savesVars, handVars>> PROVE StateInv'
    OBVIOUS
  <2>1. CASE BeginStep \/ AdvancePart
    BY <2>1, StateBegin, StateAdvance
  <2>2. CASE CommandLine
    BY <2>2, StateCommands
  <2>3. CASE Exit
    BY <2>3, StateRestart
  <2>4. CASE UNCHANGED savesVars
    BY <2>4, StateSame DEF savesVars, game, files
  <2> QED BY <2>1, <2>2, <2>3, <2>4 DEF SessionNext, GameThread
<1>3. StateInv => WholeMachine
  BY DEF StateInv, GameInv, Whole, WholeMachine, Mixed
<1> QED BY <1>1, <1>2, <1>3, PTL DEF SessionSpec
=============================================================================
