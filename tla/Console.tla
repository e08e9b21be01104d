-------------------------------- MODULE Console --------------------------------
(***************************************************************************)
(* console.cpp of the emulator: the reset sequence, the frame loop around  *)
(* the program's setup and loop, the controller, saved states.  A step is  *)
(* one instruction, one event of the keyboard, or the console's work at    *)
(* the end of a call or of the polling.  Time and pixels are left out.     *)
(***************************************************************************)
EXTENDS BananaCpu

CONSTANTS Sessions,   \* a slug (a function on addresses) with, as bounds, how often
                      \* loop is called, a key is used and the emulator restarted
          Typed,      \* what std::cin.get() may return
          Buttons,    \* the controller's buttons, by the number of their bit
          Slots,      \* the slots for saved states
          Cuts        \* bound: after how many fields a saved state may be cut short

(* What reset copies lies in RAM_: beyond it, memcpy may do anything. *)
DataInRAM(contents) ==
  /\ \A a \in {kLoadDataAddress, kDataSizeAddress} :
       {a, a + 1} \cap {c \in DOMAIN contents : contents[c] # 0} = {}
  /\ LET n == [RAM |-> contents]
     IN ReadWord(n, kLoadDataAddress) + ReadWord(n, kDataSizeAddress) <= 65536

(* A slug is bytes, from kSLUGFileAddress to the end of RAM_; the code casts *)
(* what it reads from std::cin to a byte; the controller has eight buttons.  *)
ASSUME ConsoleAssumption ==
  /\ \A s \in Sessions : /\ DOMAIN s.slug \subseteq kSLUGFileAddress .. 65535
                         /\ s.slug \in [DOMAIN s.slug -> Octets]
                         /\ DataInRAM(s.slug)
  /\ Typed \subseteq Octets
  /\ Buttons \subseteq 0 .. 7
  /\ Cuts \subseteq 0 .. 5

VARIABLES slug, left, \* the session
          m,          \* the machine
          phase,      \* setup, poll, loop; ended, exited, killed, undefined
          event,      \* the last event's type, as far as the code tests it
          filters, paused,  \* what is switched on
          slots,      \* the files of saved states: a function on the slots used,
                      \* with how many of its fields the file has
          held,       \* history: the buttons that are down
          disturbed,  \* history: a program stored to the controller, or a load did
          shadow,     \* history: for each slot, the state when it was saved
          loaded      \* history: the slots loaded by the last step

session == <<slug, left>>
history == <<held, disturbed, shadow, loaded>>
settings == <<filters, paused, slots>>
vars == <<session, m, phase, event, settings, history>>

Filters == {"crt", "image"}  \* "image" stands for itself, "crt" for the others

(* The function f where it is defined, g elsewhere. *)
Over(f, g) == [x \in DOMAIN f \cup DOMAIN g |-> IF x \in DOMAIN f THEN f[x] ELSE g[x]]

(* JAL from 0xfffc: the return address wraps to 0. *)
Call(n, entry) == JAL([n EXCEPT !.PC = 65532], ReadEntry(n, entry))

(* The program's data is copied to the beginning of RAM. *)
WithData(n) ==
  [n EXCEPT !.RAM = Over([a \in 0 .. ReadWord(n, kDataSizeAddress) - 1 |->
                            Cell(n, ReadWord(n, kLoadDataAddress) + a)], @)]

Reset(contents) ==
  Call(WithData([PC |-> 0, reg |-> [r \in 0 .. 31 |-> IF r = 29 THEN kVRAMAddress ELSE 0],
                 RAM |-> contents, out |-> << >>, exited |-> FALSE]), kSetupAddress)

Init ==
  /\ \E s \in Sessions : /\ slug = s.slug
                          /\ left = [frames |-> s.frames, keys |-> s.keys, starts |-> s.starts]
  /\ m = Reset(slug)
  /\ phase = "setup"
  /\ event \in {"other", "quit"}  \* event_ is not initialised
  /\ filters = {} /\ paused = FALSE /\ slots = << >>
  /\ held = {} /\ disturbed = FALSE /\ shadow = << >> /\ loaded = {}

(* The emulator is started again, in the directory with the saved states. *)
Restart ==
  /\ phase \in {"ended", "exited", "killed"} /\ left.starts > 0
  /\ left' = [left EXCEPT !.starts = @ - 1]
  /\ m' = Reset(slug)
  /\ phase' = "setup"
  /\ event' \in {"other", "quit"}
  /\ filters' = {} /\ paused' = FALSE
  /\ held' = {} /\ disturbed' = FALSE /\ loaded' = {}
  /\ UNCHANGED <<slug, slots, shadow>>

Running == phase \in {"setup", "loop"}

(* The loops of setup and loop, while PC_ is in the program. *)
Execute ==
  /\ Running /\ m.PC >= kSLUGFileAddress /\ ~OutOfBounds(m)
  /\ m' \in ExecuteInstruction(m, Typed)
  /\ phase' = IF m'.exited THEN "exited" ELSE phase
  /\ disturbed' = (disturbed \/ Cell(m', kControllerDataAddress) # Cell(m, kControllerDataAddress))
  /\ UNCHANGED <<session, event, settings, held, shadow, loaded>>

(* A read beyond RAM_ may do anything. *)
Undefined ==
  /\ Running /\ m.PC >= kSLUGFileAddress /\ OutOfBounds(m)
  /\ phase' = "undefined"
  /\ UNCHANGED <<session, m, event, settings, history>>

(* The end of setup or loop, and the test of the frame loop. *)
Return ==
  /\ Running /\ m.PC < kSLUGFileAddress
  /\ m' = SetReg(m, 29, kVRAMAddress)
  /\ phase' = IF m.PC = 0 /\ event # "quit" THEN "poll" ELSE "ended"
  /\ UNCHANGED <<session, event, settings, history>>

----------------------------------------------------------------------------
(* controllerInput, one event a step.  After SDL_QUIT it polls no more.     *)
Poll ==
  /\ phase = "poll" /\ event # "quit"
  /\ left.keys > 0
  /\ left' = [left EXCEPT !.keys = @ - 1]
  /\ event' = "other"
  /\ UNCHANGED slug

Controller == Cell(m, kControllerDataAddress)
SetController(x) == m' = [m EXCEPT !.RAM = [WithCells(@, {kControllerDataAddress})
                                           EXCEPT ![kControllerDataAddress] = x]]

PressAlone(b) == SetController(2^b)
Press(b) == SetController(IF Bit(Controller, b) = 0 THEN Controller + 2^b ELSE Controller)
Release(b) == SetController(IF Bit(Controller, b) = 1 THEN Controller - 2^b ELSE Controller)

(* A key that is held down may be reported again. *)
Button(b) ==
  /\ Poll
  /\ \/ Press(b) /\ held' = held \cup {b}
     \/ b \in held /\ Release(b) /\ held' = held \ {b}
  /\ loaded' = {}
  /\ UNCHANGED <<phase, settings, disturbed, shadow>>

Toggle(x, S) == IF x \in S THEN S \ {x} ELSE S \cup {x}

Switch ==
  /\ Poll
  /\ \/ \E f \in Filters : filters' = Toggle(f, filters) /\ UNCHANGED paused
     \/ paused' = ~paused /\ UNCHANGED filters
  /\ loaded' = {}
  /\ UNCHANGED <<phase, m, slots, held, disturbed, shadow>>

(* The digits: with F, those up to 6 toggle a filter; then, with S or L, all *)
(* of them save or load.  The keys are read as they are by now, not as they  *)
(* were at the event, so any combination may be seen.                        *)
AfterToggle(s) == IF s \in 1 .. 6 THEN {filters, Toggle("crt", filters)} ELSE {filters}

(* What is saved, in the order of saveState.  A file may be cut at any byte; *)
(* here one is cut between two fields, and RAM_ also at the controller's     *)
(* cell (PC_ is 0 at every save, so that a part of it is the whole).         *)
Fields == <<"PC", "reg", "filters", "low", "high", "paused">>

Cells(first, last) == [a \in {c \in DOMAIN m.RAM : c \in first .. last} |-> m.RAM[a]]

State(on) == [PC |-> m.PC, reg |-> m.reg, filters |-> on,
              low |-> Cells(0, kControllerDataAddress - 1),
              high |-> Cells(kControllerDataAddress, 65535), paused |-> paused]

(* The GPU's saveState and loadState leave img_enabled_ out. *)
Saved(state) == [state EXCEPT !.filters = @ \ {"image"}]

(* The file is opened anew before it is written.  When the disk is full, or *)
(* the emulator is killed, it keeps the first of its fields only.           *)
Write(s, on, written) ==
  /\ slots' = Over([x \in {s} |-> [state |-> Saved(State(on)), written |-> written]], slots)
  /\ shadow' = Over([x \in {s} |-> State(on)], shadow)
  /\ phase' \in {phase} \cup IF written < Len(Fields) THEN {"killed"} ELSE {}

NotOpened == UNCHANGED <<phase, slots, shadow>>

saveState(s) ==
  /\ Poll
  /\ \E on \in AfterToggle(s) :
       /\ filters' = on
       /\ NotOpened \/ \E written \in Cuts \cup {Len(Fields)} : Write(s, on, written)
  /\ loaded' = {}
  /\ UNCHANGED <<m, paused, held, disturbed>>

(* A read at the end of the file leaves the variable as it is, and so do    *)
(* all reads after it.                                                      *)
Loaded(s) == {Fields[i] : i \in 1 .. slots[s].written}
Merged(s, on) == [f \in DOMAIN Saved(State(on)) |->
                    IF f \in Loaded(s) THEN slots[s].state[f] ELSE Saved(State(on))[f]]

RestoredKeepingRAM(state) == m' = [m EXCEPT !.PC = state.PC, !.reg = state.reg]

Restored(state) ==
  m' = [m EXCEPT !.PC = state.PC, !.reg = state.reg, !.RAM = Over(state.low, state.high)]

loadState(s) ==
  /\ Poll
  /\ \/ /\ s \in DOMAIN slots
        /\ \E on \in AfterToggle(s) :
             /\ Restored(Merged(s, on))
             /\ filters' = Merged(s, on).filters \cup (on \cap {"image"})
             /\ paused' = Merged(s, on).paused
        /\ disturbed' = (disturbed \/ "high" \in Loaded(s))
        /\ loaded' = {s}
     \/ /\ filters' \in AfterToggle(s)  \* there is no file, or it does not open
        /\ loaded' = {}
        /\ UNCHANGED <<m, paused, disturbed>>
  /\ UNCHANGED <<phase, slots, held, shadow>>

Quit ==
  /\ phase = "poll" /\ event # "quit"
  /\ event' = "quit"
  /\ loaded' = {}
  /\ UNCHANGED <<session, m, phase, settings, held, disturbed, shadow>>

(* The queue of events is empty, or the last was SDL_QUIT: a frame, unless  *)
(* the game is paused.                                                      *)
BeginFrame ==
  /\ phase = "poll" /\ ~paused /\ (left.frames > 0 \/ event = "quit")
  /\ left' = [left EXCEPT !.frames = Max({@ - 1, 0})]
  /\ m' = Call(m, kLoopAddress)
  /\ phase' = "loop" /\ loaded' = {}
  /\ UNCHANGED <<slug, settings, held, disturbed, shadow>>

FrameClearingEvent == BeginFrame /\ event' = "other"

Frame == BeginFrame /\ UNCHANGED event

PausedFrame ==
  /\ phase = "poll" /\ paused /\ event = "quit"
  /\ phase' = "ended"
  /\ UNCHANGED <<session, m, event, settings, history>>

Keyboard == \/ \E b \in Buttons : Button(b)
            \/ Switch
            \/ \E s \in Slots : saveState(s) \/ loadState(s)
            \/ Quit

Run == Execute \/ Undefined \/ Return \/ Frame \/ PausedFrame

Next == Keyboard \/ Run \/ Restart

(* The emulator runs on; nobody has to press a key. *)
Spec == Init /\ [][Next]_vars

FairSpec == Spec /\ WF_vars(Run)

----------------------------------------------------------------------------
(* Registers and cells keep their widths; a call always starts where the    *)
(* program counter can be.                                                  *)
TypeOK ==
  /\ m.PC \in Addresses
  /\ \A r \in DOMAIN m.reg : m.reg[r] \in Values
  /\ DOMAIN m.RAM \subseteq Addresses /\ \A a \in DOMAIN m.RAM : m.RAM[a] \in Octets
  /\ phase \in {"setup", "poll", "loop", "ended", "exited", "killed", "undefined"}

(* console.h's table of permissions: no instruction changes a cell that is  *)
(* not "w", not even half of one that straddles a border; the cell of the   *)
(* controller is excepted, which the code lets programs write.              *)
StoresPermitted ==
  [][Running => \A a \in DOMAIN m'.RAM :
       Cell(m', a) # Cell(m, a) =>
         a \in 0 .. kRAMSize - 1
               \cup {kControllerDataAddress, kDebugstdoutAddress, kDebugstderrAddress,
                     kStopExecutionAddress}]_vars

(* As long as no program stores there and no state is loaded, the           *)
(* controller's cell tells exactly the buttons that are down, across frames *)
(* and whatever order they were pressed in.                                 *)
ControllerShowsButtons ==
  ~disturbed => \A b \in 0 .. 7 : Bit(Controller, b) = IF b \in held THEN 1 ELSE 0

(* A load brings back all that the game and the filters depend on as it was *)
(* when that slot was saved last, whatever happened in between, and of a    *)
(* file that was cut short all that is in it.  Only the custom image stays  *)
(* as it is.  No load takes the emulator out of its frame loop.             *)
LoadRestores ==
  /\ \A s \in loaded : \A i \in 1 .. slots[s].written :
       Saved(State(filters))[Fields[i]] = Saved(shadow[s])[Fields[i]]
  /\ phase = "poll" => m.PC = 0

(* Instructions are fetched from multiples of 4, where a fetch within the   *)
(* slug stays within RAM_, unless a JR goes elsewhere: neither branches that*)
(* wrap nor a load make the program counter odd.                            *)
FetchesAligned ==
  [][m'.PC % 4 # 0 => \/ m.PC % 4 # 0
                     \/ LET i == DecodeInstruction(m)
                        IN Running /\ i.op = kFUNC /\ i.function = kJR]_vars

(* Once SDL_QUIT was polled the emulator ends, after one more frame at most *)
(* (the programs here return).                                              *)
QuitEnds == (event = "quit") ~> (phase \in {"ended", "exited", "undefined"})
=============================================================================
