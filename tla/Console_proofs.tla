---------------------------- MODULE Console_proofs ----------------------------
(***************************************************************************)
(* Theorems about the emulator, for any slugs: whatever bytes a program is *)
(* made of, whatever is typed, and any number of frames, keys, saved       *)
(* states, files cut short and restarts.                                   *)
(***************************************************************************)
EXTENDS Console, TLAPS

(* What RAM_ holds where it was written, and the machine around it. *)
Memories == UNION {[S -> Octets] : S \in SUBSET Addresses}

Machines == [PC : Addresses, reg : [0 .. 31 -> Values], RAM : Memories,
             out : Seq(Int \X Octets), exited : BOOLEAN]

----------------------------------------------------------------------------
(* Words *)

(* The provers enumerate an interval between numerals, and these are long:  *)
(* below, these sets stay names, of which only this is known.               *)
LEMMA Ranges ==
  /\ \A x : x \in Addresses <=> x \in Int /\ 0 <= x /\ x <= 65535
  /\ \A x : x \in Octets <=> x \in Int /\ 0 <= x /\ x <= 255
  /\ \A x : x \in Values <=> x \in Int /\ -32768 <= x /\ x <= 32767
<1>1. PICK z \in Int, o \in Int, a \in Int, l \in Int, h \in Int :
        z = 0 /\ o = 255 /\ a = 65535 /\ l = -32768 /\ h = 32767
  OBVIOUS
<1>2. Addresses = z .. a /\ Octets = z .. o /\ Values = l .. h
  BY <1>1 DEF Addresses, Octets, Values
<1>3. /\ \A x : x \in Addresses <=> x \in Int /\ z <= x /\ x <= a
      /\ \A x : x \in Octets <=> x \in Int /\ z <= x /\ x <= o
      /\ \A x : x \in Values <=> x \in Int /\ l <= x /\ x <= h
  BY <1>2
<1> QED BY <1>1, <1>3

LEMMA Words ==
  ASSUME NEW x \in Int
  PROVE  /\ Word(x) \in Addresses
         /\ Int16(x) \in Values
         /\ Byte(x) \in Octets
         /\ Word(x) % 4 = x % 4
BY Ranges DEF Word, Int16, Byte

LEMMA PowersPositive ==
  ASSUME NEW s \in 0 .. 31
  PROVE  2^s \in Nat \ {0}
<1>1. /\ 2^0 \in Nat \ {0} /\ 2^1 \in Nat \ {0} /\ 2^2 \in Nat \ {0} /\ 2^3 \in Nat \ {0}
      /\ 2^4 \in Nat \ {0} /\ 2^5 \in Nat \ {0} /\ 2^6 \in Nat \ {0} /\ 2^7 \in Nat \ {0}
      /\ 2^8 \in Nat \ {0} /\ 2^9 \in Nat \ {0} /\ 2^10 \in Nat \ {0} /\ 2^11 \in Nat \ {0}
      /\ 2^12 \in Nat \ {0} /\ 2^13 \in Nat \ {0} /\ 2^14 \in Nat \ {0} /\ 2^15 \in Nat \ {0}
      /\ 2^16 \in Nat \ {0} /\ 2^17 \in Nat \ {0} /\ 2^18 \in Nat \ {0} /\ 2^19 \in Nat \ {0}
      /\ 2^20 \in Nat \ {0} /\ 2^21 \in Nat \ {0} /\ 2^22 \in Nat \ {0} /\ 2^23 \in Nat \ {0}
      /\ 2^24 \in Nat \ {0} /\ 2^25 \in Nat \ {0} /\ 2^26 \in Nat \ {0} /\ 2^27 \in Nat \ {0}
      /\ 2^28 \in Nat \ {0} /\ 2^29 \in Nat \ {0} /\ 2^30 \in Nat \ {0} /\ 2^31 \in Nat \ {0}
  OBVIOUS
<1>2. \/ s = 0 \/ s = 1 \/ s = 2 \/ s = 3 \/ s = 4 \/ s = 5 \/ s = 6 \/ s = 7
      \/ s = 8 \/ s = 9 \/ s = 10 \/ s = 11 \/ s = 12 \/ s = 13 \/ s = 14 \/ s = 15
      \/ s = 16 \/ s = 17 \/ s = 18 \/ s = 19 \/ s = 20 \/ s = 21 \/ s = 22 \/ s = 23
      \/ s = 24 \/ s = 25 \/ s = 26 \/ s = 27 \/ s = 28 \/ s = 29 \/ s = 30 \/ s = 31
  OBVIOUS
<1> QED BY <1>1, <1>2, Zenon

LEMMA Quotients ==
  ASSUME NEW x \in Int, NEW d \in Nat \ {0}
  PROVE  /\ x \div d \in Int
         /\ x >= 0 => x \div d \in 0 .. x
         /\ x < 0 => x \div d \in x .. -1
OBVIOUS

LEMMA Shifts ==
  ASSUME NEW x \in Values, NEW s \in 0 .. 31
  PROVE  SRL(x, s) \in Values /\ SRA(x, s) \in Values /\ SLL(x, s) \in Values
<1>1. 2^s \in Nat \ {0} /\ 2^(32 - s) - 1 \in Int
  <2>1. CASE s = 0
    <3>1. 2^32 - 1 \in Int /\ 32 - s = 32
      BY <2>1
    <3>2. 2^(32 - s) - 1 \in Int
      BY <3>1, Zenon
    <3> QED BY <3>2, PowersPositive
  <2>2. CASE s # 0
    <3>1. 32 - s \in 0 .. 31
      BY <2>2
    <3>2. PICK q \in Nat : q = 2^(32 - s)
      BY <3>1, PowersPositive
    <3>3. q - 1 \in Int
      OBVIOUS
    <3> QED BY <3>2, <3>3, PowersPositive, Zenon
  <2> QED BY <2>1, <2>2
<1>2. PICK d \in Nat \ {0} : d = 2^s
  BY <1>1
<1>3. PICK e \in Int : e = 2^(32 - s) - 1
  BY <1>1
<1>4. x \in Int /\ Word(x) \in Int
  BY Words, Ranges
<1>5. x \div d \in Int /\ x \div d \in Values
  BY <1>4, Quotients, Ranges
<1>6. Int16(x \div d) \in Values /\ Int16(e) \in Values
  BY <1>5, Words
<1>7. Word(x) * d \in Int
  BY <1>4
<1>8. Int16(Word(x) * d) \in Values
  BY <1>7, Words
<1>9. 0 \in Values
  BY Ranges
<1> QED BY <1>2, <1>3, <1>5, <1>6, <1>8, <1>9 DEF SRL, SRA, SLL

LEMMA Bitwise ==
  ASSUME NEW x, NEW y, NEW ones
  PROVE  Bitwise2(x, y, ones) \in Values
<1> DEFINE bit(i) == IF <<Bit(x, i), Bit(y, i)>> \in ones THEN 2^i ELSE 0
<1> DEFINE four(i) == bit(i) + bit(i + 1) + bit(i + 2) + bit(i + 3)
<1>1. \A i \in 0 .. 15 : bit(i) \in Int
  BY PowersPositive
<1> HIDE DEF bit
<1>2. /\ four(0) \in Int
      /\ four(4) \in Int
      /\ four(8) \in Int
      /\ four(12) \in Int
  BY <1>1
<1> HIDE DEF four
<1>3. four(0) + four(4) + four(8) + four(12) \in Int
  BY <1>2
<1>4. Int16(four(0) + four(4) + four(8) + four(12)) \in Values
  BY <1>3, Words
<1> USE DEF bit, four
<1> QED BY <1>4 DEF Bitwise2

LEMMA Results_ ==
  ASSUME NEW x \in Values, NEW y \in Values, NEW s \in 0 .. 31, NEW f \in Results
  PROVE  Result(f, x, y, s) \in Values
<1>1. Int16(x - y) \in Values /\ Int16(x + y) \in Values
  BY Words, Ranges
<1>2. 0 \in Values /\ 1 \in Values
  BY Ranges
<1> QED BY <1>1, <1>2, Shifts, Bitwise
        DEF Result, Results, kSUB, kADD, kSRL, kSRA, kSLL, kAND, kOR, kNOR, kSLT

----------------------------------------------------------------------------
(* Machines *)

LEMMA MemoryIsFunction ==
  ASSUME NEW f \in Memories
  PROVE  /\ DOMAIN f \subseteq Addresses
         /\ f = [a \in DOMAIN f |-> f[a]]
         /\ \A a \in DOMAIN f : f[a] \in Octets
BY DEF Memories

LEMMA FunctionIsMemory ==
  ASSUME NEW S \in SUBSET Addresses, NEW f \in [S -> Octets]
  PROVE  f \in Memories
BY DEF Memories

LEMMA MachineFields ==
  ASSUME NEW n \in Machines
  PROVE  /\ n.PC \in Addresses /\ n.PC \in Int
         /\ n.reg \in [0 .. 31 -> Values]
         /\ n.RAM \in Memories
         /\ n.out \in Seq(Int \X Octets)
         /\ n.exited \in BOOLEAN
BY Ranges DEF Machines

(* What is stored over a memory is a memory. *)
LEMMA StoredOver ==
  ASSUME NEW f \in Memories, NEW g \in Memories
  PROVE  Over(f, g) \in Memories
<1> DEFINE S == DOMAIN f \cup DOMAIN g
<1>1. S \in SUBSET Addresses
  BY MemoryIsFunction
<1>2. Over(f, g) \in [S -> Octets]
  BY MemoryIsFunction DEF Over
<1> QED BY <1>1, <1>2, FunctionIsMemory

LEMMA MoreCells ==
  ASSUME NEW f \in Memories, NEW S \in SUBSET Addresses
  PROVE  /\ WithCells(f, S) \in Memories
         /\ WithCells(f, S) \in [DOMAIN f \cup S -> Octets]
<1>1. DOMAIN f \cup S \in SUBSET Addresses /\ 0 \in Octets
  BY MemoryIsFunction, Ranges
<1>2. WithCells(f, S) \in [DOMAIN f \cup S -> Octets]
  BY <1>1, MemoryIsFunction DEF WithCells
<1> QED BY <1>1, <1>2, FunctionIsMemory

LEMMA CellIsOctet ==
  ASSUME NEW n \in Machines, NEW a
  PROVE  Cell(n, a) \in Octets /\ Cell(n, a) \in Int
<1>1. Cell(n, a) \in Octets
  <2>1. n.RAM \in Memories
    BY MachineFields
  <2>2. 0 \in Octets
    BY Ranges
  <2> QED BY <2>1, <2>2, MemoryIsFunction DEF Cell
<1> QED BY <1>1, Ranges

LEMMA Decoded ==
  ASSUME NEW n \in Machines
  PROVE  LET i == DecodeInstruction(n)
         IN /\ i.a \in 0 .. 31 /\ i.b \in 0 .. 31 /\ i.c \in 0 .. 31
            /\ i.shift \in 0 .. 31
            /\ i.immediate \in Values /\ i.immediate \in Int
<1> DEFINE b(i) == Cell(n, n.PC + i)
<1>1. PICK b0 \in Octets, b1 \in Octets, b2 \in Octets, b3 \in Octets :
        b0 = b(0) /\ b1 = b(1) /\ b2 = b(2) /\ b3 = b(3)
  BY CellIsOctet
<1> HIDE DEF b
<1>2. /\ 8 * (b0 % 4) + (b1 \div 32) \in 0 .. 31
      /\ b1 % 32 \in 0 .. 31
      /\ b2 \div 8 \in 0 .. 31
      /\ 4 * (b2 % 8) + (b3 \div 64) \in 0 .. 31
      /\ 256 * b2 + b3 \in Int
  BY Ranges
<1>3. Int16(256 * b2 + b3) \in Values /\ Int16(256 * b2 + b3) \in Int
  BY <1>2, Words, Ranges
<1> USE DEF b
<1> QED BY <1>1, <1>2, <1>3 DEF DecodeInstruction

----------------------------------------------------------------------------
(* Steps of a machine *)

(* The cells that are "w", and the controller's. *)
Permitted == 0 .. kRAMSize - 1
               \cup {kControllerDataAddress, kDebugstdoutAddress, kDebugstderrAddress,
                     kStopExecutionAddress}

(* n may become p, as far as the cells are concerned. *)
StoresOK(n, p) == \A a : Cell(p, a) # Cell(n, a) => a \in Permitted

LEMMA Borders ==
  /\ kRAMSize = 28672 /\ kControllerDataAddress = 28672 /\ kDebugstdoutAddress = 28944
  /\ kDebugstderrAddress = 28960 /\ kStopExecutionAddress = 29184
  /\ kSLUGFileAddress = 32768 /\ kVRAMAddress = 20992
BY DEF kRAMSize, kControllerDataAddress, kDebugstdoutAddress, kDebugstderrAddress,
       kStopExecutionAddress, kSLUGFileAddress, kVRAMAddress

LEMMA WritableIsPermitted ==
  ASSUME NEW a \in Addresses, NEW bytes \in {1, 2}, writable(a, bytes), NEW i \in 0 .. bytes - 1
  PROVE  a + i \in Permitted /\ a + i \in Addresses
<1>1. kRAMSize \in Int
  BY DEF kRAMSize
<1>2. \/ a + i \in Int /\ 0 <= a + i /\ a + i <= kRAMSize
      \/ a + i \in {kDebugstdoutAddress, kDebugstderrAddress, kStopExecutionAddress}
  BY <1>1 DEF writable
<1>3. \A c \in Int : 0 <= c /\ c <= kRAMSize - 1 => c \in Permitted
  BY <1>1 DEF Permitted
<1>4. {kControllerDataAddress, kDebugstdoutAddress, kDebugstderrAddress,
       kStopExecutionAddress} \subseteq Permitted
  BY DEF Permitted
<1>5. a + i \in Permitted
  BY <1>2, <1>3, <1>4, Borders
<1>6. a + i \in Addresses
  BY <1>2, Borders, Ranges
<1> QED BY <1>5, <1>6

LEMMA Gone ==
  ASSUME NEW n \in Machines, NEW pc \in Int
  PROVE  /\ Goto(n, pc) \in Machines
         /\ Goto(n, pc).RAM = n.RAM
         /\ Goto(n, pc).PC % 4 = pc % 4
         /\ StoresOK(n, Goto(n, pc))
<1>1. Word(pc) \in Addresses /\ Word(pc) % 4 = pc % 4
  BY Words
<1>2. PICK w \in Addresses : w = Word(pc)
  BY <1>1
<1>3. [n EXCEPT !.PC = w] \in Machines /\ [n EXCEPT !.PC = w].RAM = n.RAM
      /\ [n EXCEPT !.PC = w].PC = w
  BY DEF Machines
<1>4. Goto(n, pc) = [n EXCEPT !.PC = w]
  BY <1>2 DEF Goto
<1>5. StoresOK(n, Goto(n, pc))
  BY <1>3, <1>4 DEF StoresOK, Cell
<1> QED BY <1>1, <1>2, <1>3, <1>4, <1>5

LEMMA RegisterSet ==
  ASSUME NEW n \in Machines, NEW r \in 0 .. 31, NEW x \in Values
  PROVE  /\ SetReg(n, r, x) \in Machines
         /\ SetReg(n, r, x).PC = n.PC
         /\ SetReg(n, r, x).RAM = n.RAM
         /\ StoresOK(n, SetReg(n, r, x))
<1>1. /\ SetReg(n, r, x) \in Machines
      /\ SetReg(n, r, x).PC = n.PC
      /\ SetReg(n, r, x).RAM = n.RAM
  BY DEF Machines, SetReg
<1> QED BY <1>1 DEF StoresOK, Cell

(* The effect of a store, whatever is written to the cells in S. *)
LEMMA Stored ==
  ASSUME NEW n \in Machines, NEW S \in SUBSET Addresses,
         NEW f \in [DOMAIN n.RAM \cup S -> Octets],
         \A c \in DOMAIN n.RAM \cup S : c \notin S => f[c] = WithCells(n.RAM, S)[c]
  PROVE  /\ [n EXCEPT !.RAM = f] \in Machines
         /\ [n EXCEPT !.RAM = f].PC = n.PC
         /\ \A c : c \notin S => Cell([n EXCEPT !.RAM = f], c) = Cell(n, c)
<1>1. n.RAM \in Memories /\ DOMAIN n.RAM \subseteq Addresses
  BY MachineFields, MemoryIsFunction
<1>2. f \in Memories
  BY <1>1, FunctionIsMemory
<1>3. /\ [n EXCEPT !.RAM = f] \in Machines
      /\ [n EXCEPT !.RAM = f].PC = n.PC
      /\ [n EXCEPT !.RAM = f].RAM = f
  BY <1>2 DEF Machines
<1>4. \A c \in DOMAIN n.RAM : c \notin S => f[c] = n.RAM[c]
  BY DEF WithCells
<1>5. \A c : c \notin S => Cell([n EXCEPT !.RAM = f], c) = Cell(n, c)
  BY <1>3, <1>4 DEF Cell
<1> QED BY <1>3, <1>5

LEMMA Written8 ==
  ASSUME NEW n \in Machines, NEW a \in Addresses, NEW data \in Int
  PROVE  /\ write8(n, a, data) \in Machines
         /\ write8(n, a, data).PC = n.PC
         /\ StoresOK(n, write8(n, a, data))
<1>1. CASE writable(a, 1)
  <2> DEFINE f == [WithCells(n.RAM, {a}) EXCEPT ![a] = Byte(data)]
  <2>1. write8(n, a, data) = [n EXCEPT !.RAM = f]
    BY <1>1 DEF write8
  <2>2. Byte(data) \in Octets /\ n.RAM \in Memories /\ {a} \in SUBSET Addresses
    BY Words, MachineFields
  <2>3. WithCells(n.RAM, {a}) \in [DOMAIN n.RAM \cup {a} -> Octets]
    BY <2>2, MoreCells
  <2>4. /\ f \in [DOMAIN n.RAM \cup {a} -> Octets]
        /\ \A c \in DOMAIN n.RAM \cup {a} : c \notin {a} => f[c] = WithCells(n.RAM, {a})[c]
    BY <2>2, <2>3
  <2> HIDE DEF f
  <2>5. /\ [n EXCEPT !.RAM = f] \in Machines
        /\ [n EXCEPT !.RAM = f].PC = n.PC
        /\ \A c : c \notin {a} => Cell([n EXCEPT !.RAM = f], c) = Cell(n, c)
    BY <2>2, <2>4, Stored
  <2>6. a + 0 \in Permitted /\ a + 0 = a
    BY <1>1, WritableIsPermitted, Ranges
  <2> QED BY <2>1, <2>5, <2>6 DEF StoresOK
<1>2. CASE ~writable(a, 1)
  <2>1. write8(n, a, data) = n
    BY <1>2 DEF write8
  <2> QED BY <2>1 DEF StoresOK
<1> QED BY <1>1, <1>2

LEMMA Written16 ==
  ASSUME NEW n \in Machines, NEW a \in Addresses, NEW data \in Int
  PROVE  /\ write16(n, a, data) \in Machines
         /\ write16(n, a, data).PC = n.PC
         /\ StoresOK(n, write16(n, a, data))
<1>1. CASE writable(a, 2)
  <2> DEFINE S == {a, a + 1}
             f == [WithCells(n.RAM, S) EXCEPT ![a] = Word(data) \div 256, ![a + 1] = Byte(data)]
  <2>1. write16(n, a, data) = [n EXCEPT !.RAM = f]
    BY <1>1 DEF write16
  <2>2. Byte(data) \in Octets /\ Word(data) \div 256 \in Octets /\ n.RAM \in Memories
    <3>1. PICK w \in Addresses : w = Word(data)
      BY Words
    <3>2. w \div 256 \in Octets
      BY Ranges
    <3> QED BY <3>1, <3>2, Words, MachineFields
  <2>3. a + 0 \in Permitted /\ a + 0 = a /\ a + 1 \in Permitted /\ a + 1 \in Addresses
    BY <1>1, WritableIsPermitted, Ranges
  <2>4. S \in SUBSET Addresses /\ S \subseteq Permitted
    BY <2>3
  <2>5. WithCells(n.RAM, S) \in [DOMAIN n.RAM \cup S -> Octets]
    BY <2>2, <2>4, MoreCells
  <2>6. /\ f \in [DOMAIN n.RAM \cup S -> Octets]
        /\ \A c \in DOMAIN n.RAM \cup S : c \notin S => f[c] = WithCells(n.RAM, S)[c]
    BY <2>2, <2>5
  <2> HIDE DEF f, S
  <2>7. /\ [n EXCEPT !.RAM = f] \in Machines
        /\ [n EXCEPT !.RAM = f].PC = n.PC
        /\ \A c : c \notin S => Cell([n EXCEPT !.RAM = f], c) = Cell(n, c)
    BY <2>4, <2>6, Stored
  <2> QED BY <2>1, <2>4, <2>7 DEF StoresOK
<1>2. CASE ~writable(a, 2)
  <2>1. write16(n, a, data) = n
    BY <1>2 DEF write16
  <2> QED BY <2>1 DEF StoresOK
<1> QED BY <1>1, <1>2

(* Instructions are fetched from multiples of 4 from now on, too. *)
Keeps(n, p) == n.PC % 4 = 0 => p.PC % 4 = 0

StepOK(n, p) == p \in Machines /\ StoresOK(n, p) /\ Keeps(n, p)

LEMMA Nopped ==
  ASSUME NEW n \in Machines, NEW p \in Machines, StoresOK(n, p), p.PC = n.PC
  PROVE  StepOK(n, NOP(p))
<1>1. p.PC + 4 \in Int
  BY MachineFields
<1>2. /\ NOP(p) \in Machines
      /\ NOP(p).RAM = p.RAM
      /\ NOP(p).PC % 4 = (p.PC + 4) % 4
  BY <1>1, Gone DEF NOP
<1>3. StoresOK(n, NOP(p))
  BY <1>2 DEF StoresOK, Cell
<1>4. Keeps(n, NOP(p))
  <2>1. PICK x \in Int : x = n.PC
    BY MachineFields
  <2>2. x % 4 = 0 => (x + 4) % 4 = 0
    BY <2>1
  <2> QED BY <1>2, <2>1, <2>2 DEF Keeps
<1> QED BY <1>2, <1>3, <1>4 DEF StepOK

LEMMA Computed ==
  ASSUME NEW n \in Machines, NEW r \in 0 .. 31, NEW x \in Values
  PROVE  StepOK(n, NOP(SetReg(n, r, x)))
BY RegisterSet, Nopped

LEMMA Jumped ==
  ASSUME NEW n \in Machines, NEW p \in Machines, p.RAM = n.RAM, NEW pc \in Int,
         n.PC % 4 = 0 => pc % 4 = 0
  PROVE  StepOK(n, Goto(p, pc))
<1>1. Goto(p, pc) \in Machines /\ Goto(p, pc).RAM = p.RAM /\ Goto(p, pc).PC % 4 = pc % 4
  BY Gone
<1> QED BY <1>1 DEF StepOK, StoresOK, Cell, Keeps

LEMMA Called ==
  ASSUME NEW n \in Machines, NEW x \in Int
  PROVE  StepOK(n, JAL(n, x)) /\ JAL(n, x).RAM = n.RAM /\ JAL(n, x).PC % 4 = 0
<1>1. n.PC + 4 \in Int /\ 31 \in 0 .. 31 /\ 4 * x \in Int /\ (4 * x) % 4 = 0
  BY MachineFields
<1>2. Int16(n.PC + 4) \in Values
  BY <1>1, Words
<1> DEFINE p == SetReg(n, 31, Int16(n.PC + 4))
<1>3. p \in Machines /\ p.RAM = n.RAM
  BY <1>1, <1>2, RegisterSet
<1>4. JAL(n, x) = Goto(p, 4 * x)
  BY DEF JAL
<1> HIDE DEF p
<1> QED BY <1>1, <1>3, <1>4, Jumped, Gone

LEMMA Branched ==
  ASSUME NEW n \in Machines, NEW i, i.immediate \in Int, NEW taken \in BOOLEAN
  PROVE  StepOK(n, Branch(n, i, taken))
<1>1. PICK x \in Int, y \in Int : x = n.PC /\ y = i.immediate
  BY MachineFields
<1> DEFINE pc == x + 4 + IF taken THEN 4 * y ELSE 0
<1>2. pc \in Int /\ (x % 4 = 0 => pc % 4 = 0)
  OBVIOUS
<1>3. Branch(n, i, taken) = Goto(n, pc)
  BY <1>1 DEF Branch
<1> HIDE DEF pc
<1> QED BY <1>1, <1>2, <1>3, Jumped

(* What DecodeInstruction returns. *)
Instruction(i) ==
  /\ i.a \in 0 .. 31 /\ i.b \in 0 .. 31 /\ i.c \in 0 .. 31 /\ i.shift \in 0 .. 31
  /\ i.immediate \in Values /\ i.immediate \in Int

LEMMA RegistersRead ==
  ASSUME NEW n \in Machines, NEW i, Instruction(i)
  PROVE  /\ n.reg[i.a] \in Values /\ n.reg[i.a] \in Int
         /\ n.reg[i.b] \in Values /\ n.reg[i.b] \in Int
         /\ Address(n, i) \in Int /\ Word(Address(n, i)) \in Addresses
<1>1. /\ n.reg[i.a] \in Values /\ n.reg[i.a] \in Int
      /\ n.reg[i.b] \in Values /\ n.reg[i.b] \in Int
  <2>1. i.a \in 0 .. 31 /\ i.b \in 0 .. 31
    BY Zenon DEF Instruction
  <2>2. n.reg[i.a] \in Values /\ n.reg[i.b] \in Values
    BY <2>1, MachineFields, Zenon
  <2> QED BY <2>2, Ranges
<1>2. Address(n, i) \in Int
  BY <1>1 DEF Address, Instruction
<1> QED BY <1>1, <1>2, Words

LEMMA RType ==
  ASSUME NEW n \in Machines, NEW i, Instruction(i)
  PROVE  /\ ExecuteRType(n, i) \in Machines
         /\ StoresOK(n, ExecuteRType(n, i))
         /\ i.function # kJR => Keeps(n, ExecuteRType(n, i))
<1>1. n.reg[i.a] \in Values /\ n.reg[i.a] \in Int /\ n.reg[i.b] \in Values
  BY RegistersRead
<1>2. CASE i.function = kJR
  <2>1. kJR \notin Results
    BY DEF kJR, Results, kSUB, kADD, kSRL, kSRA, kSLL, kAND, kOR, kNOR, kSLT
  <2>2. ExecuteRType(n, i) = Goto(n, n.reg[i.a])
    BY <1>2, <2>1 DEF ExecuteRType
  <2> QED BY <1>1, <1>2, <2>2, Gone
<1>3. CASE i.function # kJR /\ i.function \in Results
  <2>1. PICK x \in Values : x = Result(i.function, n.reg[i.a], n.reg[i.b], i.shift)
    BY <1>1, <1>3, Results_ DEF Instruction
  <2>2. ExecuteRType(n, i) = NOP(SetReg(n, i.c, x))
    BY <1>3, <2>1 DEF ExecuteRType
  <2> QED BY <2>2, Computed DEF StepOK, Instruction
<1>4. CASE i.function # kJR /\ i.function \notin Results
  <2>1. ExecuteRType(n, i) = NOP(n)
    BY <1>4 DEF ExecuteRType
  <2>2. StoresOK(n, n)
    BY DEF StoresOK
  <2> QED BY <2>1, <2>2, Nopped DEF StepOK
<1> QED BY <1>2, <1>3, <1>4

LEMMA StoredByte ==
  ASSUME NEW n \in Machines, NEW i, Instruction(i)
  PROVE  StepOK(n, SB(n, i))
<1> DEFINE stored == NOP(write8(n, Word(Address(n, i)), n.reg[i.b]))
<1>1. n.reg[i.b] \in Int /\ Address(n, i) \in Int /\ Word(Address(n, i)) \in Addresses
  BY RegistersRead
<1>2. StepOK(n, stored)
  BY <1>1, Written8, Nopped
<1>3. PICK x \in Octets : x = Byte(n.reg[i.b])
  BY <1>1, Words
<1>4. PICK s \in Machines : s = stored
  BY <1>2 DEF StepOK
<1>5. PICK a \in Int : a = Address(n, i)
  BY <1>1
<1>6. SB(n, i) \in {s, [s EXCEPT !.out = Append(@, <<a, x>>)], [s EXCEPT !.exited = TRUE]}
  BY <1>3, <1>4, <1>5 DEF SB
<1> HIDE DEF stored
<1>7. Append(s.out, <<a, x>>) \in Seq(Int \X Octets)
  BY MachineFields
<1>8. /\ SB(n, i) \in Machines
      /\ SB(n, i).RAM = s.RAM
      /\ SB(n, i).PC = s.PC
  BY <1>6, <1>7 DEF Machines
<1> QED BY <1>2, <1>4, <1>8 DEF StepOK, StoresOK, Cell, Keeps

LEMMA BytesRead ==
  ASSUME NEW n \in Machines, NEW a \in Addresses
  PROVE  read8(n, a) \in Values /\ Int16(read16(n, a)) \in Values
<1>1. PICK x \in Octets, y \in Octets : x = Cell(n, a) /\ y = Cell(n, a + 1)
  BY CellIsOctet
<1>2. 0 \in Values /\ x \in Values /\ 256 * x + y \in Int /\ 0 \in Int
  BY Ranges
<1>3. Int16(256 * x + y) \in Values /\ Int16(0) \in Values
  BY <1>2, Words
<1> QED BY <1>1, <1>2, <1>3 DEF read8, read16

LEMMA ByteLoaded ==
  ASSUME NEW n \in Machines, NEW i, Instruction(i), NEW typed, typed \subseteq Octets,
         NEW p \in LBU(n, i, typed)
  PROVE  StepOK(n, p)
<1>1. PICK x \in Values : p = NOP(SetReg(n, i.b, x))
  <2>1. typed \subseteq Values
    BY Ranges
  <2>2. read8(n, Word(Address(n, i))) \in Values
    BY RegistersRead, BytesRead
  <2> QED BY <2>1, <2>2 DEF LBU
<1>2. i.b \in 0 .. 31
  BY Zenon DEF Instruction
<1> QED BY <1>1, <1>2, Computed

(* One instruction: it stores only where it may, and only a JR may leave    *)
(* the multiples of 4.                                                      *)
LEMMA Executed ==
  ASSUME NEW n \in Machines, NEW typed, typed \subseteq Octets,
         NEW p \in ExecuteInstruction(n, typed)
  PROVE  /\ p \in Machines
         /\ StoresOK(n, p)
         /\ \/ Keeps(n, p)
            \/ LET i == DecodeInstruction(n) IN i.op = kFUNC /\ i.function = kJR
<1> DEFINE i == DecodeInstruction(n)
<1>1. Instruction(i)
  BY Decoded DEF Instruction
<1>2. PICK a, b : a = n.reg[i.a] /\ b = n.reg[i.b]
  OBVIOUS
<1>3. /\ a \in Int /\ b \in Int
      /\ Word(Address(n, i)) \in Addresses
      /\ i.b \in 0 .. 31
      /\ i.immediate \in Int
  BY <1>1, <1>2, RegistersRead DEF Instruction
<1>4. PICK op : op = i.op
  OBVIOUS
<1>5. /\ op = kFUNC => p = ExecuteRType(n, i)
      /\ op = kBEQ => p = Branch(n, i, a = b)
      /\ op = kBNE => p = Branch(n, i, a # b)
      /\ op = kJ => p = Goto(n, 4 * i.immediate)
      /\ op = kJAL => p = JAL(n, i.immediate)
      /\ op = kADDI => p = NOP(SetReg(n, i.b, Int16(a + i.immediate)))
      /\ op = kSB => p = SB(n, i)
      /\ op = kSW => p = NOP(write16(n, Word(Address(n, i)), b))
      /\ op = kLBU => p \in LBU(n, i, typed)
      /\ op = kLW => p = NOP(SetReg(n, i.b, Int16(read16(n, Word(Address(n, i))))))
      /\ op \notin {kFUNC, kBEQ, kBNE, kJ, kJAL, kADDI, kSB, kSW, kLBU, kLW} => p = NOP(n)
  BY <1>2, <1>4
     DEF ExecuteInstruction, kFUNC, kBEQ, kBNE, kJ, kJAL, kADDI, kSB, kSW, kLBU, kLW
<1> HIDE DEF i
<1>6. CASE op = kFUNC
  BY <1>1, <1>4, <1>5, <1>6, RType DEF i
<1>7. CASE op = kBEQ
  BY <1>3, <1>5, <1>7, Branched DEF StepOK
<1>8. CASE op = kBNE
  BY <1>3, <1>5, <1>8, Branched DEF StepOK
<1>9. CASE op = kJ
  <2>1. 4 * i.immediate \in Int /\ (4 * i.immediate) % 4 = 0
    BY <1>3
  <2> QED BY <1>5, <1>9, <2>1, Jumped DEF StepOK
<1>10. CASE op = kJAL
  BY <1>3, <1>5, <1>10, Called DEF StepOK
<1>11. CASE op = kADDI
  <2>1. Int16(a + i.immediate) \in Values
    BY <1>3, Words
  <2> QED BY <1>3, <1>5, <1>11, <2>1, Computed DEF StepOK
<1>12. CASE op = kSB
  BY <1>1, <1>5, <1>12, StoredByte DEF StepOK
<1>13. CASE op = kSW
  BY <1>3, <1>5, <1>13, Written16, Nopped DEF StepOK
<1>14. CASE op = kLBU
  BY <1>1, <1>5, <1>14, ByteLoaded DEF StepOK
<1>15. CASE op = kLW
  BY <1>3, <1>5, <1>15, BytesRead, Computed DEF StepOK
<1>16. CASE op \notin {kFUNC, kBEQ, kBNE, kJ, kJAL, kADDI, kSB, kSW, kLBU, kLW}
  BY <1>5, <1>16, Nopped DEF StepOK, StoresOK
<1> QED BY <1>6, <1>7, <1>8, <1>9, <1>10, <1>11, <1>12, <1>13, <1>14, <1>15, <1>16

----------------------------------------------------------------------------
(* The bits of the controller *)

Has(x, p) == (x \div p) % 2

(* x and y have the same bits, the one of the power p excepted. *)
Agree(x, y, p) ==
  /\ p # 1 => Has(x, 1) = Has(y, 1)
  /\ p # 2 => Has(x, 2) = Has(y, 2)
  /\ p # 4 => Has(x, 4) = Has(y, 4)
  /\ p # 8 => Has(x, 8) = Has(y, 8)
  /\ p # 16 => Has(x, 16) = Has(y, 16)
  /\ p # 32 => Has(x, 32) = Has(y, 32)
  /\ p # 64 => Has(x, 64) = Has(y, 64)
  /\ p # 128 => Has(x, 128) = Has(y, 128)

Sets(x, p) == Has(x, p) = 0 => x + p <= 255 /\ Has(x + p, p) = 1 /\ Agree(x, x + p, p)
Clears(x, p) == Has(x, p) = 1 => x - p >= 0 /\ Has(x - p, p) = 0 /\ Agree(x, x - p, p)

LEMMA PowerFlips ==
  ASSUME NEW x \in Int, 0 <= x, x <= 255, NEW p \in {1, 2, 4, 8, 16, 32, 64, 128}
  PROVE  Sets(x, p) /\ Clears(x, p)
<1>1. Sets(x, 1) /\ Clears(x, 1)
  BY SMTT(120) DEF Sets, Clears, Has, Agree
<1>2. Sets(x, 2) /\ Clears(x, 2)
  BY SMTT(120) DEF Sets, Clears, Has, Agree
<1>3. Sets(x, 4) /\ Clears(x, 4)
  BY DEF Sets, Clears, Has, Agree
<1>4. Sets(x, 8) /\ Clears(x, 8)
  BY DEF Sets, Clears, Has, Agree
<1>5. Sets(x, 16) /\ Clears(x, 16)
  BY DEF Sets, Clears, Has, Agree
<1>6. Sets(x, 32) /\ Clears(x, 32)
  BY DEF Sets, Clears, Has, Agree
<1>7. Sets(x, 64) /\ Clears(x, 64)
  BY DEF Sets, Clears, Has, Agree
<1>8. Sets(x, 128) /\ Clears(x, 128)
  BY DEF Sets, Clears, Has, Agree
<1> QED BY <1>1, <1>2, <1>3, <1>4, <1>5, <1>6, <1>7, <1>8

(* p is the b-th power of 2. *)
IsPower(b, p) ==
  /\ (b = 0 => p = 1) /\ (b = 1 => p = 2) /\ (b = 2 => p = 4) /\ (b = 3 => p = 8)
  /\ (b = 4 => p = 16) /\ (b = 5 => p = 32) /\ (b = 6 => p = 64) /\ (b = 7 => p = 128)

LEMMA SmallPowers ==
  ASSUME NEW b, NEW p, p = 2^b
  PROVE  IsPower(b, p)
<1>1. /\ 2^0 = 1 /\ 2^1 = 2 /\ 2^2 = 4 /\ 2^3 = 8
      /\ 2^4 = 16 /\ 2^5 = 32 /\ 2^6 = 64 /\ 2^7 = 128
  OBVIOUS
<1> QED BY <1>1, Zenon DEF IsPower

LEMMA BitHas ==
  ASSUME NEW x \in Octets, NEW b \in 0 .. 7
  PROVE  Bit(x, b) = Has(x, 2^b) /\ Bit(x, b) \in {0, 1}
<1>1. Word(x) = x /\ x \in Int
  BY Ranges DEF Word
<1>2. PICK p \in Nat \ {0} : p = 2^b
  <2>1. b \in 0 .. 31
    OBVIOUS
  <2>2. 2^b \in Nat \ {0}
    BY <2>1, PowersPositive
  <2> QED BY <2>2
<1>3. (x \div p) % 2 \in {0, 1}
  BY <1>1, <1>2
<1> QED BY <1>1, <1>2, <1>3 DEF Bit, Has

(* y has the bits of x, but v for its bit b. *)
Flipped(x, y, b, v) == \A c \in 0 .. 7 : Bit(y, c) = IF c = b THEN v ELSE Bit(x, c)

LEMMA BitFlips ==
  ASSUME NEW x \in Octets, NEW b \in 0 .. 7
  PROVE  /\ Bit(x, b) = 0 => x + 2^b \in Octets /\ Flipped(x, x + 2^b, b, 1)
         /\ Bit(x, b) = 1 => x - 2^b \in Octets /\ Flipped(x, x - 2^b, b, 0)
<1>1. PICK p : p = 2^b
  OBVIOUS
<1>2. p \in {1, 2, 4, 8, 16, 32, 64, 128}
  <2>1. IsPower(b, p)
    BY <1>1, SmallPowers, Zenon
  <2> QED BY <2>1 DEF IsPower
<1>3. x \in Int /\ 0 <= x /\ x <= 255 /\ p \in Int /\ p > 0
  BY <1>2, Ranges
<1>4. Bit(x, b) = Has(x, p)
  BY <1>1, BitHas
<1>5. Sets(x, p) /\ Clears(x, p)
  BY <1>2, <1>3, PowerFlips
<1>6. Bit(x, b) = 0 => x + p \in Octets /\ Has(x + p, p) = 1 /\ Agree(x, x + p, p)
  BY <1>3, <1>4, <1>5, Ranges DEF Sets
<1>7. Bit(x, b) = 1 => x - p \in Octets /\ Has(x - p, p) = 0 /\ Agree(x, x - p, p)
  BY <1>3, <1>4, <1>5, Ranges DEF Clears
<1>8. ASSUME NEW y \in Octets, Agree(x, y, p) PROVE Flipped(x, y, b, Has(y, p))
  <2> SUFFICES ASSUME NEW c \in 0 .. 7
               PROVE  Bit(y, c) = IF c = b THEN Has(y, p) ELSE Bit(x, c)
    BY DEF Flipped
  <2>1. PICK q : q = 2^c
    OBVIOUS
  <2>2. IsPower(b, p) /\ IsPower(c, q)
    BY <1>1, <2>1, SmallPowers, Zenon
  <2>3. q \in {1, 2, 4, 8, 16, 32, 64, 128}
    BY <2>2 DEF IsPower
  <2>4. q \in Int
    BY <2>3
  <2>5. c = b => q = p
    BY <1>1, <2>1
  <2>6. c # b => q # p
    BY <1>3, <2>2, <2>4 DEF IsPower
  <2>7. Bit(y, c) = Has(y, q) /\ Bit(x, c) = Has(x, q)
    BY <2>1, BitHas
  <2>8. q # p => Has(y, q) = Has(x, q)
    BY <1>8, <2>3 DEF Agree
  <2> QED BY <2>5, <2>6, <2>7, <2>8
<1>9. Bit(x, b) = 0 => Flipped(x, x + p, b, 1)
  BY <1>6, <1>8
<1>10. Bit(x, b) = 1 => Flipped(x, x - p, b, 0)
  BY <1>7, <1>8
<1> QED BY <1>1, <1>6, <1>7, <1>9, <1>10, Zenon

----------------------------------------------------------------------------
(* The invariant *)

Registers == [0 .. 31 -> Values]

LowCells == 0 .. kControllerDataAddress - 1
HighCells == kControllerDataAddress .. 65535

Lows == {f \in Memories : DOMAIN f \subseteq LowCells}
Highs == {f \in Memories : DOMAIN f \subseteq HighCells}

States == [PC : {0}, reg : [0 .. 31 -> Values], filters : SUBSET Filters,
           low : Lows, high : Highs, paused : BOOLEAN]

Types ==
  /\ m \in Machines
  /\ filters \subseteq Filters /\ paused \in BOOLEAN
  /\ held \subseteq 0 .. 7
  /\ phase \in {"setup", "poll", "loop", "ended", "exited", "killed", "undefined"}
  /\ \E s \in Sessions : slug = s.slug

(* A file of a slot is what was saved there, and it was saved in the frame  *)
(* loop, where PC_ is 0.                                                    *)
Files ==
  /\ DOMAIN slots = DOMAIN shadow
  /\ \A s \in DOMAIN slots : /\ shadow[s] \in States
                             /\ slots[s].state = Saved(shadow[s])
                             /\ slots[s].written \in 0 .. 6

Loads ==
  /\ loaded \subseteq DOMAIN slots
  /\ Running => loaded = {}

IInv == Types /\ Files /\ Loads /\ LoadRestores

----------------------------------------------------------------------------
(* Calls and resets *)

LEMMA CallMade ==
  ASSUME NEW n \in Machines, NEW entry
  PROVE  /\ Call(n, entry) \in Machines
         /\ Call(n, entry).RAM = n.RAM
         /\ Call(n, entry).PC % 4 = 0
<1> DEFINE p == [n EXCEPT !.PC = 65532]
<1>1. PICK pc \in Addresses : pc = 65532
  BY Ranges
<1>2. [n EXCEPT !.PC = pc] \in Machines /\ [n EXCEPT !.PC = pc].RAM = n.RAM
  BY DEF Machines
<1> HIDE DEF p
<1>3. PICK x \in Octets, y \in Octets, z \in Octets :
        x = Cell(n, entry + 1) /\ y = Cell(n, entry + 2) /\ z = Cell(n, entry + 3)
  BY CellIsOctet
<1>4. 64 * (256 * x + y) + (z \div 4) \in Int
  BY Ranges
<1>5. ReadEntry(n, entry) \in Int
  BY <1>3, <1>4, Words, Ranges DEF ReadEntry
<1>6. Call(n, entry) = JAL(p, ReadEntry(n, entry)) /\ p = [n EXCEPT !.PC = pc]
  BY <1>1 DEF Call, p
<1> QED BY <1>2, <1>5, <1>6, Called DEF StepOK

LEMMA SlugIsMemory ==
  ASSUME NEW s \in Sessions
  PROVE  /\ s.slug \in Memories
         /\ kControllerDataAddress \notin DOMAIN s.slug
<1>1. DOMAIN s.slug \subseteq kSLUGFileAddress .. 65535 /\ s.slug \in [DOMAIN s.slug -> Octets]
  BY ConsoleAssumption
<1>2. kSLUGFileAddress \in Int
  BY DEF kSLUGFileAddress
<1>3. \A a \in DOMAIN s.slug : a \in Int /\ kSLUGFileAddress <= a /\ a <= 65535
  BY <1>1, <1>2
<1>4. DOMAIN s.slug \in SUBSET Addresses
  BY <1>3, Borders, Ranges
<1>5. kControllerDataAddress \notin DOMAIN s.slug
  BY <1>3, Borders
<1> QED BY <1>1, <1>4, <1>5, FunctionIsMemory

(* The program's data ends before the cell of the controller. *)
DataFits(contents) == ReadWord([RAM |-> contents], kDataSizeAddress) <= kRAMSize

LEMMA ResetMachine ==
  ASSUME NEW s \in Sessions
  PROVE  /\ Reset(s.slug) \in Machines
         /\ Reset(s.slug).PC % 4 = 0
         /\ DataFits(s.slug) => Cell(Reset(s.slug), kControllerDataAddress) = 0
<1> DEFINE n == [PC |-> 0, reg |-> [r \in 0 .. 31 |-> IF r = 29 THEN kVRAMAddress ELSE 0],
                 RAM |-> s.slug, out |-> << >>, exited |-> FALSE]
           size == ReadWord(n, kDataSizeAddress)
           data == [a \in 0 .. size - 1 |-> Cell(n, ReadWord(n, kLoadDataAddress) + a)]
           p == [n EXCEPT !.RAM = Over(data, s.slug)]
<1>1. s.slug \in Memories /\ kControllerDataAddress \notin DOMAIN s.slug
  BY SlugIsMemory
<1>2. n \in Machines
  <2>1. 0 \in Addresses /\ 0 \in Values /\ kVRAMAddress \in Values
    BY Ranges, Borders
  <2>2. [r \in 0 .. 31 |-> IF r = 29 THEN kVRAMAddress ELSE 0] \in [0 .. 31 -> Values]
    BY <2>1
  <2>3. << >> \in Seq(Int \X Octets)
    OBVIOUS
  <2> QED BY <1>1, <2>1, <2>2, <2>3 DEF Machines
<1>3. n.RAM = s.slug
  OBVIOUS
<1>4. size \in Int /\ 0 <= size /\ size <= 65535
  <2>1. PICK x \in Octets, y \in Octets :
          x = Cell(n, kDataSizeAddress + 2) /\ y = Cell(n, kDataSizeAddress + 3)
    BY <1>2, CellIsOctet
  <2>2. 256 * x + y \in Int /\ 0 <= 256 * x + y /\ 256 * x + y <= 65535
    BY Ranges
  <2> QED BY <2>1, <2>2 DEF ReadWord
<1>5. DataFits(s.slug) => size <= kRAMSize
  BY <1>3 DEF DataFits, ReadWord, Cell
<1> HIDE DEF n, size
<1>6. data \in Memories /\ DOMAIN data = 0 .. size - 1
  <2>1. 0 .. size - 1 \in SUBSET Addresses
    BY <1>4, Ranges
  <2>2. data \in [0 .. size - 1 -> Octets]
    BY <1>2, CellIsOctet
  <2> QED BY <2>1, <2>2, FunctionIsMemory
<1>7. p = WithData(n)
  BY <1>3 DEF WithData, size
<1> HIDE DEF data
<1>8. p \in Machines /\ p.RAM = Over(data, s.slug)
  <2>1. Over(data, s.slug) \in Memories
    BY <1>1, <1>6, StoredOver
  <2> QED BY <1>2, <2>1 DEF Machines
<1>9. DataFits(s.slug) => kControllerDataAddress \notin DOMAIN Over(data, s.slug)
  <2>1. DataFits(s.slug) => kControllerDataAddress \notin DOMAIN data
    BY <1>4, <1>5, <1>6, Borders
  <2> QED BY <1>1, <2>1 DEF Over
<1>10. Reset(s.slug) = Call(p, kSetupAddress)
  BY <1>7 DEF Reset, n
<1> HIDE DEF p
<1>11. Reset(s.slug) \in Machines /\ Reset(s.slug).PC % 4 = 0 /\ Reset(s.slug).RAM = p.RAM
  BY <1>8, <1>10, CallMade
<1> QED BY <1>8, <1>9, <1>11 DEF Cell

----------------------------------------------------------------------------
(* Saved states *)

FieldNames == {"PC", "reg", "filters", "low", "high", "paused"}

LEMMA NamesOfFields ==
  /\ Len(Fields) = 6
  /\ \A i \in 1 .. 6 : Fields[i] \in FieldNames
BY DEF Fields, FieldNames

LEMMA CellsRestrict ==
  ASSUME m \in Machines
  PROVE  /\ Cells(0, kControllerDataAddress - 1) \in Lows
         /\ Cells(kControllerDataAddress, 65535) \in Highs
<1>1. \A S : [a \in {c \in DOMAIN m.RAM : c \in S} |-> m.RAM[a]] \in {f \in Memories : DOMAIN f \subseteq S}
  <2> TAKE S
  <2> DEFINE D == {c \in DOMAIN m.RAM : c \in S}
             f == [a \in D |-> m.RAM[a]]
  <2>1. m.RAM \in Memories
    BY MachineFields
  <2>2. D \in SUBSET Addresses /\ f \in [D -> Octets] /\ D \subseteq S
    BY <2>1, MemoryIsFunction
  <2>3. f \in Memories /\ DOMAIN f = D
    BY <2>2, FunctionIsMemory
  <2> QED BY <2>2, <2>3
<1> QED BY <1>1 DEF Cells, Lows, Highs, LowCells, HighCells

LEMMA StateTyped ==
  ASSUME m \in Machines, m.PC = 0, paused \in BOOLEAN, NEW on \in SUBSET Filters
  PROVE  State(on) \in States
<1>1. m.reg \in [0 .. 31 -> Values]
  BY MachineFields
<1> QED BY <1>1, CellsRestrict DEF State, States

LEMMA SavedTyped ==
  ASSUME NEW st \in States
  PROVE  /\ Saved(st) \in States
         /\ Saved(st).filters = st.filters \ {"image"}
         /\ DOMAIN Saved(st) = FieldNames
         /\ \A f \in FieldNames : f # "filters" => Saved(st)[f] = st[f]
BY DEF Saved, States, FieldNames

(* M is what a load of the slot s reads, where st was saved there. *)
ReadFrom(M, s, st, on) ==
  /\ M.PC = 0 /\ M.reg \in Registers /\ M.low \in Lows /\ M.high \in Highs
  /\ M.filters \in SUBSET Filters /\ "image" \notin M.filters
  /\ M.paused \in BOOLEAN
  /\ \A f \in Loaded(s) \cap FieldNames : M[f] = Saved(st)[f]
  /\ "high" \notin Loaded(s) => M.high = State(on).high

LEMMA MergedTyped ==
  ASSUME m \in Machines, m.PC = 0, paused \in BOOLEAN, NEW on \in SUBSET Filters,
         NEW s, NEW st \in States, slots[s].state = Saved(st)
  PROVE  ReadFrom(Merged(s, on), s, st, on)
<1> DEFINE M == Merged(s, on)
<1>1. PICK x \in States : x = State(on)
  BY StateTyped
<1>2. \A f \in FieldNames : M[f] = IF f \in Loaded(s) THEN Saved(st)[f] ELSE Saved(x)[f]
  BY <1>1, SavedTyped DEF Merged
<1> HIDE DEF M
<1>3. \A f \in FieldNames : M[f] \in {Saved(st)[f], Saved(x)[f]}
  BY <1>2
<1>4. \A y \in States : /\ Saved(y).PC = 0 /\ Saved(y).reg \in [0 .. 31 -> Values]
                        /\ Saved(y).low \in Lows /\ Saved(y).high \in Highs
                        /\ Saved(y).filters \in SUBSET Filters
                        /\ "image" \notin Saved(y).filters
                        /\ Saved(y).paused \in BOOLEAN
                        /\ Saved(y).high = y.high
  <2> TAKE y \in States
  <2>1. PICK z \in States : z = Saved(y) /\ "image" \notin z.filters /\ z.high = y.high
    BY SavedTyped DEF FieldNames
  <2> QED BY <2>1 DEF States
<1>5. {"PC", "reg", "filters", "low", "high", "paused"} \subseteq FieldNames
  BY DEF FieldNames
<1> HIDE DEF FieldNames
<1>6. /\ M["PC"] \in {Saved(st)["PC"], Saved(x)["PC"]}
      /\ M["reg"] \in {Saved(st)["reg"], Saved(x)["reg"]}
      /\ M["filters"] \in {Saved(st)["filters"], Saved(x)["filters"]}
      /\ M["low"] \in {Saved(st)["low"], Saved(x)["low"]}
      /\ M["high"] \in {Saved(st)["high"], Saved(x)["high"]}
      /\ M["paused"] \in {Saved(st)["paused"], Saved(x)["paused"]}
      /\ "high" \notin Loaded(s) => M["high"] = Saved(x)["high"]
  BY <1>2, <1>3, <1>5
<1>7. \A f \in Loaded(s) \cap FieldNames : M[f] = Saved(st)[f]
  BY <1>2
<1>8. ReadFrom(M, s, st, on)
  BY <1>1, <1>4, <1>6, <1>7 DEF ReadFrom, Registers
<1> QED BY <1>8 DEF M

Part(ram, S) == [a \in {c \in DOMAIN ram : c \in S} |-> ram[a]]

(* The two halves of a memory come back from it. *)
LEMMA Halves ==
  ASSUME NEW low \in Lows, NEW high \in Highs
  PROVE  /\ Over(low, high) \in Memories
         /\ Part(Over(low, high), LowCells) = low
         /\ Part(Over(low, high), HighCells) = high
<1> DEFINE ram == Over(low, high)
           cells(S) == [a \in {c \in DOMAIN ram : c \in S} |-> ram[a]]
<1>1. kControllerDataAddress \in Int
  BY Borders
<1>2. LowCells \cap HighCells = {}
  BY <1>1 DEF LowCells, HighCells
<1>3. /\ low \in Memories /\ high \in Memories
      /\ DOMAIN low \subseteq LowCells /\ DOMAIN high \subseteq HighCells
  BY DEF Lows, Highs
<1>4. /\ low = [a \in DOMAIN low |-> low[a]]
      /\ high = [a \in DOMAIN high |-> high[a]]
  BY <1>3, MemoryIsFunction
<1>5. ram \in Memories
  BY <1>3, StoredOver
<1>6. /\ DOMAIN ram = DOMAIN low \cup DOMAIN high
      /\ \A a \in DOMAIN low : ram[a] = low[a]
      /\ \A a \in DOMAIN high : ram[a] = high[a]
  BY <1>2, <1>3 DEF Over
<1>7. {c \in DOMAIN ram : c \in LowCells} = DOMAIN low /\ {c \in DOMAIN ram : c \in HighCells} = DOMAIN high
  BY <1>2, <1>3, <1>6
<1>8. cells(LowCells) = low
  BY <1>4, <1>6, <1>7
<1>9. cells(HighCells) = high
  BY <1>4, <1>6, <1>7
<1> QED BY <1>5, <1>8, <1>9 DEF Part

----------------------------------------------------------------------------
(* The steps keep the invariant *)

LEMMA NothingLoaded ==
  ASSUME loaded' = {}, phase' = "poll" => m'.PC = 0
  PROVE  Loads' /\ LoadRestores'
BY DEF Loads, LoadRestores

LEMMA InitInv == Init => IInv
<1> SUFFICES ASSUME Init PROVE IInv
  OBVIOUS
<1>1. PICK s \in Sessions : slug = s.slug
  BY DEF Init
<1>2. m \in Machines
  BY <1>1, ResetMachine DEF Init
<1>3. Types
  BY <1>1, <1>2 DEF Init, Types
<1>4. Files
  BY DEF Init, Files
<1>5. Loads /\ LoadRestores
  BY DEF Init, Loads, LoadRestores
<1> QED BY <1>3, <1>4, <1>5 DEF IInv

LEMMA RestartStep == IInv /\ Restart => IInv'
<1> SUFFICES ASSUME IInv, Restart PROVE IInv'
  OBVIOUS
<1>1. PICK s \in Sessions : slug = s.slug
  BY DEF IInv, Types
<1>2. m' \in Machines
  BY <1>1, ResetMachine DEF Restart
<1>3. Types'
  BY <1>1, <1>2 DEF Restart, Types
<1>4. Files'
  BY DEF IInv, Restart, Files
<1>5. Loads' /\ LoadRestores'
  BY NothingLoaded DEF Restart
<1> QED BY <1>3, <1>4, <1>5 DEF IInv

LEMMA ExecuteStep == IInv /\ Execute => IInv'
<1> SUFFICES ASSUME IInv, Execute PROVE IInv'
  OBVIOUS
<1>1. m' \in Machines
  BY ConsoleAssumption, Executed DEF IInv, Types, Execute
<1>2. phase \in {"setup", "loop"} /\ phase' \in {phase, "exited"} /\ loaded' = {}
  BY DEF IInv, Loads, Execute, Running
<1>3. Types'
  BY <1>1, <1>2 DEF IInv, Types, Execute, session, settings
<1>4. Files'
  BY DEF IInv, Files, Execute, settings
<1>5. Loads' /\ LoadRestores'
  BY <1>2, NothingLoaded
<1> QED BY <1>3, <1>4, <1>5 DEF IInv

LEMMA UndefinedStep == IInv /\ Undefined => IInv'
<1> SUFFICES ASSUME IInv, Undefined PROVE IInv'
  OBVIOUS
<1>1. loaded' = {} /\ phase' = "undefined"
  BY DEF IInv, Loads, Undefined, history
<1>2. Types' /\ Files'
  BY <1>1 DEF IInv, Types, Files, Undefined, session, settings, history
<1>3. Loads' /\ LoadRestores'
  BY <1>1, NothingLoaded
<1> QED BY <1>2, <1>3 DEF IInv

LEMMA ReturnStep == IInv /\ Return => IInv'
<1> SUFFICES ASSUME IInv, Return PROVE IInv'
  OBVIOUS
<1>1. m' \in Machines /\ m'.PC = m.PC
  <2>1. kVRAMAddress \in Values /\ 29 \in 0 .. 31
    BY Borders, Ranges
  <2> QED BY <2>1, RegisterSet DEF IInv, Types, Return
<1>2. loaded' = {}
  BY DEF IInv, Loads, Return, history
<1>3. phase' \in {"poll", "ended"} /\ (phase' = "poll" => m'.PC = 0)
  BY <1>1 DEF Return
<1>4. Types'
  BY <1>1, <1>3 DEF IInv, Types, Return, session, settings, history
<1>5. Files'
  BY DEF IInv, Files, Return, settings, history
<1>6. Loads' /\ LoadRestores'
  BY <1>2, <1>3, NothingLoaded
<1> QED BY <1>4, <1>5, <1>6 DEF IInv

LEMMA ControllerSet ==
  ASSUME m \in Machines, NEW x \in Octets, SetController(x)
  PROVE  /\ m' \in Machines /\ m'.PC = m.PC
         /\ Cell(m', kControllerDataAddress) = x
<1> DEFINE S == {kControllerDataAddress}
           f == [WithCells(m.RAM, S) EXCEPT ![kControllerDataAddress] = x]
<1>1. m' = [m EXCEPT !.RAM = f]
  BY DEF SetController
<1>2. S \in SUBSET Addresses /\ m.RAM \in Memories
  <2>1. kControllerDataAddress \in Addresses
    BY Borders, Ranges
  <2> QED BY <2>1, MachineFields
<1>3. WithCells(m.RAM, S) \in [DOMAIN m.RAM \cup S -> Octets]
  BY <1>2, MoreCells
<1>4. /\ f \in [DOMAIN m.RAM \cup S -> Octets]
      /\ \A c \in DOMAIN m.RAM \cup S : c \notin S => f[c] = WithCells(m.RAM, S)[c]
      /\ kControllerDataAddress \in DOMAIN f /\ f[kControllerDataAddress] = x
  <2>1. PICK g \in [DOMAIN m.RAM \cup S -> Octets] : g = WithCells(m.RAM, S)
    BY <1>3
  <2> QED BY <2>1
<1> HIDE DEF f, S
<1>5. m' \in Machines /\ m'.PC = m.PC
  BY <1>1, <1>2, <1>4, Stored
<1>6. m'.RAM = f
  BY <1>1 DEF Machines
<1> QED BY <1>4, <1>5, <1>6 DEF Cell

(* What Press and Release do to the controller. *)
LEMMA ButtonMachine ==
  ASSUME m \in Machines, NEW b \in 0 .. 7, NEW v \in {0, 1},
         IF v = 1 THEN Press(b) ELSE Release(b)
  PROVE  /\ m' \in Machines /\ m'.PC = m.PC
         /\ \A c \in 0 .. 7 : Bit(Cell(m', kControllerDataAddress), c)
                              = IF c = b THEN v ELSE Bit(Controller, c)
<1>1. PICK x \in Octets : x = Controller
  BY CellIsOctet DEF Controller
<1>2. Bit(x, b) \in {0, 1}
  BY BitHas
<1>3. PICK y : /\ SetController(y)
               /\ y = IF Bit(x, b) = v THEN x ELSE IF v = 1 THEN x + 2^b ELSE x - 2^b
  BY <1>1, <1>2 DEF Press, Release
<1>4. CASE Bit(x, b) = v
  <2>1. y = x
    BY <1>3, <1>4
  <2> QED BY <1>1, <1>3, <1>4, <2>1, ControllerSet
<1>5. CASE Bit(x, b) # v /\ v = 1
  <2>1. y = x + 2^b /\ Bit(x, b) = 0
    BY <1>2, <1>3, <1>5
  <2>2. y \in Octets
    BY <2>1, BitFlips
  <2>3. Flipped(x, y, b, v)
    BY <1>5, <2>1, BitFlips, Zenon
  <2> QED BY <1>1, <1>3, <2>2, <2>3, ControllerSet DEF Flipped
<1>6. CASE Bit(x, b) # v /\ v = 0
  <2>1. y = x - 2^b /\ Bit(x, b) = 1
    BY <1>2, <1>3, <1>6
  <2>2. y \in Octets
    BY <2>1, BitFlips
  <2>3. Flipped(x, y, b, v)
    BY <1>6, <2>1, BitFlips, Zenon
  <2> QED BY <1>1, <1>3, <2>2, <2>3, ControllerSet DEF Flipped
<1> QED BY <1>4, <1>5, <1>6

LEMMA ButtonStep == ASSUME NEW b \in Buttons PROVE IInv /\ Button(b) => IInv'
<1> SUFFICES ASSUME IInv, Button(b) PROVE IInv'
  OBVIOUS
<1>1. b \in 0 .. 7
  BY ConsoleAssumption
<1>2. Press(b) \/ Release(b)
  BY DEF Button
<1>3. m' \in Machines /\ m'.PC = m.PC
  BY <1>1, <1>2, ButtonMachine DEF IInv, Types
<1>4. held' \subseteq 0 .. 7
  BY <1>1 DEF IInv, Types, Button
<1>5. phase' = phase /\ loaded' = {} /\ slug' = slug /\ filters' = filters /\ paused' = paused
      /\ slots' = slots /\ shadow' = shadow
  BY DEF Button, Poll, settings
<1>6. Types'
  BY <1>3, <1>4, <1>5 DEF IInv, Types
<1>7. Files'
  BY <1>5 DEF IInv, Files
<1>8. Loads' /\ LoadRestores'
  BY <1>3, <1>5, NothingLoaded DEF IInv, LoadRestores
<1> QED BY <1>6, <1>7, <1>8 DEF IInv

LEMMA SwitchStep == IInv /\ Switch => IInv'
<1> SUFFICES ASSUME IInv, Switch PROVE IInv'
  OBVIOUS
<1>1. filters' \subseteq Filters /\ paused' \in BOOLEAN
  BY DEF IInv, Types, Switch, Toggle
<1>2. phase' = phase /\ m' = m /\ loaded' = {} /\ slug' = slug /\ held' = held
      /\ slots' = slots /\ shadow' = shadow
  BY DEF Switch, Poll
<1>3. Types'
  BY <1>1, <1>2 DEF IInv, Types
<1>4. Files'
  BY <1>2 DEF IInv, Files
<1>5. Loads' /\ LoadRestores'
  BY <1>2, NothingLoaded DEF IInv, LoadRestores
<1> QED BY <1>3, <1>4, <1>5 DEF IInv

LEMMA Toggled ==
  ASSUME filters \subseteq Filters, NEW s, NEW on \in AfterToggle(s)
  PROVE  on \subseteq Filters
BY DEF AfterToggle, Toggle, Filters

LEMMA SaveStep == ASSUME NEW s \in Slots PROVE IInv /\ saveState(s) => IInv'
<1> SUFFICES ASSUME IInv, saveState(s) PROVE IInv'
  OBVIOUS
<1>1. PICK on \in AfterToggle(s) :
        /\ filters' = on
        /\ NotOpened \/ \E written \in Cuts \cup {Len(Fields)} : Write(s, on, written)
  BY DEF saveState
<1>2. on \subseteq Filters
  BY Toggled DEF IInv, Types
<1>3. m \in Machines /\ m.PC = 0 /\ paused \in BOOLEAN
  BY DEF IInv, Types, LoadRestores, saveState, Poll
<1>4. PICK st \in States : st = State(on)
  BY <1>2, <1>3, StateTyped
<1>5. Cuts \cup {Len(Fields)} \subseteq 0 .. 6
  BY ConsoleAssumption, NamesOfFields
<1>6. m' = m /\ loaded' = {} /\ slug' = slug /\ held' = held /\ paused' = paused
  BY DEF saveState, Poll
<1>7. Types'
  <2>1. phase' \in {phase, "killed"}
    BY <1>1 DEF NotOpened, Write
  <2> QED BY <1>1, <1>2, <1>6, <2>1 DEF IInv, Types
<1>8. Files'
  <2>1. CASE NotOpened
    BY <2>1 DEF IInv, Files, NotOpened
  <2>2. ASSUME NEW written \in Cuts \cup {Len(Fields)}, Write(s, on, written) PROVE Files'
    <3>1. /\ DOMAIN slots' = {s} \cup DOMAIN slots
          /\ DOMAIN shadow' = {s} \cup DOMAIN shadow
          /\ slots'[s] = [state |-> Saved(st), written |-> written]
          /\ shadow'[s] = st
          /\ \A x \in DOMAIN slots \ {s} : slots'[x] = slots[x]
          /\ \A x \in DOMAIN shadow \ {s} : shadow'[x] = shadow[x]
      BY <1>4, <2>2 DEF Over, Write
    <3>2. written \in 0 .. 6
      BY <1>5
    <3> QED BY <3>1, <3>2 DEF IInv, Files
  <2> QED BY <1>1, <2>1, <2>2
<1>9. Loads' /\ LoadRestores'
  BY <1>3, <1>6, NothingLoaded
<1> QED BY <1>7, <1>8, <1>9 DEF IInv

With(n, pc, reg, ram) == [n EXCEPT !.PC = pc, !.reg = reg, !.RAM = ram]

LEMMA Replaced ==
  ASSUME NEW n \in Machines, NEW pc \in Addresses, NEW reg \in Registers, NEW ram \in Memories
  PROVE  LET p == With(n, pc, reg, ram)
         IN p \in Machines /\ p.PC = pc /\ p.reg = reg /\ p.RAM = ram
BY DEF Machines, Registers, With

(* A load, from what was in the file. *)
LEMMA LoadMachine ==
  ASSUME IInv, NEW s \in DOMAIN slots, phase = "poll", NEW on \in SUBSET Filters,
         Restored(Merged(s, on)),
         filters' = Merged(s, on).filters \cup (on \cap {"image"}),
         paused' = Merged(s, on).paused
  PROVE  /\ m' \in Machines /\ m'.PC = 0 /\ filters' \subseteq Filters /\ paused' \in BOOLEAN
         /\ \A f \in Loaded(s) \cap FieldNames :
              Saved(State(filters))'[f] = Saved(shadow[s])[f]
         /\ "high" \notin Loaded(s)
              => Cell(m', kControllerDataAddress) = Cell(m, kControllerDataAddress)
<1>1. PICK M : M = Merged(s, on)
  OBVIOUS
<1>2. PICK st \in States : st = shadow[s] /\ slots[s].state = Saved(st)
  BY DEF IInv, Files
<1>3. m \in Machines /\ m.PC = 0 /\ paused \in BOOLEAN
  BY DEF IInv, Types, LoadRestores
<1>4. /\ M.PC = 0 /\ M.reg \in Registers /\ M.low \in Lows /\ M.high \in Highs
      /\ M.filters \in SUBSET Filters /\ "image" \notin M.filters
      /\ M.paused \in BOOLEAN
      /\ \A f \in Loaded(s) \cap FieldNames : M[f] = Saved(st)[f]
      /\ "high" \notin Loaded(s) => M.high = State(on).high
  <2>1. slots[s].state = Saved(st)
    BY <1>2
  <2>2. ReadFrom(M, s, st, on)
    BY <1>1, <1>3, <2>1, MergedTyped
  <2> QED BY <2>2 DEF ReadFrom
<1>5. PICK pc \in Addresses, reg \in Registers, low \in Lows, high \in Highs :
        pc = M.PC /\ reg = M.reg /\ low = M.low /\ high = M.high
  <2>1. 0 \in Addresses
    BY Ranges
  <2> QED BY <1>4, <2>1
<1>6. PICK ram : ram = Over(low, high)
  OBVIOUS
<1>7. /\ ram \in Memories
      /\ Part(ram, LowCells) = low
      /\ Part(ram, HighCells) = high
  <2>1. low \in Lows /\ high \in Highs
    BY <1>5
  <2>2. /\ Over(low, high) \in Memories
        /\ Part(Over(low, high), LowCells) = low
        /\ Part(Over(low, high), HighCells) = high
    BY <2>1, Halves, Zenon
  <2> QED BY <1>6, <2>2, Zenon
<1>8. m' = [m EXCEPT !.PC = pc, !.reg = reg, !.RAM = ram]
  <2>1. Restored(M)
    BY <1>1, Zenon
  <2>2. m' = [m EXCEPT !.PC = M.PC, !.reg = M.reg, !.RAM = Over(M.low, M.high)]
    BY <2>1 DEF Restored
  <2> QED BY <1>5, <1>6, <2>2
<1>9. m' \in Machines /\ m'.PC = pc /\ m'.reg = reg /\ m'.RAM = ram
  <2>1. m \in Machines /\ pc \in Addresses /\ reg \in Registers /\ ram \in Memories
    BY <1>3, <1>5, <1>7
  <2>2. m' = With(m, pc, reg, ram)
    BY <1>8 DEF With
  <2> QED BY <2>1, <2>2, Replaced
<1>10. /\ filters' = M.filters \cup (on \cap {"image"}) /\ filters' \subseteq Filters
       /\ paused' = M.paused
  BY <1>1, <1>4
<1>11. State(filters)' = [PC |-> pc, reg |-> reg, filters |-> filters', low |-> low,
                          high |-> high, paused |-> paused']
  <2>1. State(filters)' = [PC |-> m'.PC, reg |-> m'.reg, filters |-> filters',
                           low |-> Part(m'.RAM, LowCells), high |-> Part(m'.RAM, HighCells),
                           paused |-> paused']
    BY DEF State, Cells, Part, LowCells, HighCells
  <2> QED BY <1>7, <1>9, <2>1, Zenon
<1>12. PICK new \in States : /\ new = State(filters)'
                             /\ new.PC = 0 /\ new.reg = M.reg /\ new.filters = filters'
                             /\ new.low = M.low /\ new.high = M.high /\ new.paused = M.paused
  BY <1>4, <1>5, <1>10, <1>11 DEF States, Registers
<1>13. Saved(State(filters))' = Saved(new)
  BY <1>12 DEF Saved
<1>14. \A f \in FieldNames : Saved(new)[f] = M[f]
  <2>1. /\ Saved(new).filters = new.filters \ {"image"}
        /\ \A f \in FieldNames : f # "filters" => Saved(new)[f] = new[f]
    BY SavedTyped
  <2>2. Saved(new).filters = M.filters
    BY <1>4, <1>10, <1>12, <2>1
  <2> QED BY <1>4, <1>12, <2>1, <2>2 DEF FieldNames
<1>15. ASSUME "high" \notin Loaded(s)
       PROVE  Cell(m', kControllerDataAddress) = Cell(m, kControllerDataAddress)
  <2>1. M.high = Cells(kControllerDataAddress, 65535)
    BY <1>4, <1>15 DEF State
  <2>2. kControllerDataAddress \in HighCells
    <3>1. kControllerDataAddress \in Int /\ kControllerDataAddress <= 65535
      BY Borders
    <3> QED BY <3>1 DEF HighCells
  <2>3. \A f : LET H == {c \in DOMAIN f : c \in HighCells}
                   h == [a \in H |-> f[a]]
               IN /\ kControllerDataAddress \in DOMAIN h <=> kControllerDataAddress \in DOMAIN f
                  /\ kControllerDataAddress \in DOMAIN f
                       => h[kControllerDataAddress] = f[kControllerDataAddress]
    BY <2>2
  <2>4. PICK h : h = M.high
    OBVIOUS
  <2>5. /\ kControllerDataAddress \in DOMAIN h <=> kControllerDataAddress \in DOMAIN m.RAM
        /\ kControllerDataAddress \in DOMAIN m.RAM
              => h[kControllerDataAddress] = m.RAM[kControllerDataAddress]
    BY <2>1, <2>3, <2>4 DEF Cells, HighCells
  <2>6. /\ kControllerDataAddress \in DOMAIN h <=> kControllerDataAddress \in DOMAIN ram
        /\ kControllerDataAddress \in DOMAIN ram
              => h[kControllerDataAddress] = ram[kControllerDataAddress]
    BY <1>5, <1>7, <2>3, <2>4 DEF Part
  <2> QED BY <1>9, <2>5, <2>6 DEF Cell
<1> QED BY <1>2, <1>4, <1>5, <1>9, <1>10, <1>13, <1>14, <1>15

LEMMA LoadStep == ASSUME NEW s \in Slots PROVE IInv /\ loadState(s) => IInv'
<1> SUFFICES ASSUME IInv, loadState(s) PROVE IInv'
  OBVIOUS
<1>1. phase = "poll" /\ phase' = phase /\ slug' = slug /\ held' = held /\ slots' = slots
      /\ shadow' = shadow
  BY DEF loadState, Poll
<1>2. Files'
  BY <1>1 DEF IInv, Files
<1>3. CASE s \in DOMAIN slots /\ loaded' = {s}
           /\ \E on \in AfterToggle(s) :
                /\ Restored(Merged(s, on))
                /\ filters' = Merged(s, on).filters \cup (on \cap {"image"})
                /\ paused' = Merged(s, on).paused
  <2>1. PICK on \in AfterToggle(s) :
          /\ Restored(Merged(s, on))
          /\ filters' = Merged(s, on).filters \cup (on \cap {"image"})
          /\ paused' = Merged(s, on).paused
    BY <1>3
  <2>2. on \in SUBSET Filters
    BY Toggled DEF IInv, Types
  <2>3. /\ m' \in Machines /\ m'.PC = 0 /\ filters' \subseteq Filters /\ paused' \in BOOLEAN
        /\ \A f \in Loaded(s) \cap FieldNames :
             Saved(State(filters))'[f] = Saved(shadow[s])[f]
    BY <1>1, <1>3, <2>1, <2>2, LoadMachine
  <2>4. Types'
    BY <1>1, <2>3 DEF IInv, Types
  <2>5. Loads'
    BY <1>1, <1>3 DEF Loads, Running
  <2>6. slots[s].written \in 0 .. 6
    BY <1>3 DEF IInv, Files
  <2>7. \A i \in 1 .. slots[s].written : Fields[i] \in Loaded(s) \cap FieldNames
    BY <2>6, NamesOfFields DEF Loaded
  <2>8. \A i \in 1 .. slots[s].written :
          Saved(State(filters))'[Fields[i]] = Saved(shadow[s])[Fields[i]]
    BY <2>3, <2>7
  <2>9. LoadRestores'
    BY <1>1, <1>3, <2>3, <2>8 DEF LoadRestores
  <2> QED BY <1>2, <2>4, <2>5, <2>9 DEF IInv
<1>4. CASE loaded' = {} /\ m' = m /\ paused' = paused /\ filters' \in AfterToggle(s)
  <2>1. filters' \subseteq Filters
    BY <1>4, Toggled DEF IInv, Types
  <2>2. Types'
    BY <1>1, <1>4, <2>1 DEF IInv, Types
  <2>3. Loads' /\ LoadRestores'
    BY <1>1, <1>4, NothingLoaded DEF IInv, LoadRestores
  <2> QED BY <1>2, <2>2, <2>3 DEF IInv
<1> QED BY <1>3, <1>4 DEF loadState

LEMMA QuitStep == IInv /\ Quit => IInv'
<1> SUFFICES ASSUME IInv, Quit PROVE IInv'
  OBVIOUS
<1>1. Types' /\ Files'
  BY DEF IInv, Types, Files, Quit, session, settings
<1>2. Loads' /\ LoadRestores'
  BY NothingLoaded DEF IInv, LoadRestores, Quit
<1> QED BY <1>1, <1>2 DEF IInv

LEMMA FrameStep == IInv /\ Frame => IInv'
<1> SUFFICES ASSUME IInv, Frame PROVE IInv'
  OBVIOUS
<1>1. m' \in Machines /\ loaded' = {} /\ phase' = "loop"
  BY CallMade DEF IInv, Types, Frame, BeginFrame
<1>2. Types' /\ Files'
  BY <1>1 DEF IInv, Types, Files, Frame, BeginFrame, settings
<1>3. Loads' /\ LoadRestores'
  BY <1>1, NothingLoaded
<1> QED BY <1>2, <1>3 DEF IInv

(* Nothing that a load brought back changes. *)
LEMMA StateKept ==
  ASSUME IInv, m' = m, filters' = filters, paused' = paused, slots' = slots,
         shadow' = shadow, loaded' = loaded, held' = held, slug' = slug,
         phase' \in {phase, "ended"}
  PROVE  IInv'
<1>1. Types' /\ Files'
  BY DEF IInv, Types, Files
<1>2. Loads'
  BY DEF IInv, Loads, Running
<1>3. State(filters)' = State(filters)
  BY DEF State, Cells
<1>4. Saved(State(filters))' = Saved(State(filters))
  BY <1>3 DEF Saved
<1>5. LoadRestores'
  BY <1>4 DEF IInv, LoadRestores
<1> QED BY <1>1, <1>2, <1>5 DEF IInv

LEMMA InvStep == IInv /\ [Next]_vars => IInv'
<1> SUFFICES ASSUME IInv, [Next]_vars PROVE IInv'
  OBVIOUS
<1>1. CASE \E b \in Buttons : Button(b)
  BY <1>1, ButtonStep
<1>2. CASE Switch
  BY <1>2, SwitchStep
<1>3. CASE \E s \in Slots : saveState(s) \/ loadState(s)
  BY <1>3, SaveStep, LoadStep
<1>4. CASE Quit
  BY <1>4, QuitStep
<1>5. CASE Execute \/ Undefined \/ Return \/ Frame
  BY <1>5, ExecuteStep, UndefinedStep, ReturnStep, FrameStep
<1>6. CASE PausedFrame
  BY <1>6, StateKept DEF PausedFrame, session, settings, history
<1>7. CASE Restart
  BY <1>7, RestartStep
<1>8. CASE UNCHANGED vars
  BY <1>8, StateKept DEF vars, session, settings, history
<1> QED BY <1>1, <1>2, <1>3, <1>4, <1>5, <1>6, <1>7, <1>8 DEF Next, Keyboard, Run

(* The strengthened invariant: types, the files of the slots, which slots   *)
(* may have been loaded, and what a load brings back.                       *)
THEOREM Invariance == Spec => []IInv
BY InitInv, InvStep, PTL DEF Spec

(* Registers and cells never leave their widths, whatever a program does    *)
(* and whatever states are saved and loaded meanwhile.                      *)
THEOREM TypesRight == Spec => []TypeOK
<1>1. IInv => TypeOK
  <2> SUFFICES ASSUME IInv PROVE TypeOK
    OBVIOUS
  <2>1. /\ m.PC \in Addresses /\ m.reg \in [0 .. 31 -> Values] /\ m.RAM \in Memories
        /\ phase \in {"setup", "poll", "loop", "ended", "exited", "killed", "undefined"}
    BY MachineFields DEF IInv, Types
  <2>2. DOMAIN m.RAM \subseteq Addresses /\ \A a \in DOMAIN m.RAM : m.RAM[a] \in Octets
    BY <2>1, MemoryIsFunction
  <2>3. \A r \in DOMAIN m.reg : m.reg[r] \in Values
    BY <2>1
  <2> QED BY <2>1, <2>2, <2>3 DEF TypeOK
<1> QED BY <1>1, Invariance, PTL

(* A load brings back what was saved in the slot, for any program, any      *)
(* number of keys and restarts, and files cut anywhere.                     *)
THEOREM LoadsRestore == Spec => []LoadRestores
<1>1. IInv => LoadRestores
  BY DEF IInv
<1> QED BY <1>1, Invariance, PTL

----------------------------------------------------------------------------
(* What a step of the running program does *)

LEMMA RunningSteps ==
  ASSUME IInv, Next, Running
  PROVE  Execute \/ m' = m \/ (m' = SetReg(m, 29, kVRAMAddress) /\ m.PC < kSLUGFileAddress)
BY DEF Next, Keyboard, Run, Running, Button, Switch, saveState, loadState, Poll, Quit,
       Undefined, Return, Frame, BeginFrame, PausedFrame, Restart

LEMMA ReturnMachine ==
  ASSUME NEW n \in Machines
  PROVE  LET p == SetReg(n, 29, kVRAMAddress)
         IN p.PC = n.PC /\ p.RAM = n.RAM /\ StoresOK(n, p)
<1>1. kVRAMAddress \in Values /\ 29 \in 0 .. 31
  BY Borders, Ranges
<1> QED BY <1>1, RegisterSet

(* No program changes a cell that it must not write, not half of one at a   *)
(* border either, whatever instructions it is made of.                      *)
THEOREM StoresRight == Spec => StoresPermitted
<1>1. ASSUME IInv, [Next]_vars, Running, NEW a, Cell(m', a) # Cell(m, a)
      PROVE  a \in Permitted
  <2>1. m \in Machines
    BY <1>1 DEF IInv, Types
  <2>2. CASE Execute
    <3>1. StoresOK(m, m')
      BY <2>1, <2>2, Executed, ConsoleAssumption DEF Execute
    <3> QED BY <1>1, <3>1 DEF StoresOK
  <2>3. CASE m' = m
    BY <1>1, <2>3
  <2>4. CASE m' = SetReg(m, 29, kVRAMAddress)
    BY <1>1, <2>1, <2>4, ReturnMachine DEF StoresOK
  <2>5. CASE UNCHANGED vars
    BY <1>1, <2>5 DEF vars
  <2> QED BY <1>1, <2>2, <2>3, <2>4, <2>5, RunningSteps
<1>2. IInv /\ [Next]_vars =>
        [Running => \A a \in DOMAIN m'.RAM :
            Cell(m', a) # Cell(m, a) =>
              a \in 0 .. kRAMSize - 1
                    \cup {kControllerDataAddress, kDebugstdoutAddress, kDebugstderrAddress,
                          kStopExecutionAddress}]_vars
  BY <1>1, Zenon DEF Permitted
<1> QED BY <1>2, Invariance, PTL DEF Spec, StoresPermitted

(* Only a JR makes the program counter odd, for any program.                *)
THEOREM FetchesRight == Spec => FetchesAligned
<1> DEFINE jumps == LET i == DecodeInstruction(m)
                    IN Running /\ i.op = kFUNC /\ i.function = kJR
<1>1. ASSUME IInv, [Next]_vars, m.PC % 4 = 0, ~jumps PROVE m'.PC % 4 = 0
  <2>1. m \in Machines
    BY <1>1 DEF IInv, Types
  <2>2. CASE Execute
    <3>1. Keeps(m, m') \/ LET i == DecodeInstruction(m) IN i.op = kFUNC /\ i.function = kJR
      BY <2>1, <2>2, Executed, ConsoleAssumption DEF Execute
    <3>2. Keeps(m, m')
      BY <1>1, <2>2, <3>1 DEF Execute
    <3> QED BY <1>1, <3>2 DEF Keeps
  <2>3. CASE m' = m
    BY <1>1, <2>3
  <2>4. CASE m' = SetReg(m, 29, kVRAMAddress)
    BY <1>1, <2>1, <2>4, ReturnMachine
  <2>5. CASE UNCHANGED vars
    BY <1>1, <2>5 DEF vars
  <2>6. CASE ~Running /\ Next
    <3>1. CASE \E b \in Buttons : Button(b)
      <4>1. PICK b \in 0 .. 7 : Press(b) \/ Release(b)
        BY <3>1, ConsoleAssumption DEF Button
      <4> QED BY <1>1, <2>1, <4>1, ButtonMachine
    <3>2. CASE \E s \in Slots : saveState(s) \/ loadState(s)
      <4>1. phase' = "poll" \/ m' = m
        BY <3>2 DEF saveState, loadState, Poll
      <4>2. phase' = "poll" => m'.PC = 0
        BY <1>1, InvStep DEF IInv, LoadRestores
      <4> QED BY <1>1, <4>1, <4>2
    <3>3. CASE Frame
      BY <2>1, <3>3, CallMade DEF Frame, BeginFrame
    <3>4. CASE Restart
      BY <1>1, <3>4, ResetMachine DEF Restart, IInv, Types
    <3>5. CASE Switch \/ Quit \/ PausedFrame
      BY <1>1, <3>5 DEF Switch, Quit, PausedFrame
    <3> QED BY <2>6, <3>1, <3>2, <3>3, <3>4, <3>5
        DEF Next, Keyboard, Run, Running, Execute, Undefined, Return
  <2> QED BY <1>1, <2>2, <2>3, <2>4, <2>5, <2>6, RunningSteps
<1>2. IInv /\ [Next]_vars =>
        [m'.PC % 4 # 0 => \/ m.PC % 4 # 0
                          \/ LET i == DecodeInstruction(m)
                             IN Running /\ i.op = kFUNC /\ i.function = kJR]_vars
  BY <1>1
<1> QED BY <1>2, Invariance, PTL DEF Spec, FetchesAligned

----------------------------------------------------------------------------
(* The controller *)

LEMMA ControllerKept ==
  ASSUME ControllerShowsButtons, held' = held, ~disturbed' => ~disturbed,
         ~disturbed' => Cell(m', kControllerDataAddress) = Cell(m, kControllerDataAddress)
  PROVE  ControllerShowsButtons'
BY DEF ControllerShowsButtons, Controller

LEMMA NoButtons ==
  ASSUME NEW n \in Machines, Cell(n, kControllerDataAddress) = 0
  PROVE  \A b \in 0 .. 7 : Bit(Cell(n, kControllerDataAddress), b) = 0
<1> SUFFICES ASSUME NEW b \in 0 .. 7 PROVE Bit(0, b) = 0
  BY Zenon
<1>1. PICK p \in Nat \ {0} : p = 2^b
  <2>1. b \in 0 .. 31
    OBVIOUS
  <2>2. 2^b \in Nat \ {0}
    BY <2>1, PowersPositive
  <2> QED BY <2>2
<1>2. (0 \div p) % 2 = 0
  BY <1>1
<1>3. Word(0) = 0
  BY DEF Word
<1> QED BY <1>1, <1>2, <1>3 DEF Bit

LEMMA ControllerStep ==
  ASSUME \A s \in Sessions : DataFits(s.slug)
  PROVE  IInv /\ ControllerShowsButtons /\ [Next]_vars => ControllerShowsButtons'
<1> SUFFICES ASSUME IInv, ControllerShowsButtons, [Next]_vars PROVE ControllerShowsButtons'
  OBVIOUS
<1>1. m \in Machines
  BY DEF IInv, Types
<1>2. CASE \E b \in Buttons : Button(b)
  <2>1. PICK b \in Buttons : Button(b)
    BY <1>2
  <2>2. b \in 0 .. 7 /\ disturbed' = disturbed
    BY <2>1, ConsoleAssumption DEF Button
  <2>3. PICK v \in {0, 1} : /\ IF v = 1 THEN Press(b) ELSE Release(b)
                            /\ held' = IF v = 1 THEN held \cup {b} ELSE held \ {b}
    <3>1. \/ Press(b) /\ held' = held \cup {b}
          \/ Release(b) /\ held' = held \ {b}
      BY <2>1 DEF Button
    <3> QED BY <3>1
  <2>4. \A c \in 0 .. 7 : Bit(Cell(m', kControllerDataAddress), c)
                          = IF c = b THEN v ELSE Bit(Controller, c)
    BY <1>1, <2>2, <2>3, ButtonMachine
  <2> QED BY <2>2, <2>3, <2>4 DEF ControllerShowsButtons, Controller
<1>3. CASE \E s \in Slots : saveState(s)
  BY <1>3, ControllerKept DEF saveState
<1>4. CASE \E s \in Slots : loadState(s)
  <2>1. PICK s \in Slots : loadState(s)
    BY <1>4
  <2>2. held' = held /\ phase = "poll"
    BY <2>1 DEF loadState, Poll
  <2>3. CASE s \in DOMAIN slots /\ disturbed' = (disturbed \/ "high" \in Loaded(s))
             /\ \E on \in AfterToggle(s) :
                  /\ Restored(Merged(s, on))
                  /\ filters' = Merged(s, on).filters \cup (on \cap {"image"})
                  /\ paused' = Merged(s, on).paused
    <3>1. PICK on \in AfterToggle(s) :
            /\ Restored(Merged(s, on))
            /\ filters' = Merged(s, on).filters \cup (on \cap {"image"})
            /\ paused' = Merged(s, on).paused
      BY <2>3
    <3>2. on \in SUBSET Filters
      BY Toggled DEF IInv, Types
    <3>3. "high" \notin Loaded(s)
            => Cell(m', kControllerDataAddress) = Cell(m, kControllerDataAddress)
      BY <2>2, <2>3, <3>1, <3>2, LoadMachine
    <3> QED BY <2>2, <2>3, <3>3, ControllerKept
  <2>4. CASE m' = m /\ disturbed' = disturbed
    BY <2>2, <2>4, ControllerKept
  <2> QED BY <2>1, <2>3, <2>4 DEF loadState
<1>5. CASE Execute
  BY <1>5, ControllerKept DEF Execute
<1>6. CASE Return
  <2>1. m'.RAM = m.RAM
    BY <1>1, <1>6, ReturnMachine DEF Return
  <2> QED BY <1>6, <2>1, ControllerKept DEF Return, history, Cell
<1>7. CASE Frame
  <2>1. m'.RAM = m.RAM
    BY <1>1, <1>7, CallMade DEF Frame, BeginFrame
  <2> QED BY <1>7, <2>1, ControllerKept DEF Frame, BeginFrame, Cell
<1>8. CASE Restart
  <2>1. PICK s \in Sessions : slug = s.slug
    BY DEF IInv, Types
  <2>2. m' \in Machines /\ Cell(m', kControllerDataAddress) = 0
    BY <1>8, <2>1, ResetMachine DEF Restart
  <2> QED BY <1>8, <2>2, NoButtons DEF Restart, ControllerShowsButtons, Controller
<1>9. CASE Switch \/ Quit \/ Undefined \/ PausedFrame
  BY <1>9, ControllerKept DEF Switch, Quit, Undefined, PausedFrame, history
<1>10. CASE UNCHANGED vars
  BY <1>10, ControllerKept DEF vars, history
<1> QED BY <1>2, <1>3, <1>4, <1>5, <1>6, <1>7, <1>8, <1>9, <1>10 DEF Next, Keyboard, Run

(* The controller's cell shows the buttons that are down, for any program   *)
(* whose data the reset does not copy onto that cell itself.                *)
THEOREM ControllerRight ==
  ASSUME \A s \in Sessions : DataFits(s.slug)
  PROVE  Spec => []ControllerShowsButtons
<1>1. Init => ControllerShowsButtons
  <2> SUFFICES ASSUME Init PROVE ControllerShowsButtons
    OBVIOUS
  <2>1. PICK s \in Sessions : slug = s.slug
    BY DEF Init
  <2>2. m \in Machines /\ Cell(m, kControllerDataAddress) = 0
    BY <2>1, ResetMachine DEF Init
  <2> QED BY <2>2, NoButtons DEF Init, ControllerShowsButtons, Controller
<1> QED BY <1>1, ControllerStep, Invariance, PTL DEF Spec
=============================================================================
