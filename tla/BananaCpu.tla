------------------------------- MODULE BananaCpu -------------------------------
(***************************************************************************)
(* The processor and the memory of the emulator of cse111EmulatorFinal-    *)
(* Project/src, cpu.cpp and console.cpp, as operators on a machine m, a    *)
(* record of PC_, registers_, RAM_ and what was printed.  Words have their *)
(* 16 bits and addresses are those of console.h.  RAM_ is a function on    *)
(* the cells written so far: all the others are 0.                         *)
(***************************************************************************)
EXTENDS Integers, FiniteSetsExt, SequencesExt

kRAMSize == 28672                 \* 0x7000
kVRAMAddress == 20992             \* 0x5200
kControllerDataAddress == 28672   \* 0x7000
kDebugstdinAddress == 28928       \* 0x7100
kDebugstdoutAddress == 28944      \* 0x7110
kDebugstderrAddress == 28960      \* 0x7120
kStopExecutionAddress == 29184    \* 0x7200
kSLUGFileAddress == 32768         \* 0x8000
kSetupAddress == 33248            \* 0x81e0
kLoopAddress == 33252             \* 0x81e4
kLoadDataAddress == 33256         \* 0x81e8
kDataSizeAddress == 33264         \* 0x81f0

(* What PC_ and the addresses, the cells, and the registers may hold. *)
Addresses == 0 .. 65535
Octets == 0 .. 255
Values == -32768 .. 32767

Word(x) == x % 65536
Int16(x) == IF Word(x) >= 32768 THEN Word(x) - 65536 ELSE Word(x)
Byte(x) == x % 256

----------------------------------------------------------------------------
(* Memory *)
(* The cells in S are written, too. *)
WithCells(ram, S) == [a \in DOMAIN ram \cup S |-> IF a \in DOMAIN ram THEN ram[a] ELSE 0]

Cell(m, a) == IF a \in DOMAIN m.RAM THEN m.RAM[a] ELSE 0

readable(a) == \/ a \in 0 .. kRAMSize
               \/ a = kControllerDataAddress
               \/ a >= kSLUGFileAddress

writableFirst(a, bytes) ==
  a \in 0 .. kRAMSize \cup {kDebugstdoutAddress, kDebugstderrAddress, kStopExecutionAddress}

writable(a, bytes) ==
  \A i \in 0 .. bytes - 1 :
    a + i \in 0 .. kRAMSize \cup {kDebugstdoutAddress, kDebugstderrAddress,
                                  kStopExecutionAddress}

read8(m, a) == IF readable(a) THEN Cell(m, a) ELSE 0

(* Only the first address is checked; see OutOfBounds for the last ones. *)
read16(m, a) == IF readable(a) THEN 256 * Cell(m, a) + Cell(m, a + 1) ELSE 0

(* read32 of the addresses and sizes in a slug, which fit in a word.        *)
ReadWord(m, a) == 256 * Cell(m, a + 2) + Cell(m, a + 3)

(* read32 where the code divides what it read by 4 and keeps 16 bits. *)
ReadEntry(m, a) == Int16(64 * (256 * Cell(m, a + 1) + Cell(m, a + 2)) + Cell(m, a + 3) \div 4)

write8(m, a, data) ==
  IF writable(a, 1)
  THEN [m EXCEPT !.RAM = [WithCells(@, {a}) EXCEPT ![a] = Byte(data)]]
  ELSE m

write16(m, a, data) ==
  IF writable(a, 2)
  THEN [m EXCEPT !.RAM = [WithCells(@, {a, a + 1}) EXCEPT ![a] = Word(data) \div 256,
                                                          ![a + 1] = Byte(data)]]
  ELSE m

----------------------------------------------------------------------------
(* Instructions *)
kFUNC == 0
kBEQ == 2
kSB == 11
kJAL == 24
kLBU == 25
kJ == 37
kADDI == 46
kBNE == 51
kLW == 53
kSW == 58

kSUB == 0
kSRL == 13
kAND == 19
kNOR == 21
kSRA == 25
kSLL == 30
kJR == 40
kOR == 50
kSLT == 57
kADD == 60

(* The four bytes at PC_, taken apart. *)
DecodeInstruction(m) ==
  LET b(i) == Cell(m, m.PC + i)
  IN [op |-> b(0) \div 4,
      a |-> 8 * (b(0) % 4) + b(1) \div 32,
      b |-> b(1) % 32,
      c |-> b(2) \div 8,
      shift |-> 4 * (b(2) % 8) + b(3) \div 64,
      function |-> b(3) % 64,
      immediate |-> Int16(256 * b(2) + b(3))]

Bit(x, i) == (Word(x) \div 2^i) % 2
(* The number whose bits are set where the pair of bits of x and y is in    *)
(* ones.                                                                    *)
Bitwise2(x, y, ones) ==
  LET bit(i) == IF <<Bit(x, i), Bit(y, i)>> \in ones THEN 2^i ELSE 0
      four(i) == bit(i) + bit(i + 1) + bit(i + 2) + bit(i + 3)
  IN Int16(four(0) + four(4) + four(8) + four(12))

(* (unsigned) makes 32 bits of the sign-extended register before the shift. *)
SRL(x, s) ==
  IF x >= 0 THEN x \div 2^s
  ELSE IF s <= 16 THEN Int16(x \div 2^s)
  ELSE Int16(2^(32 - s) - 1)

SRA(x, s) == x \div 2^s
SLLWide(x, s) == x * 2^s
SLL(x, s) == IF s >= 16 THEN 0 ELSE Int16(Word(x) * 2^s)

(* What an R-type instruction other than JR leaves in register c. *)
Result(f, x, y, s) ==
  CASE f = kSUB -> Int16(x - y)
    [] f = kADD -> Int16(x + y)
    [] f = kSRL -> SRL(y, s)
    [] f = kSRA -> SRA(y, s)
    [] f = kSLL -> SLL(y, s)
    [] f = kAND -> Bitwise2(x, y, {<<1, 1>>})
    [] f = kOR  -> Bitwise2(x, y, {<<0, 1>>, <<1, 0>>, <<1, 1>>})
    [] f = kNOR -> Bitwise2(x, y, {<<0, 0>>})
    [] f = kSLT -> IF x < y THEN 1 ELSE 0

Results == {kSUB, kADD, kSRL, kSRA, kSLL, kAND, kOR, kNOR, kSLT}

SetReg(m, r, x) == [m EXCEPT !.reg[r] = x]
Goto(m, pc) == [m EXCEPT !.PC = Word(pc)]
NOP(m) == Goto(m, m.PC + 4)

ExecuteRType(m, i) ==
  CASE i.function = kJR -> Goto(m, m.reg[i.a])
    [] i.function \in Results ->
         NOP(SetReg(m, i.c, Result(i.function, m.reg[i.a], m.reg[i.b], i.shift)))
    [] OTHER -> NOP(m)

BranchByBytes(m, i, taken) == Goto(m, m.PC + 4 + IF taken THEN i.immediate ELSE 0)

Branch(m, i, taken) == Goto(m, m.PC + 4 + IF taken THEN 4 * i.immediate ELSE 0)

JAL(m, immediate) == Goto(SetReg(m, 31, Int16(m.PC + 4)), 4 * immediate)

(* The address an instruction names, as the int the code computes.  Memory  *)
(* takes 16 bits of it, the comparisons with the I/O addresses all of it.   *)
Address(m, i) == m.reg[i.a] + i.immediate

SB(m, i) ==
  LET stored == NOP(write8(m, Word(Address(m, i)), m.reg[i.b]))
  IN CASE Address(m, i) \in {kDebugstdoutAddress, kDebugstderrAddress} ->
            [stored EXCEPT !.out = Append(@, <<Address(m, i), Byte(m.reg[i.b])>>)]
       [] Address(m, i) = kStopExecutionAddress -> [stored EXCEPT !.exited = TRUE]
       [] OTHER -> stored

(* typed is the set of the bytes std::cin.get() may return. *)
LBU(m, i, typed) ==
  IF Address(m, i) = kDebugstdinAddress
  THEN {NOP(SetReg(m, i.b, x)) : x \in typed}
  ELSE {NOP(SetReg(m, i.b, read8(m, Word(Address(m, i)))))}

(* Two instructions read beyond the end of RAM_: a fetch and a load word.   *)
OutOfBounds(m) ==
  \/ m.PC > 65532
  \/ LET i == DecodeInstruction(m) IN i.op = kLW /\ Word(Address(m, i)) = 65535

ExecuteInstruction(m, typed) ==
  LET i == DecodeInstruction(m)
      a == m.reg[i.a]
      b == m.reg[i.b]
  IN CASE i.op = kFUNC -> {ExecuteRType(m, i)}
       [] i.op = kBEQ  -> {Branch(m, i, a = b)}
       [] i.op = kBNE  -> {Branch(m, i, a # b)}
       [] i.op = kJ    -> {Goto(m, 4 * i.immediate)}
       [] i.op = kJAL  -> {JAL(m, i.immediate)}
       [] i.op = kADDI -> {NOP(SetReg(m, i.b, Int16(a + i.immediate)))}
       [] i.op = kSB   -> {SB(m, i)}
       [] i.op = kSW   -> {NOP(write16(m, Word(Address(m, i)), b))}
       [] i.op = kLBU  -> LBU(m, i, typed)
       [] i.op = kLW   -> {NOP(SetReg(m, i.b, Int16(read16(m, Word(Address(m, i))))))}
       [] OTHER        -> {NOP(m)}
=============================================================================
