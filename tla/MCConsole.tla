------------------------------- MODULE MCConsole -------------------------------
(***************************************************************************)
(* Programs for TLC.  setup loads two registers, loop runs a few           *)
(* instructions on them and returns.                                       *)
(***************************************************************************)
EXTENDS Console

Bytes(w) == <<Word(w) \div 256, Byte(w)>>
IType(op, a, b, imm) == <<4 * op + a \div 8, 32 * (a % 8) + b>> \o Bytes(imm)
RType(f, a, b, c, s) == <<a \div 8, 32 * (a % 8) + b, 8 * c + s \div 4, 64 * (s % 4) + f>>

SetupCode == 33280  \* 0x8200
LoopCode == 33536   \* 0x8300
Sub == 33792        \* 0x8400

At(address, bytes) == [a \in address .. address + Len(bytes) - 1 |-> bytes[a - address + 1]]
Code(instructions) == FlattenSeq(instructions)

JumpBack == RType(kJR, 31, 0, 0, 0)

(* Two bytes of data, at Sub + 4, are copied to 0 and 1. *)
Slug(v1, v2, instructions) ==
  At(kSetupAddress, <<0, 0>> \o Bytes(SetupCode) \o <<0, 0>> \o Bytes(LoopCode)
                    \o <<0, 0>> \o Bytes(Sub + 4) \o <<0, 0, 0, 0, 0, 0, 0, 2>>)
  @@ At(SetupCode, Code(<<IType(kADDI, 0, 1, v1), IType(kADDI, 0, 2, v2), JumpBack>>))
  @@ At(LoopCode, Code(Append(instructions, JumpBack)))
  @@ At(Sub, JumpBack \o <<7, 9>>)

(* Addresses on either side of every border, and signs. *)
Borders == {5, 28671, 28672, 28928, 28944, 28960, 29184, -32768, -1}
Others == {1, -2}

Loads == {<<IType(kLBU, 1, 3, 0)>>, <<IType(kLW, 1, 3, 0)>>, <<IType(kLW, 0, 3, 0)>>}
Stores == {<<IType(kSB, 1, 2, 0)>>, <<IType(kSW, 1, 2, 0)>>, <<IType(kSW, 1, 2, -1)>>}
Jumps == {<<IType(kBEQ, 1, 2, 1)>>, <<IType(kBNE, 1, 2, 1), <<4, 0, 0, 0>>>>,
          <<IType(kJ, 0, 0, (LoopCode + 4) \div 4)>>, <<RType(kJR, 1, 0, 0, 0)>>,
          <<IType(kADDI, 31, 4, 0), IType(kJAL, 0, 0, Sub \div 4), RType(kJR, 4, 0, 0, 0)>>}
Sums == {<<RType(f, 1, 2, 3, 0)>> : f \in {kADD, kSUB, kAND, kOR, kNOR, kSLT, 1}}
Shifts == {<<RType(f, 0, 1, 3, s)>> : f \in {kSRL, kSRA, kSLL}, s \in {1, 17}}

Everything == {Slug(v1, v2, p) : v1 \in Borders, v2 \in Others,
                                 p \in Loads \cup Stores \cup Jumps \cup Sums \cup Shifts}

(* A program that counts frames in RAM, and one that presses a button. *)
Counter == Slug(0, 1, <<IType(kLW, 0, 1, 2), RType(kADD, 1, 2, 1, 0), IType(kSW, 0, 1, 2)>>)
Presser == Slug(28672, 1, <<IType(kSB, 1, 2, 0)>>)

(* All the programs for a frame, and these two with a keyboard. *)
BothSessions == [slug : Everything, frames : {1}, keys : {0}, starts : {0}]
                \cup [slug : {Counter}, frames : {1}, keys : {3}, starts : {1}]
                \cup [slug : {Presser}, frames : {2}, keys : {2}, starts : {0}]
=============================================================================
