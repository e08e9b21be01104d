-------------------------------- MODULE LZ78IO --------------------------------
(***************************************************************************)
(* io.c of LZ78compression: the buffered streams of encode and decode, as  *)
(* operators.  A stream of symbols and a stream of bits are buffered alike *)
(* and only differ in the size of the buffer.                              *)
(***************************************************************************)
EXTENDS Integers, SequencesExt

CONSTANTS BITS,     \* the bits of a symbol (8 in the code)
          BLOCK,    \* the symbols of a buffer (4096)
          MAX_CODE  \* the code at which the dictionary is dropped (65535)

(* code >> k, for k up to the width of a uint16_t. *)
RShift(code) ==
  LET s[k \in 0 .. 2 * BITS] == IF k = 0 THEN code ELSE s[k - 1] \div 2 IN s

(* A code fits in the uint16_t the programs give it. *)
ASSUME LZ78Assumption == /\ BITS \in Nat \ {0}
                         /\ BLOCK \in Nat \ {0, 1}
                         /\ MAX_CODE \in Nat /\ MAX_CODE >= 4 /\ RShift(MAX_CODE)[2 * BITS] = 0

(* The symbols of BITS bits: bytes. *)
Symbols == {n \in Nat : RShift(n)[BITS] = 0}

BUFFER == BITS * BLOCK  \* the bits of a buffer

STOP_CODE == 0
EMPTY_CODE == 1
START_CODE == 2

Zeros(size) == [i \in 1 .. size |-> 0]

Smaller(m, n) == IF m < n THEN m ELSE n

----------------------------------------------------------------------------
(* Reading from a regular file, where read returns what was asked for, or   *)
(* all that is left.  A reader has a buffer, the index of the next item in  *)
(* it and how much of the data it has fetched.  read_bytes leaves alone     *)
(* what is beyond the end of the data: the items of the last time stay.     *)
NewReader(size) == [buf |-> Zeros(size), index |-> 0, pos |-> 0]

Left(r, data) == Smaller(Len(r.buf), Len(data) - r.pos)

read_bytes(r, data) ==
  [r EXCEPT !.buf = [i \in DOMAIN @ |-> IF i <= Left(r, data) THEN data[r.pos + i] ELSE @[i]],
            !.pos = @ + Left(r, data)]

Refilled(r, data) == IF r.index = 0 THEN read_bytes(r, data) ELSE r

Item(r) == r.buf[r.index + 1]
Advanced(r) == [r EXCEPT !.index = (@ + 1) % Len(r.buf)]

(* read_sym: its static variable `end` marks the index after the last       *)
(* symbol, once a short read has shown where that is.                       *)
EndExact(r, data, end) == IF r.index = 0 /\ Left(r, data) < BLOCK THEN Left(r, data) ELSE end

End(r, data, end) == IF r.index = 0 /\ Left(r, data) < BLOCK THEN Left(r, data) + 1 ELSE end

read_sym(r, data, end) ==
  LET full == Refilled(r, data)
      next == Advanced(full)
      mark == End(r, data, end)
  IN [reader |-> next, sym |-> Item(full), end |-> mark, more |-> next.index # mark]

----------------------------------------------------------------------------
(* Reading from a pipe, or from a file that is still being written.  index  *)
(* runs to the size of the buffer where the code's bit_index starts again   *)
(* at 0: a buffer that is used up, or was never filled.  total belongs to   *)
(* the call of read_bytes that fills it, a read at a time.                  *)
NewPipeReader(size) == [buf |-> Zeros(size), index |-> size, pos |-> 0, total |-> 0]

UsedUp(r) == r.index = Len(r.buf)
Available(r, data) == Len(data) - r.pos

(* One read: it asks for a whole buffer, also after a short read, and gets  *)
(* what there is.                                                           *)
ReadOnce(r, data) ==
  LET n == Smaller(Len(r.buf), Available(r, data))
  IN [r EXCEPT !.buf = [i \in DOMAIN @ |-> IF i - r.total \in 1 .. n THEN data[r.pos + i - r.total]
                                           ELSE @[i]],
               !.pos = @ + n, !.total = @ + n]

Filled(r) == [buf |-> r.buf, index |-> 0, pos |-> r.pos, total |-> 0]

(* What the loops of read_pair take from the buffer before it is used up.   *)
TakeBits(r, bits, width) ==
  LET n == Smaller(width - Len(bits), Len(r.buf) - r.index)
  IN [reader |-> [r EXCEPT !.index = @ + n],
      bits |-> bits \o SubSeq(r.buf, r.index + 1, r.index + n)]

(* A number from its bits, the lowest first: v[k] are the last k of them.   *)
ValueOf(bits) ==
  LET v[k \in 0 .. Len(bits)] ==
        IF k = 0 THEN 0 ELSE bits[Len(bits) + 1 - k] + 2 * v[k - 1]
  IN v[Len(bits)]

PairOf(bits, bitlen) ==
  [code |-> ValueOf(SubSeq(bits, 1, bitlen)),
   sym |-> ValueOf(SubSeq(bits, bitlen + 1, bitlen + BITS))]

----------------------------------------------------------------------------
(* Writing.  A full buffer is written out when the next item comes.         *)
NewWriter == [buf |-> << >>, file |-> << >>]

Put(w, x, size) ==
  IF Len(w.buf) = size THEN [buf |-> <<x>>, file |-> w.file \o w.buf]
  ELSE [w EXCEPT !.buf = Append(@, x)]

PutAll(w, items, size) ==
  LET put[k \in 0 .. Len(items)] == IF k = 0 THEN w ELSE Put(put[k - 1], items[k], size)
  IN put[Len(items)]

(* The header passes by the buffer.  It counts as one symbol here: decode   *)
(* looks at no field of it but the protection.                              *)
HEADER == BITS

HeaderBuffered(w) == PutAll(w, Zeros(HEADER), BUFFER)

write_header(w) == [w EXCEPT !.file = @ \o Zeros(HEADER)]

BitOf(n, i) == RShift(n)[i] % 2

(* Bit i of the code comes from code >> (i % 8), whatever its width. *)
CodeBits(code, bitlen) == [i \in 1 .. bitlen |-> BitOf(code, (i - 1) % BITS)]
SymBits(sym) == [i \in 1 .. BITS |-> BitOf(sym, i - 1)]

write_pair(w, code, sym, bitlen) ==
  PutAll(w, CodeBits(code, bitlen) \o SymBits(sym), BUFFER)

(* The bits after the last whole byte are dropped. *)
FlushOneLess(w) == w.file \o SubSeq(w.buf, 1, BITS * (Len(w.buf) \div BITS - 1))

flush_pairs(w) == w.file \o SubSeq(w.buf, 1, BITS * (Len(w.buf) \div BITS))

write_word(w, word) == PutAll(w, word, BLOCK)
flush_words(w) == w.file \o w.buf

(* encode.c and decode.c each have one: the bits of a number. *)
bitlen(code) ==
  CHOOSE w \in 0 .. 2 * BITS : RShift(code)[w] = 0 /\ \A v \in 0 .. w - 1 : RShift(code)[v] # 0
=============================================================================
