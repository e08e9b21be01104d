--------------------------------- MODULE LZ78 ---------------------------------
(***************************************************************************)
(* encode < input | decode > output: encode compresses a file into a pipe  *)
(* and decode, which runs beside it, restores it from what has come so     *)
(* far.  A step of the encoder handles one symbol; decode reads, takes     *)
(* bits from its buffer, and handles a pair.  encode may be killed.        *)
(***************************************************************************)
EXTENDS LZ78IO

CONSTANTS Inputs,   \* the files to compress
          MaxStale  \* bound: the old blocks decode goes on with, perhaps for ever

ASSUME InputsAssumption == Inputs \subseteq Seq(Symbols) /\ MaxStale \in Nat

Programs == {"encode", "decode"}

VARIABLES pc,            \* where each program is
          next_code, total_bits,                  \* of each program
          input,         \* the file
          source, end,                            \* read_sym: its buffer and `end`
          trie, curr_node, prev_node, prev_sym,   \* the encoder's
          packed,        \* the encoder's buffer of pairs, and what left it
          pairs, bits,   \* the decoder's buffer, the pair it is reading
          table, words, output,
          consumed,      \* history: the symbols the encoder took
          marks,         \* history: after each pair of the encoder, its total_bits,
                         \* the symbols taken, and the code that names the pair
          stale          \* history: the symbols decode had written each time it went
                         \* on with an old block, because encode was killed

encoder == <<source, end, trie, curr_node, prev_node, prev_sym, packed, consumed, marks>>
decoder == <<pairs, bits, table, words, output, stale>>
vars == <<pc, next_code, total_bits, input, encoder, decoder>>

Extended(f, x, y) == [z \in DOMAIN f \cup {x} |-> IF z = x THEN y ELSE f[z]]

(* The trie is its edges: from a node and a symbol to a node.  A node is    *)
(* named by its code; an absent edge is a NULL child.                       *)
NoEdges == << >>
trie_step(node, sym) == trie[<<node, sym>>]
HasChild(node, sym) == <<node, sym>> \in DOMAIN trie
WithEdge(node, sym, code) == Extended(trie, <<node, sym>>, code)

EmptyTable == [c \in {EMPTY_CODE} |-> << >>]

Init == /\ pc = [p \in Programs |-> "header"]
        /\ next_code = [p \in Programs |-> START_CODE]
        /\ total_bits = [p \in Programs |-> 0]
        /\ input \in Inputs
        /\ source = NewReader(BLOCK) /\ end = -1
        /\ trie = NoEdges
        /\ curr_node = EMPTY_CODE /\ prev_node = STOP_CODE /\ prev_sym = 0
        /\ packed = NewWriter
        /\ pairs = NewPipeReader(BUFFER) /\ bits = << >>
        /\ table = EmptyTable
        /\ words = NewWriter /\ output = << >>
        /\ consumed = << >> /\ marks = << >> /\ stale = << >>

Goto(p, label) == pc' = [pc EXCEPT ![p] = label]
Counted(p, n) == total_bits' = [total_bits EXCEPT ![p] = @ + n]
NextCodeIs(p, code) == next_code' = [next_code EXCEPT ![p] = code]

Width(p) == bitlen(next_code[p]) + BITS

----------------------------------------------------------------------------
(* encode: the header ... *)
WriteHeader ==
  /\ pc["encode"] = "header"
  /\ packed' = write_header(packed)
  /\ Counted("encode", HEADER)
  /\ Goto("encode", "run")
  /\ UNCHANGED <<next_code, input, source, end, trie, curr_node, prev_node, prev_sym,
                 consumed, marks, decoder>>

(* ... the loop, on a symbol that leads on in the trie ... *)
Step(sym) ==
  /\ HasChild(curr_node, sym)
  /\ prev_node' = curr_node
  /\ curr_node' = trie_step(curr_node, sym)
  /\ UNCHANGED <<trie, packed, next_code, total_bits, marks>>

(* ... and on one that completes a word. *)
NextCodeKeepingTrie(sym, code) ==
  /\ NextCodeIs("encode", IF code + 1 = MAX_CODE THEN START_CODE ELSE code + 1)
  /\ trie' = WithEdge(curr_node, sym, code)

NextCode(sym, code) ==
  IF code + 1 = MAX_CODE
  THEN NextCodeIs("encode", START_CODE) /\ trie' = NoEdges
  ELSE NextCodeIs("encode", code + 1) /\ trie' = WithEdge(curr_node, sym, code)

Mark(syms) == [bits |-> total_bits["encode"] + Width("encode"), syms |-> syms,
               code |-> next_code["encode"]]

Emit(sym) ==
  /\ ~HasChild(curr_node, sym)
  /\ packed' = write_pair(packed, curr_node, sym, bitlen(next_code["encode"]))
  /\ Counted("encode", Width("encode"))
  /\ marks' = Append(marks, Mark(Len(consumed) + 1))
  /\ NextCode(sym, next_code["encode"])
  /\ curr_node' = EMPTY_CODE
  /\ UNCHANGED prev_node

Encode ==
  /\ pc["encode"] = "run"
  /\ \E r \in {read_sym(source, input, end)} :
       /\ r.more
       /\ source' = r.reader /\ end' = r.end
       /\ Step(r.sym) \/ Emit(r.sym)
       /\ prev_sym' = r.sym
       /\ consumed' = Append(consumed, r.sym)
  /\ UNCHANGED <<pc, input, decoder>>

(* The end of the file: the pair of a word that is in the trie already, if  *)
(* one was begun, and the STOP pair; then the flush.                        *)
LastPair == IF curr_node = EMPTY_CODE THEN packed
            ELSE write_pair(packed, prev_node, prev_sym, bitlen(next_code["encode"]))

StopWidth == bitlen(IF curr_node = EMPTY_CODE THEN next_code["encode"]
                    ELSE (next_code["encode"] + 1) % MAX_CODE)

EncodeEnd ==
  /\ pc["encode"] = "run"
  /\ \E r \in {read_sym(source, input, end)} :
       /\ ~r.more
       /\ source' = r.reader /\ end' = r.end
  /\ packed' = write_pair(LastPair, STOP_CODE, 0, StopWidth)
  /\ marks' = IF curr_node = EMPTY_CODE THEN marks
              ELSE Append(marks, Mark(Len(consumed)))
  /\ Goto("encode", "flush")
  /\ UNCHANGED <<next_code, total_bits, input, trie, curr_node, prev_node, prev_sym,
                 consumed, decoder>>

Flush ==
  /\ pc["encode"] = "flush"
  /\ packed' = [buf |-> << >>, file |-> flush_pairs(packed)]
  /\ Goto("encode", "exited")
  /\ UNCHANGED <<next_code, total_bits, input, source, end, trie, curr_node, prev_node,
                 prev_sym, consumed, marks, decoder>>

(* encode is killed, or exits when a read fails: its buffer is lost.        *)
Killed ==
  /\ pc["encode"] \in {"header", "run", "flush"}
  /\ Goto("encode", "killed")
  /\ UNCHANGED <<next_code, total_bits, input, encoder, decoder>>

Closed == pc["encode"] \in {"exited", "killed"}

----------------------------------------------------------------------------
(* decode: a read waits until something is in the pipe, or it is closed.    *)
Readable == Available(pairs, packed.file) > 0 \/ Closed

(* What the pipe cannot give of the header stays as the stack had it. *)
ReadHeader ==
  /\ pc["decode"] = "header" /\ Readable
  /\ pairs' = [pairs EXCEPT !.pos = Smaller(HEADER, Available(pairs, packed.file))]
  /\ Counted("decode", HEADER)
  /\ Goto("decode", "run")
  /\ UNCHANGED <<next_code, input, encoder, bits, table, words, output, stale>>

(* What decode has written, or has in its buffer. *)
Decoded == words.file \o words.buf

Running == pc["decode"] = "run" /\ Len(bits) < Width("decode")

(* A read of read_bytes: it goes on until the buffer is full or the pipe    *)
(* has ended.  After a killed encode the last block is never short: a read  *)
(* of nothing leaves the block before in the buffer, or the zeros it was    *)
(* made of, and decode takes that for the next one, as often as it comes to *)
(* the end of it.  A buffer run over is as far as the model looks.          *)
Fill ==
  /\ Running /\ UsedUp(pairs) /\ Readable
  /\ \E r \in {ReadOnce(pairs, packed.file)} :
       \/ /\ r.total > Len(r.buf)
          /\ Goto("decode", "overrun") /\ pairs' = r /\ UNCHANGED stale
       \/ /\ r.total < Len(r.buf) /\ r.pos > pairs.pos
          /\ pairs' = r /\ UNCHANGED <<pc, stale>>
       \/ /\ r.total = Len(r.buf) \/ r.pos = pairs.pos
          /\ pairs' = Filled(r)
          /\ IF r.total = 0 /\ pc["encode"] = "killed"
             THEN Len(stale) < MaxStale /\ stale' = Append(stale, Len(Decoded))
             ELSE UNCHANGED stale
          /\ UNCHANGED pc
  /\ UNCHANGED <<next_code, total_bits, input, encoder, bits, table, words, output>>

Take ==
  /\ Running /\ ~UsedUp(pairs)
  /\ \E t \in {TakeBits(pairs, bits, Width("decode"))} :
       pairs' = t.reader /\ bits' = t.bits
  /\ UNCHANGED <<pc, next_code, total_bits, input, encoder, table, words, output, stale>>

AddWordOffByOne(word, code) ==
  IF code + 1 > MAX_CODE
  THEN NextCodeIs("decode", START_CODE) /\ table' = EmptyTable
  ELSE NextCodeIs("decode", code + 1) /\ table' = Extended(table, code, word)

AddWord(word, code) ==
  IF code + 1 = MAX_CODE
  THEN NextCodeIs("decode", START_CODE) /\ table' = EmptyTable
  ELSE NextCodeIs("decode", code + 1) /\ table' = Extended(table, code, word)

word_append_sym(word, sym) == Append(word, sym)

Decode ==
  /\ pc["decode"] = "run" /\ Len(bits) = Width("decode")
  /\ \E p \in {PairOf(bits, bitlen(next_code["decode"]))} :
       \/ /\ p.code \in DOMAIN table
          /\ words' = write_word(words, word_append_sym(table[p.code], p.sym))
          /\ AddWord(word_append_sym(table[p.code], p.sym), next_code["decode"])
          /\ UNCHANGED <<pc, output>>
       \/ /\ p.code = STOP_CODE
          /\ Goto("decode", "done")
          /\ output' = flush_words(words)
          /\ UNCHANGED <<words, table, next_code>>
       \/ /\ p.code \notin DOMAIN table \cup {STOP_CODE}
          /\ Goto("decode", "crashed")
          /\ UNCHANGED <<words, output, table, next_code>>
  /\ bits' = << >>
  /\ Counted("decode", Width("decode"))
  /\ UNCHANGED <<input, encoder, pairs, stale>>

Next == \/ WriteHeader \/ Encode \/ EncodeEnd \/ Flush \/ Killed
        \/ ReadHeader \/ Fill \/ Take \/ Decode

Spec == Init /\ [][Next]_vars

----------------------------------------------------------------------------
(* The programs' variables have their types; the two buffers never hold     *)
(* more than a block.                                                       *)
TypeOK ==
  /\ pc["encode"] \in {"header", "run", "flush", "exited", "killed"}
  /\ pc["decode"] \in {"header", "run", "done", "crashed", "overrun"}
  /\ next_code \in [Programs -> START_CODE .. MAX_CODE - 1]
  /\ end \in -1 .. BLOCK
  /\ Len(packed.buf) <= BUFFER /\ Len(words.buf) <= BLOCK
  /\ source.index \in 0 .. BLOCK - 1 /\ pairs.index \in 0 .. BUFFER
  /\ DOMAIN table \subseteq {EMPTY_CODE} \cup START_CODE .. MAX_CODE - 1

(* No pair so far had a code wider than a symbol.  Wider codes are written  *)
(* wrong (EveryFileComesBack); with the 65535 codes of the program that     *)
(* happens long before a dictionary is dropped.                             *)
Narrow == \A k \in 1 .. Len(marks) : bitlen(marks[k].code) <= BITS

(* What decode wrote before it first went on with an old block: all of it,  *)
(* unless encode was killed.                                                *)
Sound == IF stale = << >> THEN Decoded ELSE SubSeq(Decoded, 1, stale[1])

(* As long as codes are narrow, what decode has written is at every moment  *)
(* the beginning of what encode took in: dictionaries that are built, and   *)
(* dropped, at different times by two programs that run side by side name   *)
(* the same words.  If encode is killed it holds for what came through the  *)
(* pipe; decode then writes on from the old block.                          *)
Restores == Narrow => IsPrefix(Sound, consumed)

(* The decoder reads every pair with the width it was written with, and not *)
(* one pair more, although the STOP pair may have another width and loses   *)
(* its last bits to the flush, for which RoundTrip has an exception.  (What *)
(* it takes from an old block after encode was killed has no such width.)   *)
InStep == pc["decode"] = "run" /\ stale = << >> =>
  total_bits["decode"] \in {HEADER} \cup {marks[k].bits : k \in DOMAIN marks}

(* When decode is done, as long as codes are narrow, the file is restored   *)
(* whole; it never meets a code without a word.  Excepted are the length    *)
(* read_sym mistakes; a last pair that completes the dictionary: next_code  *)
(* wraps to 0 in the encoder, whose STOP pair then has too few bits for the *)
(* decoder, which takes the rest of the code from the block before; and an  *)
(* encode that was killed: then decode may meet a code without a word, or   *)
(* end as if the stream were whole, with nothing if no block had come.      *)
LastPairFillsDictionary == curr_node # EMPTY_CODE /\ next_code["encode"] + 1 = MAX_CODE

RoundTrip == Narrow =>
  /\ pc["decode"] = "crashed" => LastPairFillsDictionary \/ stale # << >>
  /\ pc["decode"] = "done" /\ stale = << >> =>
       output = consumed /\ (Len(input) % BLOCK # BLOCK - 1 => output = input)

(* read_bytes asks for a whole buffer again after a short read: the reads   *)
(* of decode never go beyond its buffer, because the other end writes the   *)
(* header by itself and then whole buffers until the last.                  *)
NeverOverruns == pc["decode"] # "overrun"

(* "Encodes and decodes files": every file comes back as it was. *)
EveryFileComesBack == pc["decode"] # "crashed" /\ (pc["decode"] = "done" => output = input)
=============================================================================
