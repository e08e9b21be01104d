------------------------------ MODULE SchmidtSamoa ------------------------------
(***************************************************************************)
(* ss.c: keys from two primes, numbers and files through them.  A byte has *)
(* BYTE bits, 8 in the code, so that a block of several bytes fits in a    *)
(* number that TLC can square.  A line of hexadecimal digits is the number *)
(* it denotes.                                                             *)
(***************************************************************************)
EXTENDS NumberTheory

CONSTANT BYTE
ASSUME ByteAssumption == BYTE \in Nat \ {0}

SizeInBits[n \in Nat] == IF n <= 1 THEN 1 ELSE 1 + SizeInBits[n \div 2]

Modulus(p, q) == p * p * q

LambdaHalf(p, q) == (p - 1) \div gcd(p - 1, q - 1)
LambdaOf(p, q) == ((p - 1) \div gcd(p - 1, q - 1)) * (q - 1)

ss_make_pub(p, q) == Modulus(p, q)
ss_make_priv(p, q) == [pq |-> p * q, d |-> mod_inverse(Modulus(p, q), LambdaOf(p, q))]

ss_encrypt(m, n) == pow_mod(m, n, n)
ss_decrypt(c, key) == pow_mod(c, key.d, key.pq)

----------------------------------------------------------------------------
(* mpz_import and mpz_export, most significant byte first; export leaves    *)
(* out leading zeros.                                                       *)
Import(block) == FoldLeft(LAMBDA x, b : x * 2^BYTE + b, 0, block)

Export[x \in Nat] == IF x = 0 THEN << >> ELSE Append(Export[x \div 2^BYTE], x % 2^BYTE)

BlockSize(n) == (SizeInBits[n] \div 2 - 2) \div BYTE

Zeros(k) == [i \in 1 .. k |-> 0]

(* A full block begins with 0xFF, a short one with the number read.         *)
Block(data, size) ==
  <<IF Len(data) < size - 1 THEN Len(data) % 2^BYTE ELSE 2^BYTE - 1>>
    \o data \o Zeros(size - 1 - Len(data))

(* 0 and 1 are raised to 2. *)
Message(block) == LET m == Import(block) IN IF m < 2 THEN 2 ELSE m

(* feof is only true after a read that came short, of no bytes possibly. *)
Blocks(file, size) ==
  LET read == size - 1
      data(i) == SubSeq(file, (i - 1) * read + 1, Min({i * read, Len(file)}))
  IN [i \in 1 .. Len(file) \div read + 1 |-> Block(data(i), size)]

ss_encrypt_file(file, n) ==
  [i \in DOMAIN Blocks(file, BlockSize(n)) |->
     ss_encrypt(Message(Blocks(file, BlockSize(n))[i]), n)]

(* The bytes of the message but the first are written.  fgets takes a line  *)
(* whole: encrypt reads n from a line of 511 digits at most, so that no     *)
(* ciphertext reaches the 1023 at which decrypt would cut it.               *)
ss_decrypt_file(lines, key) ==
  FoldLeft(LAMBDA out, c : out \o Tail(Export[ss_decrypt(c, key)]), << >>, lines)
=============================================================================
