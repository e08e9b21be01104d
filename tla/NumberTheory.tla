------------------------------ MODULE NumberTheory ------------------------------
(***************************************************************************)
(* numtheory.c of SCHMIDT-SAMOA_PUBLIC_PRIVATE_KEY_ENCRYPTION.  GMP's      *)
(* numbers are integers; a loop is a function of its variables.            *)
(***************************************************************************)
EXTENDS Integers, FiniteSetsExt, SequencesExt

(* mpz_divexact_ui by 2 is also given odd numbers, for which GMP promises   *)
(* nothing; its shift rounds down.                                          *)
Half(exp) == exp \div 2

PowVars == [o : Nat, base : Nat, exp : Nat]

PowRound(s, n) ==
  [o |-> IF s.exp % 2 = 1 THEN (s.o * s.base) % n ELSE s.o,
   base |-> (s.base * s.base) % n,
   exp |-> Half(s.exp)]

PowLoop(n) ==
  LET loop[s \in PowVars] == IF s.exp > 0 THEN loop[PowRound(s, n)] ELSE s.o IN loop

pow_mod(a, d, n) == PowLoop(n)[[o |-> 1, base |-> a % n, exp |-> d]]

GcdLoop[s \in Nat \X Nat] == IF s[2] # 0 THEN GcdLoop[<<s[2], s[1] % s[2]>>] ELSE s[1]

Magnitude(a) == IF a < 0 THEN -a ELSE a

gcd(a, b) == GcdLoop[<<Max({Magnitude(a), Magnitude(b)}), Min({Magnitude(a), Magnitude(b)})>>]

----------------------------------------------------------------------------
Twos[r \in Nat \ {0}] == IF r % 2 = 0 THEN 1 + Twos[r \div 2] ELSE 0

(* y is squared before each comparison but the first. *)
Square(y, n) == pow_mod(y, 2, n)

MinusOneWithin(y, rounds, n) ==
  LET squared[j \in Nat] == IF j = 0 THEN y ELSE Square(squared[j - 1], n)
  IN \E j \in 0 .. rounds - 1 : squared[j] = n - 1

ReachesOneRoundLess(y, s, n) == MinusOneWithin(y, s - 1, n)
ReachesMinusOne(y, s, n) == MinusOneWithin(y, s, n)

(* One round, with a drawn from 0 .. n - 1: the numbers 0, 1 and n - 1 are  *)
(* passed over, but count as a round.                                       *)
Passes(a, n) ==
  \/ a <= 1
  \/ a >= n - 1
  \/ LET s == Twos[n - 1]
         y == pow_mod(a, (n - 1) \div 2^s, n)
     IN (y = 1 \/ ReachesMinusOne(y, s, n)) /\ gcd(a, n) = 1

(* draws is the sequence of the random numbers, one for each iteration.     *)
is_prime(n, draws) ==
  CASE n < 2 -> FALSE
    [] n = 2 -> TRUE
    [] n > 2 /\ n % 2 = 0 -> FALSE
    [] OTHER -> \A i \in DOMAIN draws : Passes(draws[i], n)

----------------------------------------------------------------------------
InverseVars == [r : Nat, r0 : Nat, t : Int, t0 : Int]

InverseRound(s) ==
  LET q == s.r \div s.r0
  IN [r |-> s.r0, r0 |-> s.r - q * s.r0, t |-> s.t0, t0 |-> s.t - q * s.t0]

InverseLoop[s \in InverseVars] == IF s.r0 # 0 THEN InverseLoop[InverseRound(s)] ELSE s

InverseOf(a, n) == InverseLoop[[r |-> n, r0 |-> a, t |-> 0, t0 |-> 1]]

InverseUnwrapped(a, n) == IF gcd(a, n) # 1 THEN 0 ELSE InverseOf(a, n).t

mod_inverse(a, n) ==
  IF gcd(a, n) # 1 THEN 0
  ELSE LET e == InverseOf(a, n)
       IN CASE e.r > 1 -> 0
            [] e.r <= 1 /\ e.t < 0 -> e.t + n
            [] OTHER -> e.t
=============================================================================
