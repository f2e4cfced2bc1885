------------------------------- MODULE Random -------------------------------
(***************************************************************************)
(* class Random (src/LearnCC/util/random.h): the Park-Miller generator     *)
(* seed_ = seed_ * 16807 mod (2^31 - 1), computed without a division as    *)
(* (product >> 31) + (product & M), then one conditional subtraction.      *)
(*                                                                         *)
(* The product needs 46 bits and TLC's integers have 32, so Next splits    *)
(* the seed into 16-bit halves and forms product >> 31 and product & M     *)
(* exactly, as the uint64_t arithmetic does; the sum is a uint32_t.  A     *)
(* uint32_t constructor argument is given as its top bit and its low 31    *)
(* bits, since 2^31 itself is no TLC integer.                              *)
(***************************************************************************)
EXTENDS Integers, Sequences

M == 2147483647      \* 2^31 - 1
A == 16807           \* 7^5

\* Random::Random(s): seed_ = s & 0x7fffffff, and the two bad seeds 0 and
\* M (which Next would map to themselves for ever) become 1.
RandomInit(top, low) ==
    LET s == low IN IF s = 0 \/ s = M THEN 1 ELSE s

\* product >> 31 and product & M of product = seed * A, exactly.
ProductHigh(seed) ==
    LET ph == (seed \div 65536) * A
        pl == (seed % 65536) * A
        r  == ph % 32768
    IN  (ph \div 32768) + (IF r > 0 /\ pl >= (32768 - r) * 65536 THEN 1 ELSE 0)

ProductLow(seed) ==
    LET ph == (seed \div 65536) * A
        pl == (seed % 65536) * A
        r  == ph % 32768
    IN  IF r > 0 /\ pl >= (32768 - r) * 65536
        THEN pl - (32768 - r) * 65536
        ELSE r * 65536 + pl

\* Faulty variant of Next that folds the sum with "seed_ &= M" instead of
\* "seed_ -= M".
NextMaskFold(seed) ==
    LET hi == ProductHigh(seed)
        lo == ProductLow(seed)
    IN  IF lo > M - hi THEN lo - (M - hi) - 1 ELSE hi + lo

\* Random::Next: seed_ = (product >> 31) + (product & M); the sum may
\* exceed M by the carry, so subtract M once if it does.  The sum is
\* compared with M without forming it, as it may be 2^31.
Next(seed) ==
    LET hi == ProductHigh(seed)
        lo == ProductLow(seed)
    IN  IF lo > M - hi THEN lo - (M - hi) ELSE hi + lo

\* Uniform(n), OneIn(n): one draw, reduced mod n.  Skewed(max_log): a draw
\* picks the number of bits b, a second draw is reduced mod 2^b.  Each
\* returns the new seed and the value.
Uniform(seed, n) == [seed |-> Next(seed), value |-> Next(seed) % n]
OneIn(seed, n) == [seed |-> Next(seed), value |-> Next(seed) % n = 0]
Skewed(seed, max_log) ==
    LET b == Uniform(seed, max_log + 1) IN Uniform(b.seed, 2 ^ b.value)

\* Reference: seed * A mod M by Schrage's method, whose intermediate values
\* stay below 2^31.
RefNext(seed) ==
    LET t == A * (seed % (M \div A)) - (M % A) * (seed \div (M \div A))
    IN  IF t >= 0 THEN t ELSE t + M

\* The first n seeds a generator produces from seed s.
RECURSIVE Draws(_, _)
Draws(s, n) == IF n = 0 THEN <<>> ELSE <<Next(s)>> \o Draws(Next(s), n - 1)
=============================================================================
