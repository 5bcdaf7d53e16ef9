------------------------------ MODULE Numerals ------------------------------
(***************************************************************************)
(* Numbers and their digits, of so many bits each: what shifts and ors of  *)
(* unsigned words amount to.  The wire forms of an integer are made of it. *)
(***************************************************************************)
EXTENDS Integers, Sequences

\* 1 << k, in a word that has room for it.
Pow2[k \in Nat] == IF k = 0 THEN 1 ELSE 2 * Pow2[k - 1]

\* The number whose n digits of so many bits are d[0], d[1] and so on, the
\* least significant first: each is shifted to its place and or-ed in.
Numeral(d, bits, n) ==
    LET sum[k \in 0..n] == IF k = 0 THEN 0 ELSE sum[k - 1] + d[k - 1] * Pow2[bits * (k - 1)]
    IN  sum[n]
=============================================================================
