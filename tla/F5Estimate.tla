----------------------------- MODULE F5Estimate -----------------------------
(***************************************************************************)
(* The arithmetic of the F5 test (f5.c): from how often the values 0 to 3  *)
(* occur at one frequency in the picture (h) and in its estimated original *)
(* (H), betakl() computes the rate at which F5 would have shrunk           *)
(* coefficients.  The products are of type int: what does not fit wraps.   *)
(* A quotient is a record of its two parts, and one of 0 is NaN.           *)
(***************************************************************************)
EXTENDS Integers

CONSTANT IntHalf  \* an int holds -IntHalf .. IntHalf - 1

ASSUME F5Assumption == IntHalf \in Nat \ {0}

Counts == [0..3 -> Nat]

IntRange == -IntHalf .. IntHalf - 1

Wrapped(x) == IF x \in IntRange THEN x
              ELSE ((x + IntHalf) % (2 * IntHalf)) - IntHalf

Square(x) == x * x

(* What betakl() multiplies: the zeros the picture has too many, the ones  *)
(* it has too few, and what a step from 2 to 1 replaces.                   *)
ZerosGained(h, H) == h[0] - H[0]
OnesGained(h, H)  == h[1] - H[1]
OnesFed(H)        == H[2] - H[1]

Products(h, H) == <<H[1] * ZerosGained(h, H), OnesGained(h, H) * OnesFed(H),
                    Square(H[1]), Square(OnesFed(H))>>

Fits(h, H) == \A i \in 1..4 : Products(h, H)[i] \in IntRange

\* Mutant: the ones are compared with the twos the picture has.
betaklOwn(h, H) ==
    [num |-> Wrapped(Products(h, H)[1]) + Wrapped(OnesGained(h, H) * OnesFed(h)),
     den |-> Wrapped(Products(h, H)[3]) + Wrapped(Products(h, H)[4])]

betakl(h, H) ==
    [num |-> Wrapped(Products(h, H)[1]) + Wrapped(Products(h, H)[2]),
     den |-> Wrapped(Products(h, H)[3]) + Wrapped(Products(h, H)[4])]

(* q^2 times the first two terms of f5_ekl() for the rate p/q: how far the *)
(* zeros and the ones are from those of an original shrunk at that rate.   *)
Misfit(h, H, p, q) ==
    Square(q * ZerosGained(h, H) - p * H[1])
        + Square(q * OnesGained(h, H) - p * OnesFed(H))

(* q^2 times f5_ekl(), with its third term for the twos.                   *)
f5_ekl(h, H, p, q) ==
    Misfit(h, H, p, q)
        + Square(q * h[2] - (q - p) * H[2] - p * H[3])

(* The rate p/q fits the zeros and ones no better than that of betakl(),   *)
(* both misfits multiplied by the squares of the two denominators.         *)
NoBetter(h, H, p, q) ==
    LET b == betakl(h, H)
    IN Misfit(h, H, b.num, b.den) * Square(q) <= Misfit(h, H, p, q) * Square(b.den)

(* What F5 leaves of an original H at the rate p/q, as Fridrich, Goljan    *)
(* and Hogea describe it: of each value a share of p/q is taken one lower. *)
ShrunkAt(h, H, p, q) ==
    /\ q * h[0] = q * H[0] + p * H[1]
    /\ \A d \in 1..2 : q * h[d] = (q - p) * H[d] + p * H[d + 1]
=============================================================================
