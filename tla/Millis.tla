------------------------------- MODULE Millis -------------------------------
(***************************************************************************)
(* The millisecond clock of the device: millis() is an unsigned counter    *)
(* that wraps, Modulus is 2^32 on the target.  Timestamps are compared     *)
(* with isBefore() of include/og3/util.h, whose answer is only an order    *)
(* while the compared times lie within half the range of one another.      *)
(***************************************************************************)
EXTENDS Integers

CONSTANT Modulus    \* number of values of the unsigned long that millis() returns

ASSUME ModulusAssumption == Modulus \in Nat /\ Modulus > 1

Time == 0 .. Modulus - 1

(* Unsigned addition and subtraction, with the carry written out: both     *)
(* operands are in Time, so one correction by Modulus is enough.           *)
Plus(t, d) == IF t + d < Modulus THEN t + d ELSE t + d - Modulus
Minus(t2, t1) == IF t1 <= t2 THEN t2 - t1 ELSE t2 - t1 + Modulus

(* Half of the largest value, the bound that isBefore() compares with.     *)
HalfRange == (Modulus - 1) \div 2

IsBefore(t1, t2) == Minus(t2, t1) < HalfRange
=============================================================================
