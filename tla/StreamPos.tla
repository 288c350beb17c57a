------------------------------ MODULE StreamPos ------------------------------
(***************************************************************************)
(* Wrapping stream positions and their comparison: the `StreamPos` type    *)
(* (a Wrapping<u32>) and the stream_* functions at the top of windows.rs.  *)
(*                                                                         *)
(* The width is a parameter: the code has HalfRange = 2^31.  Addition and  *)
(* subtraction are written with one conditional correction instead of %,   *)
(* which is the same function on operands below Modulus.                   *)
(***************************************************************************)
EXTENDS Integers

CONSTANT HalfRange   \* half the number of stream positions; 2^31 in the code

ASSUME HalfRangeAssumption == HalfRange \in Nat /\ HalfRange >= 2

Modulus == 2 * HalfRange

StreamPositions == 0 .. (Modulus - 1)

(***************************************************************************)
(* u32::MAX / 2, the largest window capacity and the largest packet that   *)
(* the windows accept.                                                     *)
(***************************************************************************)
MaxWindow == HalfRange - 1

WrapAdd(a, b) == IF a + b >= Modulus THEN a + b - Modulus ELSE a + b

WrapSub(a, b) == IF a >= b THEN a - b ELSE a - b + Modulus

(***************************************************************************)
(* stream_cmp: compare the way round from a to b with the way round from   *)
(* b to a.  "None" is the answer for two different, opposite positions.    *)
(***************************************************************************)
stream_cmp(a, b) ==
  CASE a # b /\ WrapSub(b, a) = WrapSub(a, b) -> "None"
    [] WrapSub(b, a) < WrapSub(a, b)          -> "Less"
    [] WrapSub(b, a) > WrapSub(a, b)          -> "Greater"
    [] OTHER                                  -> "Equal"

stream_lt(a, b) == stream_cmp(a, b) = "Less"
stream_le(a, b) == stream_cmp(a, b) \in {"Less", "Equal"}
stream_gt(a, b) == stream_cmp(a, b) = "Greater"
stream_ge(a, b) == stream_cmp(a, b) \in {"Greater", "Equal"}

=============================================================================
