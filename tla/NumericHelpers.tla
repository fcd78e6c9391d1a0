--------------------------- MODULE NumericHelpers ---------------------------
(***************************************************************************)
(* The integer functions of EasyCL (src/EasyCL.cpp) a client computes its  *)
(* work sizes with, on integers of Width bits in two's complement: roundUp *)
(* and getPower2Upperbound, which getNextPower2 calls.  Overflow wraps     *)
(* around, which is what the compilers at hand make of it.                 *)
(***************************************************************************)
EXTENDS Integers

CONSTANT Width \* bits of an int: 32

ASSUME WidthAssumption == Width \in Nat \ {0, 1}

(* Powers of two.                                                          *)
TwoTo[n \in 0 .. Width] == IF n = 0 THEN 1 ELSE 2 * TwoTo[n - 1]

MaxInt == TwoTo[Width - 1] - 1
Ints == (-MaxInt - 1) .. MaxInt
Wrap(n) == ((n + MaxInt + 1) % TwoTo[Width]) - (MaxInt + 1)

VARIABLE call \* the call in progress or done last

(* Integer division as in C++, towards zero.                               *)
Quotient(n, d) == IF n >= 0 THEN n \div d ELSE -((-n) \div d)

(* Slip: one more whenever there is a remainder.                           *)
RoundUpAlways(quantization, minimum) ==
  LET size == Quotient(minimum, quantization) * quantization
  IN  IF size # minimum THEN Wrap(size + quantization) ELSE size

(* For a positive quantization.                                            *)
RoundUp(quantization, minimum) ==
  LET size == Quotient(minimum, quantization) * quantization
  IN  IF size < minimum THEN Wrap(size + quantization) ELSE size

CallRoundUp(quantization, minimum) ==
  /\ call.op # "power2"
  /\ call' = [op |-> "roundUp", quantization |-> quantization, minimum |-> minimum,
              size |-> RoundUp(quantization, minimum)]

(* getPower2Upperbound(value): the loop, and its end.                      *)
CallPower2(value) ==
  /\ call.op # "power2"
  /\ call' = [op |-> "power2", value |-> value, upperbound |-> 1]

(* Slip: the bound is doubled once it has been reached.                    *)
DoublingAtBound == call.op = "power2" /\ call.upperbound <= call.value

(* The condition of the loop.                                              *)
Doubling == call.op = "power2" /\ call.upperbound < call.value
Power2Step == /\ Doubling
              /\ call' = [call EXCEPT !.upperbound = Wrap(2 * @)]
Power2Returns == /\ call.op = "power2" /\ ~Doubling
                 /\ call' = [call EXCEPT !.op = "power2Done"]

NumericInit == call = [op |-> "none"]
NumericNext == \/ \E quantization \in 1 .. MaxInt, minimum \in Ints :
                    CallRoundUp(quantization, minimum)
               \/ \E value \in Ints : CallPower2(value)
               \/ Power2Step \/ Power2Returns

(* The loop runs as long as its condition holds.                           *)
NumericSpec == NumericInit /\ [][NumericNext]_call
                           /\ WF_call(Power2Step \/ Power2Returns)
-----------------------------------------------------------------------------
(* roundUp returns the least multiple of the quantization that is not less *)
(* than the minimum (README.md:142), negative or not, whenever an int can  *)
(* hold it: no intermediate result overflows.                              *)
LeastMultiple(quantization, minimum) == minimum + ((-minimum) % quantization)
RoundUpIsLeast ==
  call.op = "roundUp" =>
    LET least == LeastMultiple(call.quantization, call.minimum)
    IN  least <= MaxInt => call.size = least

(* What getPower2Upperbound returns, if it does, is the least power of two *)
(* that is not less than the value, though the bound may wrap around.      *)
Power2IsLeast ==
  call.op = "power2Done" =>
    /\ call.upperbound \in {TwoTo[n] : n \in 0 .. Width - 2}
    /\ call.value <= call.upperbound
    /\ call.upperbound = 1 \/ call.upperbound \div 2 < call.value

(* It returns if there is such a power of two in an int; if there is none  *)
(* the bound becomes 0 and stays there.                                    *)
Power2Ends ==
  call.op = "power2" /\ call.value <= TwoTo[Width - 2] ~> call.op # "power2"
=============================================================================
