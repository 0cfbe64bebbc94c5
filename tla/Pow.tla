------------------------------- MODULE Pow -------------------------------
(***************************************************************************)
(* rami-core/src/pow.rs: compact targets ("bits"), the difficulty they     *)
(* stand for, and the LWMA-1 retarget that fixes the bits of every block.  *)
(*                                                                         *)
(* A target is a natural number of TargetBytes digits in base ByteBase     *)
(* (the code: 32 digits in base 256).  The compact code of a target keeps  *)
(* its two or three leading digits, so a compact code is represented by    *)
(* the target it decodes to: "bits" below is always a truncated target.    *)
(***************************************************************************)
EXTENDS Integers, FiniteSetsExt, Sequences

CONSTANTS
    ByteBase,        \* the base of a digit of the target (256 in the code)
    TargetBytes,     \* the digits of a target (32 in the code)
    LWMA_N,          \* blocks in the retarget window (60)
    TARGET_SPACING   \* target seconds between blocks (60)

ASSUME PowAssumption ==
    /\ ByteBase \in Nat \ {0, 1}
    /\ TargetBytes \in Nat \ {0}
    /\ LWMA_N \in Nat \ {0}
    /\ TARGET_SPACING \in Nat \ {0}

\* MAX256: every digit at its highest value.
MaxTarget == ByteBase ^ TargetBytes - 1

\* Implied by PowAssumption; stated because the provers know nothing of powers.
ASSUME MaxTargetAssumption == MaxTarget \in Nat \ {0}


AtMost(x, bound) == IF x > bound THEN bound ELSE x
AtLeast(x, bound) == IF x < bound THEN bound ELSE x

----------------------------------------------------------------------------

\* floor(MAX256 / difficulty)
TargetFromDifficulty(d) == MaxTarget \div d

\* The compact code keeps three leading digits, or two when the first one
\* would set the sign bit of the mantissa; the digits below are lost.
BitsFromTarget(target) ==
    IF target = 0 THEN 0
    ELSE LET size == CHOOSE k \in 1..TargetBytes :
                        ByteBase ^ (k - 1) <= target /\ target < ByteBase ^ k
             lead == target \div ByteBase ^ (size - 1)
             kept == IF 2 * lead >= ByteBase THEN 2 ELSE 3
             lost == IF size > kept THEN ByteBase ^ (size - kept) ELSE 1
         IN target - (target % lost)

\* Expected hashes per block.  Truncation lowered the target, so this is
\* never less than the difficulty the bits were computed from.
DifficultyFromBits(bits) ==
    IF bits = 0 THEN MaxTarget ELSE AtLeast(MaxTarget \div bits, 1)

BitsFromDifficulty(d) == BitsFromTarget(TargetFromDifficulty(d))

----------------------------------------------------------------------------

\* lwma_next_bits: window is a sequence of [timestamp, difficulty], oldest
\* first.  Under LWMA_N + 1 entries the answer is the floor difficulty.
SolveTime(window, start, j) ==
    AtMost(AtLeast(window[start + j].timestamp - window[start + j - 1].timestamp, 1),
           6 * TARGET_SPACING)

LwmaDifficulty(window, minDifficulty) ==
    LET start == Len(window) - LWMA_N
        Weight(j) == j * SolveTime(window, start, j)
        Work(j) == window[start + j].difficulty
        k == (LWMA_N * (LWMA_N + 1)) \div 2
        weighted == AtLeast(MapThenSumSet(Weight, 1..LWMA_N), (k * TARGET_SPACING) \div 8)
        sumWork == MapThenSumSet(Work, 1..LWMA_N)
        next == (sumWork * k * TARGET_SPACING) \div (LWMA_N * weighted)
        last == window[Len(window)].difficulty
    IN AtLeast(AtLeast(AtMost(next, 4 * last), AtLeast(last \div 4, 1)), minDifficulty)

LwmaNextBits(window, minDifficulty) ==
    IF Len(window) < LWMA_N + 1
    THEN BitsFromDifficulty(minDifficulty)
    ELSE BitsFromDifficulty(LwmaDifficulty(window, minDifficulty))
==========================================================================
