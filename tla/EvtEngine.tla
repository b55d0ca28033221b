----------------------------- MODULE EvtEngine -----------------------------
(***************************************************************************)
(* The worst-case latency estimate (src/evt_engine.cpp): a Gumbel            *)
(* distribution is fitted to the maxima of blocks of samples by the method   *)
(* of moments, and its 99.999 % quantile is compared with the deadline.      *)
(* Both callers fill a local engine and ask once, so the engine is a         *)
(* function of the samples.                                                 *)
(***************************************************************************)
EXTENDS Integers, Sequences, FiniteSetsExt

CONSTANTS BlockSize,   \* block_size
          Deadline     \* deadline_ns

ASSUME BlockAssumption == BlockSize \in Nat \ {0}
ASSUME DeadlineAssumption == Deadline \in Nat

(* The samples after the last complete block are left out. *)
NumBlocks(samples) == Len(samples) \div BlockSize

Block(samples, i) == {samples[k] : k \in (i - 1) * BlockSize + 1 .. i * BlockSize}

(* the last sample of the block instead of the largest *)
MaximumWrong(samples, i) == samples[i * BlockSize]

Maximum(samples, i) == Max(Block(samples, i))

(* The quantile is mean + c * deviation with c = 8.5265...: 727 is c squared in   *)
(* tenths, rounded down, so that a bound which meets the deadline in the code     *)
(* meets it here.  With n maxima of sum s and sum of squares q, the mean is s / n  *)
(* and the variance (n q - s^2) / (n (n - 1)).                                   *)
CSquared == 727

Square(x) == x * x

BoundMeetsDeadline(samples) ==
    LET n == NumBlocks(samples)
        maxima == [i \in 1 .. n |-> Maximum(samples, i)]
        s == SumFunction(maxima)
        q == SumFunction([i \in 1 .. n |-> Square(maxima[i])])
    IN  /\ s <= n * Deadline
        /\ CSquared * n * (n * q - Square(s)) <= 10 * (n - 1) * Square(n * Deadline - s)

(* deadline_satisfied starts out true and stays so when nothing can be fitted.  *)
WcetBound(samples) ==
    LET valid == Len(samples) >= BlockSize /\ NumBlocks(samples) >= 2
    IN  [valid |-> valid, deadlineSatisfied |-> valid => BoundMeetsDeadline(samples)]
=============================================================================
