-------------------------- MODULE MatrixInspector --------------------------
(***************************************************************************)
(* The scorecard of a live run (src/matrix_inspector.cpp): snapshots of the  *)
(* plant are recorded, and an evaluation feeds all of them to EvtEngine and  *)
(* CbfVerifier.  Temperatures are in degrees, latencies as the engine gets   *)
(* them.                                                                    *)
(***************************************************************************)
EXTENDS EvtEngine, CbfVerifier

CONSTANTS MaxSafe,       \* max_safe_temp_c
          Temps,         \* temperatures that are measured
          Latencies,     \* mitigation latencies that are measured
          MaxSnapshots   \* bound: snapshots between two resets

VARIABLE snapshots

vars == <<snapshots>>

Snapshot == [temp : Temps, latency : Latencies]

Init == snapshots = <<>>

RecordLiveSnapshot(s) == snapshots' = Append(snapshots, s)

Reset == snapshots' = <<>>

Next == \/ /\ Len(snapshots) < MaxSnapshots
           /\ \E s \in Snapshot : RecordLiveSnapshot(s)
        \/ Reset
-----------------------------------------------------------------------------
LatencySamples == [i \in 1 .. Len(snapshots) |-> snapshots[i].latency]

(* Wrong on purpose, as is MaxTempWrong below: the sign of the derivative. *)
CbfTrajectoryWrong ==
    [i \in 1 .. Len(snapshots) |->
        [h    |-> MaxSafe - snapshots[i].temp,
         hDot |-> IF i > 1 THEN 10 * (snapshots[i].temp - snapshots[i - 1].temp) ELSE 0]]

(* One snapshot every 0.1 s. *)
CbfTrajectory ==
    [i \in 1 .. Len(snapshots) |->
        [h    |-> MaxSafe - snapshots[i].temp,
         hDot |-> IF i > 1 THEN - 10 * (snapshots[i].temp - snapshots[i - 1].temp) ELSE 0]]

(* the last temperature instead of the highest *)
MaxTempWrong == Max({0, snapshots[Len(snapshots)].temp})

MaxTemp == Max({0} \cup {snapshots[i].temp : i \in 1 .. Len(snapshots)})

(* The scorecard, with the defaults of LiveInspectionScorecard when there is    *)
(* nothing to evaluate.  The inspector asks the engine from 1000 snapshots on,   *)
(* and 1000 is the block size of the engine it builds.                           *)
EvaluateLiveRun ==
    IF snapshots = <<>>
    THEN [valid |-> FALSE, total |-> 0, maxTemp |-> 0, margin |-> 0,
          safe |-> TRUE, slaMet |-> TRUE]
    ELSE [valid   |-> TRUE,
          total   |-> Len(snapshots),
          maxTemp |-> MaxTemp,
          margin  |-> VerifyTrajectory(CbfTrajectory).margin,
          safe    |-> MaxTemp <= MaxSafe,
          slaMet  |-> IF Len(snapshots) >= BlockSize
                      THEN WcetBound(LatencySamples).deadlineSatisfied ELSE TRUE]
-----------------------------------------------------------------------------
(* What the certificate certifies: the run starts inside the safe set and from   *)
(* one snapshot to the next never loses more than one part in 21 of its margin,  *)
(* which is what dh/dt + h/2 >= 0 amounts to with h taken after a step of 0.1 s. *)
CertificateMeaning ==
    LET h == [i \in 1 .. Len(snapshots) |-> MaxSafe - snapshots[i].temp]
    IN  VerifyTrajectory(CbfTrajectory).safe <=>
            /\ snapshots # <<>>
            /\ h[1] >= 0
            /\ \A i \in 2 .. Len(snapshots) : 21 * h[i] >= 20 * h[i - 1]

(* Once two blocks are complete, a scorecard that says the deadlines are met     *)
(* never contradicts a latency in a complete block.  (From 75 blocks on, one     *)
(* outlier among equal maxima no longer lifts the bound above itself.)           *)
SlaCoversCompleteBlocks ==
    NumBlocks(LatencySamples) \in 2 .. 74 /\ EvaluateLiveRun.slaMet =>
        \A k \in 1 .. NumBlocks(LatencySamples) * BlockSize : snapshots[k].latency <= Deadline
=============================================================================
