----------------------------- MODULE Evaluators -----------------------------
(* The evaluators share no state and are used one at a time: a behaviour       *)
(* belongs to one of them (unit), and only that one moves.  For those that are  *)
(* functions of their input, input is it, or grows by one element at a time.     *)
EXTENDS EvtEngine, DimensionHandshake, FederatedEvaluator, QuantProfiler

CONSTANTS EventsFor(_), MaxEvents, MaxSafe, Temps, Latencies, MaxSnapshots, ClearingSla,
          Times, MaxSamples, Threshold, MaxFrames, Cells, Scores, BwtMinThreshold,
          SeqBits, Cycles, HonestGradients, ByzantineGradients, MaxClients,
          LogitPairs, Attributions, MaxFeatures

(* Degrees, latencies, scores, gradients and attributions are whole, the limit of   *)
(* the plant, 120 by default, is not below 0; time is counted from 0, as are polls  *)
(* and tasks, and a number of SeqBits bits takes finitely many values.            *)
ASSUME PlantAssumption == Temps \subseteq Int /\ MaxSafe \in Nat /\ Threshold \in Int
ASSUME TimeAssumption == Times \subseteq Nat
ASSUME LatencyAssumption == Latencies \subseteq Nat
ASSUME DriftAssumption ==
    Cells \subseteq Nat \X Nat /\ Scores \subseteq Int /\ BwtMinThreshold \in Int
ASSUME SessionAssumption == Cycles \subseteq Nat /\ 2 ^ SeqBits \in Nat \ {0}
ASSUME GradientAssumption ==
    HonestGradients \cup ByzantineGradients \subseteq [size : Nat, value : Int]
ASSUME LogitAssumption == LogitPairs \subseteq Seq(Int) \X Seq(Int)
ASSUME AttributionAssumption == Attributions \subseteq Int

VARIABLES unit, latencies, recorded, metrics, snapshots, trajectory, frames, matrix,
          cycles, currentState, seqNum, pollingCount, session, input

benchVars == <<latencies, recorded, metrics>>
fuzzVars == <<cycles, currentState, seqNum, pollingCount, session>>
vars == <<unit, benchVars, snapshots, trajectory, frames, matrix, fuzzVars, input>>

Bench == INSTANCE Benchmarker WITH EventsNumber <- EventsFor
Inspector == INSTANCE MatrixInspector
Hil == INSTANCE HilCoupler
Fdia == INSTANCE FdiaEngine
Drift == INSTANCE DriftProfiler
Fuzzer == INSTANCE StatefulFuzzer

ASSUME EventAssumption ==
    MaxEvents \in Nat /\ \A k \in 1 .. MaxEvents : EventsFor(k) \subseteq Bench!Event

Client == [gradient : HonestGradients, byzantine : {FALSE}]
          \cup [gradient : ByzantineGradients, byzantine : {TRUE}]
(* Two vectors of logits and two of attributions. *)
Drifted == [exact : Seq(Int), quantised : Seq(Int),
            attr : Seq(Attributions), quantAttr : Seq(Attributions)]

Init == /\ unit \in {"bench", "inspector", "hil", "fdia", "drift", "fuzzer", "krum", "quant", "handshake"}
        /\ Bench!Init /\ Inspector!Init /\ Hil!Init /\ Fdia!Init /\ Drift!Init
        /\ Fuzzer!Init
        /\ unit # "fuzzer" => cycles = CHOOSE n \in Cycles : TRUE
        /\ input = <<>>

GivesLogits ==
    /\ input = <<>>
    /\ \E pair \in LogitPairs :
          input' = [exact |-> pair[1], quantised |-> pair[2], attr |-> <<>>, quantAttr |-> <<>>]

(* The two vectors of attributions need not have the same length. *)
GivesAttribution ==
    /\ input # <<>>
    /\ \E x \in Attributions :
          \/ /\ Len(input.attr) < MaxFeatures /\ input.quantAttr = <<>>
             /\ input' = [input EXCEPT !.attr = Append(@, x)]
          \/ /\ Len(input.quantAttr) < MaxFeatures
             /\ input' = [input EXCEPT !.quantAttr = Append(@, x)]

Next ==
    /\ UNCHANGED unit
    /\ \/ /\ unit = "bench" /\ Bench!Next
          /\ UNCHANGED <<snapshots, trajectory, frames, matrix, fuzzVars, input>>
       \/ /\ unit = "inspector" /\ Inspector!Next
          /\ UNCHANGED <<benchVars, trajectory, frames, matrix, fuzzVars, input>>
       \/ /\ unit = "hil" /\ Hil!Next
          /\ UNCHANGED <<benchVars, snapshots, frames, matrix, fuzzVars, input>>
       \/ /\ unit = "fdia" /\ Fdia!Next
          /\ UNCHANGED <<benchVars, snapshots, trajectory, matrix, fuzzVars, input>>
       \/ /\ unit = "drift" /\ Drift!Next
          /\ UNCHANGED <<benchVars, snapshots, trajectory, frames, fuzzVars, input>>
       \/ /\ unit = "fuzzer" /\ Fuzzer!Next
          /\ UNCHANGED <<benchVars, snapshots, trajectory, frames, matrix, input>>
       \/ /\ unit = "krum" /\ Len(input) < MaxClients
          /\ \E c \in Client : input' = Append(input, c)
          /\ UNCHANGED <<benchVars, snapshots, trajectory, frames, matrix, fuzzVars>>
       \/ /\ unit = "quant"
          /\ GivesLogits \/ GivesAttribution
          /\ UNCHANGED <<benchVars, snapshots, trajectory, frames, matrix, fuzzVars>>
       \/ /\ unit = "handshake" /\ input = <<>>
          /\ \E n \in 0 .. MaxDimensions + 1 : \E size \in 0 .. BlastFrame(n).size :
                input' = <<n, size>>
          /\ UNCHANGED <<benchVars, snapshots, trajectory, frames, matrix, fuzzVars>>

Spec == Init /\ [][Next]_vars
-----------------------------------------------------------------------------
(* The matrix of compute_metrics counts the labelled events of its sample, and    *)
(* its scores are those of the textbook.                                         *)
MatrixIsTextbook == Bench!MatrixIsTextbook

(* The percentiles of compute_metrics have the right rank, at every sample size.  *)
PercentilesBracketed == Bench!PercentilesBracketed

(* The certificate of verify_trajectory means a slow enough loss of margin.      *)
CertificateMeaning == Inspector!CertificateMeaning

(* A scorecard that says the deadlines are met contradicts no complete block.    *)
SlaCoversCompleteBlocks == Inspector!SlaCoversCompleteBlocks

(* The clearing time of compute_hil_metrics is that of the first breach.         *)
ClearingIsFirstBreach == Hil!ClearingIsFirstBreach

(* A detection counts, and is timed, from the first true breach.                *)
AlertFollowsBreach == Fdia!AlertFollowsBreach

(* compute_drift_metrics adds up what the tasks lost from training to training.  *)
ForgettingIsSeen == Drift!ForgettingIsSeen

(* Every session of the generator plays the script from its beginning.           *)
SessionFollowsScript == Fuzzer!SessionFollowsScript

(* The gradient Krum selects is near an honest one, or of another size.         *)
KrumStaysNear == unit = "krum" => StaysNear(input)

(* A satisfied SLA of evaluate_backend_drift means that no two features changed  *)
(* places and that the logits are not opposed.                                  *)
SlaMeansSameRanking ==
    unit = "quant" /\ input # <<>> =>
        RankingKept(input.exact, input.quantised, input.attr, input.quantAttr)

(* validate_frame and extract_features read what the injector packed, and nothing  *)
(* beyond the bytes that arrived.                                               *)
HandshakeReadsOwnBytes ==
    unit = "handshake" /\ input # <<>> => ReadsOwnBytes(input[1], input[2])

(* Three verdicts on the same temperatures agree: the run counts as safe, from    *)
(* the highest temperature, exactly when the margin of the barrier, from the      *)
(* trajectory, is not negative, and exactly when HilCoupler finds no violation.   *)
VerdictsAgree ==
    LET card == Inspector!EvaluateLiveRun
        points == [i \in 1 .. Len(snapshots) |-> [time |-> i, temp |-> snapshots[i].temp]]
    IN  card.valid => /\ card.safe <=> card.margin >= 0
                      /\ card.safe <=> ~ Hil!ComputeHilMetrics(points, 0).violated
=============================================================================
