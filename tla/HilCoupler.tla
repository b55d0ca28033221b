----------------------------- MODULE HilCoupler -----------------------------
(***************************************************************************)
(* The metrics of a co-simulated plant (src/hil_coupler.cpp): states are     *)
(* recorded, and the clearing time is that of the first one too hot.  The    *)
(* Lyapunov exponent, a logarithm, and the text of the report are left out.  *)
(***************************************************************************)
EXTENDS Integers, Sequences, SequencesExt, FiniteSetsExt

CONSTANTS MaxSafe,       \* max_safe_temp_c
          ClearingSla,   \* target_tcrit_sla_ms
          Temps,         \* temperatures that occur
          Times,         \* time stamps that occur, none before 0
          MaxSamples     \* bound: samples between two resets

VARIABLE trajectory

vars == <<trajectory>>

Sample == [time : Times, temp : Temps]

Init == trajectory = <<>>

RecordStateSample(p) == trajectory' = Append(trajectory, p)

Reset == trajectory' = <<>>

(* The plant is sampled as time goes on. *)
Next == \/ /\ Len(trajectory) < MaxSamples
           /\ \E p \in Sample :
                 /\ \A i \in 1 .. Len(trajectory) : trajectory[i].time <= p.time
                 /\ RecordStateSample(p)
        \/ Reset
-----------------------------------------------------------------------------
(* Wrong on purpose: without the sentinel, the last breach overwrites the first. *)
FirstBreachWrong(points) ==
    FoldLeft(LAMBDA t, p : IF p.temp > MaxSafe THEN p.time ELSE t, -1, points)

(* t_first_breach, where -1 says that there is none yet. *)
FirstBreach(points) ==
    FoldLeft(LAMBDA t, p : IF p.temp > MaxSafe /\ t < 0 THEN p.time ELSE t, -1, points)

(* The delay is printed, and takes no part in the clearing time.                  *)
ComputeHilMetrics(points, mitigation) ==
    LET maxTemp == Max({0} \cup {points[i].temp : i \in 1 .. Len(points)})
        first == FirstBreach(points)
    IN  IF points = <<>>
        THEN [valid |-> FALSE, maxTemp |-> 0, violated |-> FALSE, clearing |-> 0, printed |-> 0]
        ELSE [valid    |-> TRUE,
              maxTemp  |-> maxTemp,
              violated |-> maxTemp > MaxSafe,
              clearing |-> IF first >= 0 THEN first * 1000 ELSE ClearingSla,
              printed  |-> mitigation]
-----------------------------------------------------------------------------
(* For a mitigation without delay, the clearing time is that of a sample that is  *)
(* too hot, before which none is; once it is reported it stays, however the plant *)
(* goes on.                                                                      *)
ClearingIsFirstBreach ==
    LET m == ComputeHilMetrics(trajectory, 0)
    IN  m.valid =>
            IF m.violated
            THEN \E i \in 1 .. Len(trajectory) :
                    /\ trajectory[i].temp > MaxSafe
                    /\ m.clearing = trajectory[i].time * 1000
                    /\ \A j \in 1 .. Len(trajectory) :
                          trajectory[j].temp > MaxSafe => trajectory[j].time >= trajectory[i].time
                    /\ \A n \in i .. Len(trajectory) :
                          ComputeHilMetrics(SubSeq(trajectory, 1, n), 0).clearing = m.clearing
            ELSE m.clearing = ClearingSla
=============================================================================
