----------------------------- MODULE FdiaEngine -----------------------------
(***************************************************************************)
(* Falsified telemetry (src/fdia_engine.cpp): frames pair what the network   *)
(* claims with what the plant does, and a detection at some time is judged   *)
(* by them.  Scores in percent; sensor ids and the report are left out.      *)
(***************************************************************************)
EXTENDS Integers, Sequences, SequencesExt

CONSTANTS Threshold,   \* critical_threshold
          Temps,       \* true temperatures that occur
          Times,       \* time stamps that occur
          MaxFrames    \* bound: frames of a stream

VARIABLE frames   \* the stream the caller has collected

vars == <<frames>>

Init == frames = <<>>

GenerateFdiaFrame(timestamp, temp, blind) ==
    [timestamp |-> timestamp, true |-> temp, fdia |-> blind,
     score |-> IF ~ blind /\ temp > Threshold THEN 95 ELSE 10]

(* The caller appends the frames it generates, as time goes on. *)
Collect(timestamp, temp, blind) ==
    /\ Len(frames) < MaxFrames
    /\ \A i \in 1 .. Len(frames) : frames[i].timestamp <= timestamp
    /\ frames' = Append(frames, GenerateFdiaFrame(timestamp, temp, blind))

Next == \E timestamp \in Times, temp \in Temps, blind \in BOOLEAN :
            Collect(timestamp, temp, blind)
-----------------------------------------------------------------------------
(* Wrong on purpose: judged by what the network claims. *)
BreachTimestampWrong(stream) ==
    FoldLeft(LAMBDA t, f : IF f.score > 50 /\ t = 0 THEN f.timestamp ELSE t, 0, stream)

(* breach_timestamp_ns, where 0 says that there is none yet. *)
BreachTimestamp(stream) ==
    FoldLeft(LAMBDA t, f : IF f.true >= Threshold /\ t = 0 THEN f.timestamp ELSE t, 0, stream)

(* The time to detection in time units, or Missed, and the F1 score, 0 or 1. *)
Missed == 999

EvaluateCausalDetection(stream, detection) ==
    LET breach == BreachTimestamp(stream)
        alert == detection > 0 /\ breach > 0 /\ detection >= breach
        missed == breach > 0 /\ detection = 0
    IN  IF stream = <<>> THEN [valid |-> FALSE, alert |-> FALSE, tdet |-> 0, f1 |-> 1]
        ELSE [valid |-> TRUE,
              alert |-> alert,
              tdet  |-> IF alert THEN detection - breach ELSE IF missed THEN Missed ELSE 0,
              f1    |-> IF missed THEN 0 ELSE 1]
-----------------------------------------------------------------------------
Hot(stream) == {i \in 1 .. Len(stream) : stream[i].true >= Threshold}

(* Blinded or not, a detection counts exactly when the plant was already past its  *)
(* threshold, and its delay is measured from the first such frame; a stream whose   *)
(* network score ever alarmed is never taken for one without a breach.  (A breach  *)
(* at time 0 is outside this: 0 stands for none.)                                *)
AlertFollowsBreach ==
    frames # <<>> /\ (\A i \in Hot(frames) : frames[i].timestamp > 0) =>
        \A detection \in Times \cup {0} :
            LET m == EvaluateCausalDetection(frames, detection)
                since == {detection - frames[i].timestamp : i \in Hot(frames)}
            IN  /\ m.alert <=> \E delay \in since : detection > 0 /\ delay >= 0
                /\ m.alert => m.tdet \in since /\ \A delay \in since : delay <= m.tdet
                /\ m.f1 = 0 <=> detection = 0 /\ Hot(frames) # {}
                /\ (\E i \in 1 .. Len(frames) : frames[i].score = 95) /\ detection = 0 => m.tdet = Missed
=============================================================================
