------------------------------ MODULE MCReplay ------------------------------
(* Two replays in a row from three places: where the shortest time, the    *)
(* speed limit and the longest time decide the alignment.                  *)
EXTENDS Replay

MCDistance == {[degree |-> 0, percent |-> 3], [degree |-> 30, percent |-> 10],
               [degree |-> 20, percent |-> 55], [degree |-> 300, percent |-> 0]}

(* The speed limit holds at the peak of the curve, up to the half frame by *)
(* which the number of frames is rounded, unless the time was cut at its   *)
(* maximum; the curve never turns back and ends at the goal, within the    *)
(* longest time (AlignmentLimits.smooth_distance, alignment_frames).       *)
LOCAL Far == [degree : {0, 1, 7, 19, 20, 53, 160, 200, 201, 340}, percent : {0, 3, 25, 31, 99, 100}]
ASSUME PeakSpeed ==
    \A limits \in {REPLAY_ALIGNMENT, TELEOP_ALIGNMENT}, far \in Far :
        LET n == alignment_frames(far, limits) IN
        /\ n \in limits.min * Hz .. limits.max * Hz
        /\ smoothstep(n, n) = n * n * n
        /\ \A i \in 1 .. n : Gain(i, n) >= 0
        /\ Smooth(far, limits) => \A i \in 1 .. n : \A joint \in {"degree", "percent"} :
             2 * far[joint] * Gain(i, n) * Hz <= limits[joint] * (2 * n + 1) * n * n
=============================================================================
