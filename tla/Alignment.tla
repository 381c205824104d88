----------------------------- MODULE Alignment -----------------------------
(***************************************************************************)
(* The interpolation every automatic movement shares (replaying.py): a     *)
(* smoothstep from the pose the arm is in to the goal, over a time the     *)
(* slowest joint decides, in frames of 1/Hz.  Distances are whole degrees  *)
(* or percent; a frame is kept as its weight over n^3, n the number of     *)
(* frames, so that nothing is rounded but the number of frames, which the  *)
(* code rounds too.                                                        *)
(***************************************************************************)
EXTENDS Integers

CONSTANT Hz  \* ALIGN_HZ

ASSUME HzAssumption == Hz \in Nat \ {0}

(* AlignmentLimits: peak speeds and times in seconds *)
REPLAY_ALIGNMENT == [degree |-> 20, percent |-> 25, min |-> 2, max |-> 15]
TELEOP_ALIGNMENT == [degree |-> 40, percent |-> 50, min |-> 1, max |-> 6]

Least(S) == CHOOSE x \in S : \A y \in S : x <= y
Most(S) == CHOOSE x \in S : \A y \in S : y <= x

(* Python's round of a / b: a half goes to the even neighbour *)
Round(a, b) ==
    LET low == a \div b  rest == a % b
    IN  IF 2 * rest > b \/ (2 * rest = b /\ low % 2 = 1) THEN low + 1 ELSE low

(* alignment_seconds as a fraction, SCURVE_PEAK_FACTOR being 3/2: the slowest joint, *)
(* compared over the common denominator of the two speeds                            *)
Needed(d, limits) == Most({3 * d.degree * limits.percent, 3 * d.percent * limits.degree})
Denominator(limits) == 2 * limits.degree * limits.percent
Seconds(d, limits) ==
    Least({limits.max * Denominator(limits), Most({limits.min * Denominator(limits), Needed(d, limits)})})

alignment_frames(d, limits) == Most({1, Round(Seconds(d, limits) * Hz, Denominator(limits))})

(* smoothstep(k / n) in n^3 parts, and what one frame adds to it *)
smoothstep(k, n) == k * k * (3 * n - 2 * k)
Gain(k, n) == smoothstep(k, n) - smoothstep(k - 1, n)

(* The time was not cut at max, so the limit is on the peak speed (smooth_distance) *)
Smooth(d, limits) == Needed(d, limits) <= limits.max * Denominator(limits)
=============================================================================
