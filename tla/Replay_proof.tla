---------------------------- MODULE Replay_proof ---------------------------
(* What the interpolation promises for every distance and every rate of    *)
(* frames, and what the replay promises for every episode and every number *)
(* of replays.                                                             *)
EXTENDS Replay, TLAPS

(* The speeds and times in use, and the distances an arm may have to go *)
Limits == {REPLAY_ALIGNMENT, TELEOP_ALIGNMENT}
Distances == [degree : Nat, percent : Nat]

(* The largest of two numbers (alignment_seconds, alignment_frames). *)
LEMMA MostOfTwo ==
  ASSUME NEW a \in Int, NEW b \in Int
  PROVE  Most({a, b}) = IF a <= b THEN b ELSE a
<1> DEFINE m == IF a <= b THEN b ELSE a
<1>1. m \in {a, b} /\ \A y \in {a, b} : y <= m
  OBVIOUS
<1>2. \A x \in {a, b} : (\A y \in {a, b} : y <= x) => x = m
  OBVIOUS
<1> HIDE DEF m
<1>3. (CHOOSE x \in {a, b} : \A y \in {a, b} : y <= x) = m
  BY <1>1, <1>2
<1> QED  BY <1>3 DEF Most, m

(* The smallest of two numbers (alignment_seconds). *)
LEMMA LeastOfTwo ==
  ASSUME NEW a \in Int, NEW b \in Int
  PROVE  Least({a, b}) = IF a <= b THEN a ELSE b
<1> DEFINE m == IF a <= b THEN a ELSE b
<1>1. m \in {a, b} /\ \A y \in {a, b} : m <= y
  OBVIOUS
<1>2. \A x \in {a, b} : (\A y \in {a, b} : x <= y) => x = m
  OBVIOUS
<1> HIDE DEF m
<1>3. (CHOOSE x \in {a, b} : \A y \in {a, b} : x <= y) = m
  BY <1>1, <1>2
<1> QED  BY <1>3 DEF Least, m

(* Python's round is within a half of the quotient, for the two denominators in use. *)
LEMMA RoundIsNear ==
  ASSUME NEW a \in Nat, NEW b \in {1000, 4000}
  PROVE  /\ Round(a, b) \in Nat
         /\ 2 * (b * Round(a, b)) <= 2 * a + b
         /\ 2 * a <= 2 * (b * Round(a, b)) + b
         /\ a % b = 0 => b * Round(a, b) = a
<1>1. CASE b = 1000
  BY <1>1 DEF Round
<1>2. CASE b = 4000
  BY <1>2 DEF Round
<1> QED  BY <1>1, <1>2

(* A product grows with its factor. *)
LEMMA AtMostTimes ==
  ASSUME NEW x \in Nat, NEW y \in Nat, NEW z \in Nat, x <= y
  PROVE  x * z <= y * z
OBVIOUS

(* The time of an alignment, in parts of its denominator: between the      *)
(* shortest and the longest, and enough for every joint unless it was cut  *)
(* at the longest (alignment_seconds).                                     *)
LEMMA SecondsFit ==
  ASSUME NEW far \in Distances, NEW limits \in Limits
  PROVE  /\ Denominator(limits) \in {1000, 4000}
         /\ Seconds(far, limits) \in Nat
         /\ limits.min * Denominator(limits) <= Seconds(far, limits)
         /\ Seconds(far, limits) <= limits.max * Denominator(limits)
         /\ Smooth(far, limits) => Needed(far, limits) <= Seconds(far, limits)
         /\ Needed(far, limits) \in Nat
         /\ 3 * far.degree * limits.percent <= Needed(far, limits)
         /\ 3 * far.percent * limits.degree <= Needed(far, limits)
<1> DEFINE a == 3 * far.degree * limits.percent
           b == 3 * far.percent * limits.degree
           low == limits.min * Denominator(limits)
           high == limits.max * Denominator(limits)
<1>0. far.degree \in Nat /\ far.percent \in Nat
  BY DEF Distances
<1>1. a \in Nat /\ b \in Nat
  BY <1>0 DEF Limits, REPLAY_ALIGNMENT, TELEOP_ALIGNMENT
<1>2. Denominator(limits) \in {1000, 4000} /\ low \in Nat /\ high \in Nat /\ low <= high
  BY DEF Limits, REPLAY_ALIGNMENT, TELEOP_ALIGNMENT, Denominator
<1>3. Needed(far, limits) = IF a <= b THEN b ELSE a
  BY <1>1, MostOfTwo DEF Needed
<1>4. Needed(far, limits) \in Nat /\ a <= Needed(far, limits) /\ b <= Needed(far, limits)
  BY <1>1, <1>3
<1> HIDE DEF a, b
<1>5. Most({low, Needed(far, limits)}) = IF low <= Needed(far, limits) THEN Needed(far, limits) ELSE low
  BY <1>2, <1>4, MostOfTwo
<1> DEFINE m == Most({low, Needed(far, limits)})
<1>6. m \in Nat /\ low <= m /\ Needed(far, limits) <= m
  BY <1>2, <1>4, <1>5
<1>7. Seconds(far, limits) = IF high <= m THEN high ELSE m
  <2>1. Seconds(far, limits) = Least({high, m})
    BY DEF Seconds
  <2> HIDE DEF m, low, high
  <2> QED  BY <1>2, <1>6, <2>1, LeastOfTwo
<1> HIDE DEF m, low, high
<1>8. Smooth(far, limits) => Needed(far, limits) <= high
  BY DEF Smooth, high
<1>9. /\ Seconds(far, limits) \in Nat /\ low <= Seconds(far, limits) /\ Seconds(far, limits) <= high
      /\ Smooth(far, limits) => Needed(far, limits) <= Seconds(far, limits)
  BY <1>2, <1>4, <1>6, <1>7, <1>8
<1> QED  BY <1>2, <1>4, <1>9 DEF a, b, low, high

(* An alignment has at least one frame, takes at least the shortest and at *)
(* most the longest time, and is long enough for what alignment_seconds    *)
(* says, up to half a frame (alignment_frames).                            *)
THEOREM FramesFit ==
  ASSUME NEW far \in Distances, NEW limits \in Limits
  PROVE  LET n == alignment_frames(far, limits) IN
         /\ n \in Nat \ {0}
         /\ n \in limits.min * Hz .. limits.max * Hz
         /\ 2 * (Seconds(far, limits) * Hz) <= Denominator(limits) * (2 * n + 1)
<1> DEFINE D == Denominator(limits)
           s == Seconds(far, limits)
           X == s * Hz
           r == Round(X, D)
           n == alignment_frames(far, limits)
<1>1. D \in {1000, 4000} /\ s \in Nat /\ limits.min * D <= s /\ s <= limits.max * D
  BY SecondsFit
<1>2. limits.min \in Nat \ {0} /\ limits.max \in Nat \ {0} /\ Hz \in Nat \ {0}
  BY HzAssumption DEF Limits, REPLAY_ALIGNMENT, TELEOP_ALIGNMENT
<1> HIDE DEF D, s
<1>3. X \in Nat /\ limits.min * D * Hz <= X /\ X <= limits.max * D * Hz
  <2> DEFINE lo == limits.min * D
             hi == limits.max * D
  <2>1. lo \in Nat /\ hi \in Nat /\ lo <= s /\ s <= hi
    BY <1>1, <1>2
  <2> HIDE DEF lo, hi
  <2>2. lo * Hz <= s * Hz /\ s * Hz <= hi * Hz /\ s * Hz \in Nat
    BY <1>1, <1>2, <2>1
  <2> QED  BY <2>2 DEF lo, hi
<1> HIDE DEF X
<1>4. /\ r \in Nat /\ 2 * (D * r) <= 2 * X + D /\ 2 * X <= 2 * (D * r) + D
  BY <1>1, <1>3, RoundIsNear
<1>5. n = IF 1 <= r THEN r ELSE 1
  BY <1>4, MostOfTwo DEF alignment_frames, r, X, D, s
<1> HIDE DEF r, n
<1>6. limits.min * Hz <= r /\ r <= limits.max * Hz
  <2>1. CASE limits = REPLAY_ALIGNMENT
    <3>1. D = 1000 /\ limits.min = 2 /\ limits.max = 15
      BY <2>1 DEF REPLAY_ALIGNMENT, Denominator, D
    <3> QED  BY <1>2, <1>3, <1>4, <3>1
  <2>2. CASE limits = TELEOP_ALIGNMENT
    <3>1. D = 4000 /\ limits.min = 1 /\ limits.max = 6
      BY <2>2 DEF TELEOP_ALIGNMENT, Denominator, D
    <3> QED  BY <1>2, <1>3, <1>4, <3>1
  <2> QED  BY <2>1, <2>2 DEF Limits
<1>7. limits.min * Hz \in Nat \ {0} /\ limits.max * Hz \in Nat
  BY <1>2 DEF Limits, REPLAY_ALIGNMENT, TELEOP_ALIGNMENT
<1>8. n = r /\ n \in Nat \ {0} /\ n \in limits.min * Hz .. limits.max * Hz
  BY <1>4, <1>5, <1>6, <1>7
<1>9. 2 * X <= D * (2 * n + 1)
  BY <1>1, <1>4, <1>8
<1> QED  BY <1>8, <1>9 DEF n, X, D, s

(* The curve starts at nothing, ends at the goal, only ever advances, and  *)
(* in no frame by more than half again of an even share (smoothstep,       *)
(* SCURVE_PEAK_FACTOR).                                                    *)
THEOREM CurveAdvances ==
  ASSUME NEW n \in Nat \ {0}, NEW i \in 1 .. n
  PROVE  /\ smoothstep(0, n) = 0 /\ smoothstep(n, n) = n * n * n
         /\ Gain(i, n) > 0
         /\ 2 * Gain(i, n) <= 3 * (n * n)
<1> DEFINE m == n - i
<1>1. i \in Nat /\ i >= 1 /\ m \in Nat
  OBVIOUS
<1>2. Gain(i, n) = 6 * (n * i) - 3 * n - 6 * (i * i) + 6 * i - 2
  BY <1>1 DEF Gain, smoothstep
<1>3. n * i = m * i + i * i
  BY <1>1
<1>4. m * i >= m
  BY <1>1
<1>5. Gain(i, n) > 0
  BY <1>1, <1>2, <1>3, <1>4
<1>6. (n - 2 * i + 1) * (n - 2 * i + 1) = n * n - 4 * (n * i) + 4 * (i * i) + 2 * n - 4 * i + 1
  BY <1>1
<1>7. (n - 2 * i + 1) * (n - 2 * i + 1) >= 0
  BY <1>1
<1>8. 2 * Gain(i, n) <= 3 * (n * n)
  BY <1>1, <1>2, <1>6, <1>7
<1>9. smoothstep(0, n) = 0 /\ smoothstep(n, n) = n * n * n
  BY <1>1 DEF smoothstep
<1> QED  BY <1>5, <1>8, <1>9

(* No joint is ever sent faster than its limit, up to the half frame that  *)
(* rounding takes away, unless the time was cut at its maximum             *)
(* (AlignmentLimits, smooth_distance): a frame takes the joint far * Gain  *)
(* of n^3 parts of its way, Hz times a second.                             *)
THEOREM SpeedLimit ==
  ASSUME NEW far \in Distances, NEW limits \in Limits, Smooth(far, limits)
  PROVE  LET n == alignment_frames(far, limits) IN
         \A i \in 1 .. n : \A joint \in {"degree", "percent"} :
           2 * (far[joint] * Gain(i, n) * Hz) <= limits[joint] * ((2 * n + 1) * (n * n))
<1> DEFINE n == alignment_frames(far, limits)
           D == Denominator(limits)
           s == Seconds(far, limits)
<1>1. n \in Nat \ {0} /\ 2 * (s * Hz) <= D * (2 * n + 1)
  BY FramesFit
<1>2. s \in Nat /\ 3 * far.degree * limits.percent <= s /\ 3 * far.percent * limits.degree <= s
  <2>1. /\ s \in Nat /\ Needed(far, limits) \in Nat /\ Needed(far, limits) <= s
        /\ 3 * far.degree * limits.percent <= Needed(far, limits)
        /\ 3 * far.percent * limits.degree <= Needed(far, limits)
    BY SecondsFit
  <2> HIDE DEF s
  <2>2. 3 * far.degree * limits.percent \in Nat /\ 3 * far.percent * limits.degree \in Nat
    BY DEF Distances, Limits, REPLAY_ALIGNMENT, TELEOP_ALIGNMENT
  <2> QED  BY <2>1, <2>2
<1> HIDE DEF n, s
<1> SUFFICES ASSUME NEW i \in 1 .. n, NEW joint \in {"degree", "percent"}
             PROVE  2 * (far[joint] * Gain(i, n) * Hz) <= limits[joint] * ((2 * n + 1) * (n * n))
  BY DEF n
<1> DEFINE v == far[joint] * Hz
           L == limits[joint]
           g == Gain(i, n)
<1>3. far.degree \in Nat /\ far.percent \in Nat /\ Hz \in Nat
  BY HzAssumption DEF Distances
<1>4. v \in Nat /\ L \in Nat /\ 3 * v <= L * (2 * n + 1)
  <2>1. far.degree * Hz \in Nat /\ far.percent * Hz \in Nat /\ s * Hz \in Nat
    BY <1>2, <1>3
  <2>2. CASE limits = REPLAY_ALIGNMENT
    <3>1. D = 1000 /\ limits.degree = 20 /\ limits.percent = 25
      BY <2>2 DEF REPLAY_ALIGNMENT, Denominator
    <3>2. 75 * (far.degree * Hz) <= s * Hz /\ 60 * (far.percent * Hz) <= s * Hz
      BY <1>2, <1>3, <3>1, AtMostTimes
    <3> QED  BY <1>1, <2>1, <3>1, <3>2
  <2>3. CASE limits = TELEOP_ALIGNMENT
    <3>1. D = 4000 /\ limits.degree = 40 /\ limits.percent = 50
      BY <2>3 DEF TELEOP_ALIGNMENT, Denominator
    <3>2. 150 * (far.degree * Hz) <= s * Hz /\ 120 * (far.percent * Hz) <= s * Hz
      BY <1>2, <1>3, <3>1, AtMostTimes
    <3> QED  BY <1>1, <2>1, <3>1, <3>2
  <2> QED  BY <2>2, <2>3 DEF Limits
<1>5. g \in Nat /\ 2 * g <= 3 * (n * n)
  BY <1>1, CurveAdvances DEF Gain, smoothstep
<1> HIDE DEF v, L, g
<1>6. 2 * g * v <= 3 * (n * n) * v /\ 3 * v * (n * n) <= L * (2 * n + 1) * (n * n)
  BY <1>1, <1>4, <1>5, AtMostTimes
<1>7. 2 * (g * v) <= L * ((2 * n + 1) * (n * n))
  BY <1>1, <1>4, <1>5, <1>6
<1>8. far[joint] * g * Hz = g * v
  BY <1>3, <1>5 DEF v
<1> QED  BY <1>7, <1>8 DEF L, g

----------------------------------------------------------------------------
(* The replay.  What the main thread knows of the goal of the servos at each *)
(* of its places, and what it may still send once the stop was heard.        *)

Types ==
  /\ pc \in {"off", "boot", "load", "listen", "connect", "configure", "enable", "check", "align", "episode",
            "leave", "done"}
  /\ listener \in {"off", "watching", "heard", "stopped"}
  /\ d \in Distance \cup {NoDistance} /\ k \in Nat /\ after \in 0 .. 2

(* Where the goal of the servos is while the main thread is at one of its  *)
(* places: the frames are sent one after the other, none is left out.      *)
Path ==
  /\ pc \in {"configure", "enable", "check"} => goal = Stands
  /\ pc \in {"check", "align", "episode"} => torque
  /\ pc \in {"align", "episode"} => k \in 1 .. Last + 1 /\ (looked => k <= Last)
  /\ pc = "align" => goal = IF k = 1 THEN Stands ELSE [at |-> "align", k |-> k - 1]
  /\ pc = "episode" => goal = IF k = 1 THEN [at |-> "align", k |-> Total] ELSE [at |-> "episode", k |-> k - 1]

(* Only a frame that was looked at before the stop was heard is sent after it. *)
Heard ==
  /\ looked => pc \in {"align", "episode"}
  /\ after # 0 => ~looked /\ (listener = "stopped" \/ pc = "done")
  /\ pc \in {"boot", "load", "listen"} => after = 0
  /\ after <= 1

IInv == Types /\ Path /\ Heard

(* The alignment of a replay has at least one frame (alignment_frames). *)
LEMMA TotalIsPositive == ASSUME Types PROVE Total \in Nat \ {0}
<1>1. d \in Distances
  BY DistanceAssumption DEF Types, NoDistance, Distances
<1> QED  BY <1>1, FramesFit DEF Total, Limits

(* Before the first replay nothing was sent (the console and the arm at rest). *)
LEMMA InitIInv == Init => IInv
<1> SUFFICES ASSUME Init PROVE IInv
  OBVIOUS
<1>1. Types
  BY DEF Init, Types
<1>2. Path
  BY DEF Init, Path
<1>3. Heard
  BY DEF Init, Heard
<1> QED  BY <1>1, <1>2, <1>3 DEF IInv

(* The steps of the console, of the person and of the listener: they send  *)
(* nothing, and begin a replay only where none runs.                       *)
Beside ==
  Listen \/ Handled \/ Start \/ StartRefused \/ Adopt \/ RequestStop \/ Stop
    \/ StopObeyed \/ StopSignals \/ StopReturns

(* The steps of the main thread that send nothing. *)
Silent ==
  \/ Refuse \/ ClearControl \/ LoadEpisode \/ StartListener \/ Configure \/ Enable \/ Look
  \/ Stopped \/ Complete \/ Interrupted \/ Leave \/ Raises

(* Every step is one of those beside the arm, a silent one of the main *)
(* thread, or one of the four that concern its goal (run_replay).      *)
LEMMA StepsOf == Next <=> Beside \/ Silent \/ SyncGoal \/ CheckAgain \/ Send \/ Aligned
BY DEF Next, Main, Beside, Silent

(* What the console, the person and the listener of the control file do *)
(* leaves the place of the arm and the count after the stop alone.      *)
LEMMA BesideKeeps == ASSUME IInv, Beside PROVE IInv'
<1> USE DEF IInv, Types, Path, Heard, Last, Total, Alive, child
<1>1. CASE Listen
  BY <1>1 DEF Listen
<1>2. CASE Handled
  BY <1>2 DEF Handled
<1>3. CASE Start
  BY <1>3 DEF Start
<1>4. CASE StartRefused \/ Adopt \/ RequestStop \/ Stop \/ StopObeyed \/ StopSignals \/ StopReturns
  BY <1>4 DEF StartRefused, Adopt, RequestStop, Stop, StopObeyed, StopSignals, StopReturns
<1> QED  BY <1>1, <1>2, <1>3, <1>4 DEF Beside

(* The main thread loads, connects, looks and leaves without a command to *)
(* the servos; a look is refused once the stop was heard (stop_requested). *)
LEMMA SilentKeeps == ASSUME IInv, Silent PROVE IInv'
<1> USE DEF IInv, Types, Path, Heard, Last, Total, Goes, Ends
<1>1. CASE Refuse \/ ClearControl \/ LoadEpisode \/ StartListener
  <2>1. CASE Refuse
    BY <2>1 DEF Refuse
  <2>2. CASE ClearControl
    BY <2>2 DEF ClearControl
  <2>3. CASE LoadEpisode
    BY <2>3 DEF LoadEpisode
  <2>4. CASE StartListener
    BY <2>4 DEF StartListener
  <2> QED  BY <1>1, <2>1, <2>2, <2>3, <2>4
<1>2. CASE Configure \/ Enable \/ Look
  BY <1>2 DEF Configure, Enable, Look
<1>3. CASE Stopped \/ Complete \/ Raises
  <2>1. CASE Stopped
    BY <2>1 DEF Stopped
  <2>2. CASE Complete
    BY <2>2 DEF Complete
  <2>3. CASE Raises
    BY <2>3 DEF Raises
  <2> QED  BY <1>3, <2>1, <2>2, <2>3
<1>4. CASE Interrupted
  <2>1. CASE Raises
    BY <2>1 DEF Raises
  <2>2. CASE pc \in {"boot", "load", "listen"} /\ pc' = "done" /\ UNCHANGED <<listener, d, k, looked, torque, goal, after>>
    BY <2>2
  <2> QED  BY <1>4, <2>1, <2>2 DEF Interrupted
<1>5. CASE Leave
  BY <1>5 DEF Leave
<1> QED  BY <1>1, <1>2, <1>3, <1>4, <1>5 DEF Silent

(* The goal is set to the pose of the arm, and then the frames go out one *)
(* after the other (align, run_replay).                                   *)
LEMMA SendsKeep == ASSUME IInv, SyncGoal \/ CheckAgain \/ Send \/ Aligned PROVE IInv'
<1> USE DEF IInv, Types, Path, Heard, Last, Goes
<1>0. Total \in Nat \ {0} /\ (d' = d => Total' = Total)
  BY TotalIsPositive DEF Total
<1>1. CASE SyncGoal
  BY <1>1 DEF SyncGoal
<1>2. CASE CheckAgain
  <2> HIDE DEF Types, Path, Heard, Last, IInv
  <2>1. Types'
    BY <1>2 DEF CheckAgain, IInv, Types
  <2>2. Total' \in Nat \ {0}
    <3>1. d' \in Distances
      BY <1>2, DistanceAssumption DEF CheckAgain, Distances
    <3> QED  BY <3>1, FramesFit DEF Total, Limits
  <2>3. ~looked /\ goal = Stands /\ pc' = "align" /\ k' = 1 /\ looked' = looked /\ goal' = goal /\ torque'
    BY <1>2 DEF CheckAgain, IInv, Path, Heard
  <2>4. Last' = Total'
    BY <2>3 DEF Last
  <2>5. k' \in 1 .. Last' + 1
    <3>1. \A n \in Nat \ {0} : 1 \in 1 .. n + 1
      OBVIOUS
    <3>2. 1 \in 1 .. Total' + 1
      BY <2>2, <3>1
    <3> QED  BY <2>3, <2>4, <3>2
  <2>6. Path'
    BY <2>3, <2>5 DEF Path
  <2>7. Heard'
    BY <1>2, <2>3 DEF CheckAgain, IInv, Heard
  <2> QED  BY <2>1, <2>6, <2>7 DEF IInv
<1>3. CASE Send
  BY <1>0, <1>3, FramesAssumption DEF Send
<1>4. CASE Aligned
  BY <1>0, <1>4, FramesAssumption DEF Aligned
<1> QED  BY <1>1, <1>2, <1>3, <1>4

(* Every step keeps what is known of the goal and of the stop. *)
LEMMA NextIInv == IInv /\ [Next]_vars => IInv'
<1> SUFFICES ASSUME IInv, [Next]_vars PROVE IInv'
  OBVIOUS
<1>1. CASE UNCHANGED vars
  BY <1>1 DEF vars, child, IInv, Types, Path, Heard, Last, Total
<1>2. CASE Next
  BY <1>2, StepsOf, BesideKeeps, SilentKeeps, SendsKeep
<1> QED  BY <1>1, <1>2

(* ... and so it holds in all of a run of the console and its replays. *)
LEMMA SpecIInv == Spec => []IInv
BY InitIInv, NextIInv, PTL DEF Spec

(* After the stop is heard at most the command under way is sent. *)
THEOREM OneAfterStop == Spec => []AtMostOneAfterStop
<1>1. IInv => AtMostOneAfterStop
  BY DEF IInv, Heard, AtMostOneAfterStop
<1> QED  BY <1>1, SpecIInv, PTL

(* The way of the arm has no leap, for every episode and every distance. *)
THEOREM ArmDoesNotLeap == Spec => NoLeap
<1> DEFINE Path1 ==
      torque' => \/ torque /\ goal' = goal
                 \/ goal' = Stands
                 \/ goal'.at = "align" /\ goal'.k <= Total
                      /\ goal = (IF goal'.k = 1 THEN Stands ELSE [at |-> "align", k |-> goal'.k - 1])
                 \/ goal'.at = "episode"
                      /\ goal = (IF goal'.k = 1 THEN [at |-> "align", k |-> Total]
                                                ELSE [at |-> "episode", k |-> goal'.k - 1])
<1>1. IInv /\ [Next]_vars => [Path1]_vars
  <2> SUFFICES ASSUME IInv, Next PROVE Path1
    OBVIOUS
  <2>1. CASE Beside
    BY <2>1 DEF Beside, Listen, Handled, Start, StartRefused, Adopt, RequestStop, Stop, StopObeyed,
                StopSignals, StopReturns, child
  <2>2. CASE Silent
    BY <2>2 DEF Silent, Refuse, ClearControl, LoadEpisode, StartListener, Configure, Enable, Look, Stopped,
                Complete, Interrupted, Leave, Raises, Ends, IInv, Path
  <2>3. CASE SyncGoal \/ CheckAgain \/ Aligned
    BY <2>3 DEF SyncGoal, CheckAgain, Aligned
  <2>4. CASE Send
    BY <2>4 DEF Send, IInv, Types, Path, Last
  <2> QED  BY <2>1, <2>2, <2>3, <2>4, StepsOf
<1>2. [][Path1]_vars <=> NoLeap
  BY DEF NoLeap
<1> QED  BY <1>1, <1>2, SpecIInv, PTL DEF Spec

(* The arm is held whenever it is sent commands, and no way out of a replay lets go of it. *)
THEOREM TorqueIsKept == Spec => TorqueStays
<1> DEFINE Held ==
      /\ pc' \in {"check", "align", "episode"} => torque'
      /\ Alive /\ torque /\ ~torque' => pc = "configure" /\ goal' = Stands
<1>1. IInv /\ IInv' /\ [Next]_vars => [Held]_vars
  <2> SUFFICES ASSUME IInv, IInv', Next PROVE Held
    OBVIOUS
  <2>1. pc' \in {"check", "align", "episode"} => torque'
    BY DEF IInv, Path
  <2>2. Alive /\ torque /\ ~torque' => Configure
    BY DEF Next, Main, Refuse, ClearControl, LoadEpisode, StartListener, SyncGoal, Enable, CheckAgain, Look,
           Send, Aligned, Stopped, Complete, Interrupted, Leave, Raises, Ends, Listen, Handled, Start,
           StartRefused, Adopt, RequestStop, Stop, StopObeyed, StopSignals, StopReturns, child, Alive
  <2>3. Configure => pc = "configure" /\ goal' = Stands
    BY DEF Configure, IInv, Path
  <2> QED  BY <2>1, <2>2, <2>3
<1>2. [][Held]_vars <=> TorqueStays
  BY DEF TorqueStays
<1> QED  BY <1>1, <1>2, SpecIInv, PTL DEF Spec

(* TypeOK, in two parts: the words and flags, and the numbers and poses. *)
Words ==
  /\ pc \in {"off", "boot", "load", "listen", "connect", "configure", "enable", "check", "align", "episode",
            "leave", "done"}
  /\ rc \in {"none", "ok", "error"} /\ sigint \in BOOLEAN
  /\ listener \in {"off", "watching", "heard", "stopped"}
  /\ status \in {"none", "starting", "aligning", "replaying", "stopped", "complete", "error"}
  /\ torque \in BOOLEAN /\ looked \in BOOLEAN /\ control \in BOOLEAN /\ pressed \in BOOLEAN
  /\ stopping \in {"off", "asked", "signalled", "ok", "raised", "failed"}

Numbers ==
  /\ replay \in 0..Replays /\ handle \in 0..Replays
  /\ d \in Distance \cup {NoDistance} /\ k \in Nat
  /\ goal \in Place /\ after \in 0..2

(* A step leaves the words words. *)
LEMMA WordsKept == ASSUME Words, [Next]_vars PROVE Words'
<1> USE DEF Words, Goes, Ends, child
<1>1. CASE Listen \/ Handled \/ Start \/ StartRefused \/ Adopt \/ RequestStop
  BY <1>1 DEF Listen, Handled, Start, StartRefused, Adopt, RequestStop
<1>2. CASE Stop \/ StopObeyed \/ StopSignals \/ StopReturns
  <2>1. CASE Stop
    BY <2>1 DEF Stop
  <2>2. CASE StopObeyed
    BY <2>2 DEF StopObeyed
  <2>3. CASE StopSignals
    BY <2>3 DEF StopSignals
  <2>4. CASE StopReturns
    <3>1. stopping' \in {"failed", "ok"}
      BY <2>4 DEF StopReturns
    <3> QED  BY <2>4, <3>1 DEF StopReturns
  <2> QED  BY <1>2, <2>1, <2>2, <2>3, <2>4
<1>3. CASE Refuse \/ ClearControl \/ LoadEpisode \/ StartListener \/ SyncGoal \/ Configure \/ Enable
  BY <1>3 DEF Refuse, ClearControl, LoadEpisode, StartListener, SyncGoal, Configure, Enable
<1>4. CASE CheckAgain \/ Look \/ Send \/ Aligned \/ Stopped \/ Complete
  BY <1>4 DEF CheckAgain, Look, Send, Aligned, Stopped, Complete
<1>5. CASE Raises \/ Interrupted \/ Leave
  BY <1>5 DEF Raises, Interrupted, Leave
<1>6. CASE UNCHANGED vars
  BY <1>6 DEF vars
<1> QED  BY <1>1, <1>2, <1>3, <1>4, <1>5, <1>6 DEF Next, Main

(* A step leaves the numbers in their ranges. *)
LEMMA NumbersKept == ASSUME Words, Numbers, [Next]_vars PROVE Numbers'
<1> USE ReplaysAssumption DEF Numbers, Goes, Ends, child, Place, Stands, Old
<1>1. CASE Listen \/ Handled \/ StartRefused \/ Adopt \/ RequestStop
  BY <1>1 DEF Listen, Handled, StartRefused, Adopt, RequestStop
<1>2. CASE Start
  BY <1>2 DEF Start
<1>3. CASE Stop \/ StopObeyed \/ StopSignals \/ StopReturns
  BY <1>3 DEF Stop, StopObeyed, StopSignals, StopReturns
<1>4. CASE Refuse \/ ClearControl \/ LoadEpisode \/ StartListener \/ SyncGoal \/ Configure \/ Enable
  BY <1>4 DEF Refuse, ClearControl, LoadEpisode, StartListener, SyncGoal, Configure, Enable
<1>5. CASE CheckAgain \/ Look \/ Aligned \/ Stopped \/ Complete
  BY <1>5 DEF CheckAgain, Look, Aligned, Stopped, Complete
<1>6. CASE Send
  BY <1>6 DEF Send
<1>7. CASE Raises \/ Interrupted \/ Leave
  BY <1>7 DEF Raises, Interrupted, Leave
<1>8. CASE UNCHANGED vars
  BY <1>8 DEF vars
<1> QED  BY <1>1, <1>2, <1>3, <1>4, <1>5, <1>6, <1>7, <1>8 DEF Next, Main

(* Every frame, pose and phase stays what it is declared to be. *)
THEOREM TypeCorrect == Spec => []TypeOK
<1>1. Init => Words
  BY DEF Init, Words
<1>2. Init => Numbers
  <2> SUFFICES ASSUME Init PROVE Numbers
    OBVIOUS
  <2>1. goal \in {Stands, Old} /\ {Stands, Old} \subseteq Place
    BY DEF Init, Place, Stands, Old
  <2>2. replay = 0 /\ handle = 0 /\ d = NoDistance /\ k = 0 /\ after = 0
    BY DEF Init
  <2> QED  BY <2>1, <2>2, ReplaysAssumption DEF Numbers
<1>3. Words /\ Numbers /\ [Next]_vars => (Words /\ Numbers)'
  BY WordsKept, NumbersKept
<1>4. Words /\ Numbers => TypeOK
  BY DEF Words, Numbers, TypeOK
<1> QED  BY <1>1, <1>2, <1>3, <1>4, PTL DEF Spec
=============================================================================
