--------------------------- MODULE VLeader_proof ---------------------------
(* What VLeader promises, for every number of operators, range of poses    *)
(* and length of a retreat.  The inductive invariant is IInv; each of its  *)
(* parts is kept by five groups of steps: starts, what else people ask     *)
(* for, what they ask for with a lease, the loop around its decision, and  *)
(* the decision.                                                           *)
EXTENDS VLeader, Ladder, Tuning, WellFoundedInduction, TLAPS

(* TypeOK, in four parts of one sort each. *)
Poses ==
  /\ present \in Pose \cup {None} /\ goal \in Pose \cup {None}
  /\ hold_goal \in Pose \cup {None}
  /\ target \in Pose \cup {None} /\ retreat \in Pose \cup {None}
  /\ pose \in Pose /\ ticks \in 0 .. RetreatTicks

Words ==
  /\ state \in {"STOPPED", "SAFE", "READY", "ACTIVE"} \cup Stopped
  /\ fault \in Reason \cup {None}
  /\ pending \in {"none", "on", "off"}
  /\ age \in {"fresh", "late", "gone"}
  /\ pc \in {"off", "top", "arming", "armed", "releasing", "released",
             "read", "write", "ended"}

Flags == unsynced \in BOOLEAN /\ asked \in BOOLEAN /\ torque \in BOOLEAN /\ stiff \in BOOLEAN

Who ==
  /\ holder \in Operator \cup {None}
  /\ call \in [Operator -> {"idle", "look", "resume", "hold"}]

(* What the loop knows between its steps: what it is about to write and    *)
(* that the arm is where it was read; whether the torque request it has    *)
(* executed took effect; and what each state needs to have.                *)
LoopKnows ==
  /\ pc = "write" => target \in Pose /\ present = pose
  /\ pc = "armed" => torque
  /\ pc = "released" => ~torque
  /\ present # None => Near(present, pose)
  /\ state = "ACTIVE" => goal \in Pose
  /\ state = "RETREATING" => retreat \in Pose
  /\ state \in {"HOLD", "FAULT"} => fault \in Reason

(* In HOLD a write that is under way goes to the held pose, or it was      *)
(* decided before the hold and the arm has not left that pose yet.         *)
HeldWrite ==
  pc = "write" /\ state = "HOLD" /\ hold_goal # None => target = hold_goal \/ pose = hold_goal

IInv ==
  /\ Poses /\ Words /\ Flags /\ Who
  /\ LoopKnows /\ HeldWrite /\ HoldStaysPut
  /\ StateTellsTorque /\ StoppedIsUnsynced

(* The steps, in five groups. *)
StartStep == Start \/ StartFails

PeopleStep ==
  \/ StopFinish \/ Arm \/ ReleaseTorque \/ GrantAsk \/ Hold \/ Resume \/ Expire \/ Age

LeaseStep ==
  \E o \in Operator : \/ Grant(o) \/ GrantLook(o) \/ GrantResume(o)
                      \/ Release(o) \/ ReleaseHold(o)
                      \/ \E p \in Pose : Submit(o, p)

AroundStep ==
  \/ LoopEnd \/ LoopTake \/ LoopSetTorque \/ LoopTorqueFails \/ LoopArmed \/ LoopReleased
  \/ LoopReadFails \/ LoopDies \/ LoopWrite \/ LoopWriteFails

(* Every step belongs to one of the groups. *)
LEMMA Groups == [Next]_vars <=> StartStep \/ PeopleStep \/ LeaseStep \/ AroundStep \/ LoopDecides \/ UNCHANGED vars
  BY ZenonT(30) DEF Next, LoopStep, StartStep, PeopleStep, LeaseStep, AroundStep

(* The invariant holds before the loop is started. *)
LEMMA InitIInv == Init => IInv
<1> USE TopAssumption, RetreatAssumption, NoneAssumption DEF Init, Pose
<1>1. Init => Poses
  BY DEF Poses
<1>2. Init => Words
  BY DEF Words, Reason
<1>3. Init => Flags /\ Who
  BY DEF Flags, Who
<1>4. Init => LoopKnows
  BY DEF LoopKnows
<1>5. Init => HeldWrite /\ HoldStaysPut
  BY DEF HeldWrite, HoldStaysPut
<1>6. Init => StateTellsTorque /\ StoppedIsUnsynced
  BY DEF StateTellsTorque, StoppedIsUnsynced, Stopped
<1> QED BY <1>1, <1>2, <1>3, <1>4, <1>5, <1>6 DEF IInv

(* An arm that is not limp stays where it is while it is read. *)
LEMMA ReadFacts ==
  ASSUME Poses, Read
  PROVE  /\ pc = "read" /\ pose' \in Pose /\ present' = pose'
         /\ stiff => pose' = pose
         /\ UNCHANGED <<pending, asked, call, torque, stiff>>
  BY DEF Read, Poses, calls

(* A start forgets what was read, asked for and held, and a loop that runs then says whether *)
(* its backend has torque.                                                                   *)
LEMMA StartFacts ==
  ASSUME StartStep
  PROVE  /\ pc = "off" /\ pc' \in {"off", "top"} /\ state' \in {"STOPPED", "SAFE", "READY"}
         /\ fault' = None /\ present' = None /\ goal' = None /\ hold_goal' = None /\ pending' = "none"
         /\ age' = age /\ target' = target /\ retreat' = retreat /\ ticks' = ticks
         /\ asked' = asked /\ call' = call /\ pose' = pose
         /\ (holder' = holder /\ unsynced' = unsynced) \/ (holder' = None /\ unsynced' = FALSE)
         /\ state' = "STOPPED" => pc' = "off"
         /\ pc' = "top" => (state' = "READY" /\ torque') \/ (state' = "SAFE" /\ ~torque')
<1>1. CASE Start
  BY <1>1, Zenon DEF Start, Forgotten, ClearsDead, ReleaseAll, Torque, lease, calls
<1>2. CASE StartFails
  BY <1>2, Zenon DEF StartFails, Forgotten, ClearsDead, ReleaseAll, lease, calls, loop
<1> QED BY <1>1, <1>2 DEF StartStep

(* A pose is within the tolerance of itself. *)
LEMMA NearItself == \A p \in Pose : Near(p, p)
  BY TopAssumption DEF Pose, Near

(* A retreat goes to a pose of the arm. *)
LEMMA AwayIsAPose ==
  ASSUME NEW p \in Pose, NEW g \in Pose \cup {None}
  PROVE  Away(p, g) \subseteq Pose
  BY TopAssumption, NoneAssumption DEF Away, Pose

(* A step that begins a retreat writes a pose, the present one or one further away. *)
LEMMA RetreatFacts ==
  ASSUME Poses, LoopRetreats
  PROVE  /\ Read /\ CanTrip
         /\ \E b \in Pose :
              /\ Write(b)
              /\ \/ EnterHold("TRIP", present') /\ b = present'
                 \/ /\ state' = "RETREATING" /\ fault' = "TRIP" /\ age' = "fresh"
                    /\ goal' = None /\ RequireResync
                    /\ retreat' = b /\ ticks' = 0
                    /\ UNCHANGED hold_goal
<1>1. Read
  BY DEF LoopRetreats
<1>2. present' \in Pose /\ Watched \in Pose \cup {None}
  BY <1>1, ReadFacts DEF Watched, Poses
<1> QED BY <1>1, <1>2, AwayIsAPose DEF LoopRetreats

(* Every retreat, hold, goal and write is about a pose of the arm. *)
LEMMA PosesKept == ASSUME Poses, LoopKnows, [Next]_vars PROVE Poses'
<1>0. CASE StartStep
  BY <1>0, StartFacts, NoneAssumption, ZenonT(30) DEF Poses, Pose
<1>1. CASE PeopleStep
  <2>1. CASE GrantAsk
    BY <2>1 DEF GrantAsk, owner, loop, arm, Poses, Pose
  <2>2. CASE Arm \/ ReleaseTorque \/ Expire \/ Age
    BY <2>2, TopAssumption, RetreatAssumption, NoneAssumption, SMTT(60) DEF
        Arm, ReleaseTorque, Expire, Age, lease, owner, loop, arm, Poses, Pose
  <2>3. CASE StopFinish
    BY <2>3, TopAssumption, RetreatAssumption, NoneAssumption, SMTT(60) DEF
        StopFinish, Forgotten, owner, loop, arm, Poses, Pose
  <2>4. CASE Hold
    BY <2>4, TopAssumption, RetreatAssumption, NoneAssumption, SMTT(60) DEF
        Hold, HoldFor, EnterHold, owner, loop, arm, Poses, Pose
  <2>5. CASE Resume
    BY <2>5, TopAssumption, RetreatAssumption, NoneAssumption, SMTT(60) DEF
        Resume, Resumed, Torque, owner, loop, arm, Poses, Pose
  <2> QED BY <1>1, <2>1, <2>2, <2>3, <2>4, <2>5 DEF PeopleStep
<1>2. CASE LeaseStep
  BY <1>2, TopAssumption, RetreatAssumption, NoneAssumption, SMTT(60) DEF
      LeaseStep, Grant, GrantLook, GrantResume, Resumed, RequireResync,
      Torque, Release, ReleaseAll, ReleaseHold, HoldFor, EnterHold, Submit,
      owner, loop, lease, calls, arm, Poses, Pose
<1>3. CASE AroundStep
  BY <1>3, TopAssumption, RetreatAssumption, NoneAssumption, SMTT(60) DEF
      AroundStep, LoopEnd, LoopTake, LoopSetTorque, LoopTorqueFails,
      EnterFault, RequireResync, LoopArmed, LoopReleased, LoopReadFails,
      LoopDies, Forgotten, ReleaseAll, LoopWrite, LoopWriteFails, owner, loop,
      lease, calls, arm, Poses, Pose, LoopKnows
<1>4. CASE LoopDecides
  BY <1>4, ReadFacts, RetreatFacts, TopAssumption, RetreatAssumption, NoneAssumption, SMTT(60) DEF
      LoopDecides, LoopUnattended, EnterHold, RequireResync, Write, LoopTrips,
      LoopBacksOff, NextTick, Backed, LoopFollows, Watched, LoopKeeps,
      LoopWatches, CanTrip, lease, Poses, Pose
<1>5. CASE UNCHANGED vars
  BY <1>5 DEF vars, owner, loop, lease, calls, arm, Poses, Pose
<1> QED BY <1>0, <1>1, <1>2, <1>3, <1>4, <1>5, Groups

(* The states and reasons. *)
LEMMA WordsKept == ASSUME Poses, Words, [Next]_vars PROVE Words'
<1>0. CASE StartStep
  BY <1>0, StartFacts, NoneAssumption, ZenonT(30) DEF Words, Stopped, Reason
<1>1. CASE PeopleStep
  <2>1. CASE GrantAsk
    BY <2>1 DEF GrantAsk, owner, loop, Words
  <2>2. CASE Arm \/ ReleaseTorque \/ Expire \/ Age
    BY <2>2, SMTT(60) DEF
        Arm, ReleaseTorque, Expire, Age, lease, owner, loop, Words, Stopped, Reason
  <2>3. CASE StopFinish
    BY <2>3, SMTT(60) DEF
        StopFinish, Forgotten, owner, loop, Words, Stopped, Reason
  <2>4. CASE Hold
    BY <2>4, SMTT(60) DEF
        Hold, HoldFor, EnterHold, owner, loop, Words, Stopped, Reason
  <2>5. CASE Resume
    BY <2>5, SMTT(60) DEF
        Resume, Resumed, Torque, owner, loop, Words, Stopped, Reason
  <2> QED BY <1>1, <2>1, <2>2, <2>3, <2>4, <2>5 DEF PeopleStep
<1>2. CASE LeaseStep
  BY <1>2, SMTT(60) DEF LeaseStep, Grant, GrantLook, GrantResume, Resumed,
      RequireResync, Torque, Release, ReleaseAll, ReleaseHold, HoldFor,
      EnterHold, Submit, owner, loop, lease, calls, arm, Words, Stopped, Reason
<1>3. CASE AroundStep
  BY <1>3, SMTT(60) DEF AroundStep, LoopEnd, LoopTake, LoopSetTorque,
      LoopTorqueFails, EnterFault, RequireResync, LoopArmed, LoopReleased,
      LoopReadFails, LoopDies, Forgotten, ReleaseAll, LoopWrite,
      LoopWriteFails, owner, loop, lease, calls, arm, Words, Stopped, Reason
<1>4. CASE LoopDecides
  BY <1>4, ReadFacts, RetreatFacts, SMTT(60) DEF LoopDecides, LoopUnattended,
      EnterHold, RequireResync, Write, LoopTrips, LoopBacksOff, NextTick,
      Backed, LoopFollows, Watched, LoopKeeps, LoopWatches, CanTrip, lease,
      Words, Stopped, Reason
<1>5. CASE UNCHANGED vars
  BY <1>5 DEF vars, owner, loop, lease, calls, arm, Words, Stopped, Reason
<1> QED BY <1>0, <1>1, <1>2, <1>3, <1>4, <1>5, Groups

(* The flags. *)
LEMMA FlagsKept == ASSUME Poses, Flags, [Next]_vars PROVE Flags'
<1>0. CASE StartStep
  BY <1>0, ZenonT(30) DEF StartStep, Start, StartFails, ClearsDead, ReleaseAll, lease, loop, calls, Flags
<1>1. CASE PeopleStep
  BY <1>1, ZenonT(60) DEF PeopleStep, Forgotten, ReleaseAll, Torque,
      StopFinish, Arm, ReleaseTorque, GrantAsk, Hold, HoldFor, EnterHold,
      RequireResync, Resume, Running, Resumed, Expire, Age, owner, loop,
      lease, calls, arm, Flags
<1>2. CASE LeaseStep
  BY <1>2, ZenonT(60) DEF LeaseStep, Grant, GrantLook, GrantResume, Resumed,
      RequireResync, Torque, Release, ReleaseAll, ReleaseHold, HoldFor,
      EnterHold, Submit, owner, loop, lease, calls, arm, Flags
<1>3. CASE AroundStep
  BY <1>3, ZenonT(60) DEF AroundStep, LoopEnd, LoopTake, LoopSetTorque,
      LoopTorqueFails, EnterFault, RequireResync, LoopArmed, LoopReleased,
      LoopReadFails, LoopDies, Forgotten, ReleaseAll, LoopWrite,
      LoopWriteFails, owner, loop, lease, calls, arm, Flags
<1>4. CASE LoopDecides
  BY <1>4, ReadFacts, RetreatFacts, ZenonT(60) DEF LoopDecides,
      LoopUnattended, EnterHold, RequireResync, Write, LoopTrips,
      LoopBacksOff, NextTick, Backed, LoopFollows, Watched, LoopKeeps,
      LoopWatches, CanTrip, lease, Flags
<1>5. CASE UNCHANGED vars
  BY <1>5 DEF vars, owner, loop, lease, calls, arm, Flags
<1> QED BY <1>0, <1>1, <1>2, <1>3, <1>4, <1>5, Groups

(* Who has the lease, and whose call is half done. *)
LEMMA WhoKept == ASSUME Poses, Who, [Next]_vars PROVE Who'
<1>0. CASE StartStep
  BY <1>0, StartFacts, NoneAssumption, ZenonT(30) DEF Who
<1>1. CASE PeopleStep
  BY <1>1, SMTT(60) DEF PeopleStep,  ReleaseAll, Torque,
      StopFinish, Arm, ReleaseTorque, GrantAsk, Hold, HoldFor, EnterHold,
      RequireResync, Resume, Running, Resumed, Expire, Age, owner, loop,
      lease, calls, arm, Who
<1>2. CASE LeaseStep
  BY <1>2, SMTT(60) DEF LeaseStep, Grant, GrantLook, GrantResume, Resumed,
      RequireResync, Torque, Release, ReleaseAll, ReleaseHold, HoldFor,
      EnterHold, Submit, owner, loop, lease, calls, arm, Who
<1>3. CASE AroundStep
  BY <1>3, SMTT(60) DEF AroundStep, LoopEnd, LoopTake, LoopSetTorque,
      LoopTorqueFails, EnterFault, RequireResync, LoopArmed, LoopReleased,
      LoopReadFails, LoopDies, Forgotten, ReleaseAll, LoopWrite,
      LoopWriteFails, owner, loop, lease, calls, arm, Who
<1>4. CASE LoopDecides
  BY <1>4, ReadFacts, RetreatFacts, SMTT(60) DEF LoopDecides, LoopUnattended,
      EnterHold, RequireResync, Write, LoopTrips, LoopBacksOff, NextTick,
      Backed, LoopFollows, Watched, LoopKeeps, LoopWatches, CanTrip, lease,
      Who
<1>5. CASE UNCHANGED vars
  BY <1>5 DEF vars, owner, loop, lease, calls, arm, Who
<1> QED BY <1>0, <1>1, <1>2, <1>3, <1>4, <1>5, Groups

(* What the loop knows. *)
LEMMA LoopKnowsKept ==
  ASSUME Poses, Words, LoopKnows, [Next]_vars
  PROVE  LoopKnows'
<1>0. CASE StartStep
  BY <1>0, StartFacts, NoneAssumption, ZenonT(30) DEF Poses, Words, LoopKnows, Stopped, Pose, Reason
<1>1. CASE PeopleStep
  <2>1. CASE GrantAsk
    BY <2>1 DEF GrantAsk, owner, loop, arm, LoopKnows
  <2>2. CASE Arm \/ ReleaseTorque \/ Expire \/ Age
    BY <2>2, TopAssumption, RetreatAssumption, NoneAssumption, SMTT(60) DEF
        Arm, ReleaseTorque, Expire, Age, lease, owner, loop, arm, Poses, Words, LoopKnows, Stopped, Pose, Reason, Near
  <2>3. CASE StopFinish
    BY <2>3, TopAssumption, RetreatAssumption, NoneAssumption, SMTT(60) DEF
        StopFinish, Forgotten, owner, loop, arm, Poses, Words, LoopKnows, Stopped, Pose, Reason, Near
  <2>4. CASE Hold
    BY <2>4, TopAssumption, RetreatAssumption, NoneAssumption, SMTT(60) DEF
        Hold, HoldFor, EnterHold, owner, loop, arm, Poses, Words, LoopKnows, Stopped, Pose, Reason, Near
  <2>5. CASE Resume
    BY <2>5, TopAssumption, RetreatAssumption, NoneAssumption, SMTT(60) DEF
        Resume, Resumed, Torque, owner, loop, arm, Poses, Words, LoopKnows, Stopped, Pose, Reason, Near
  <2> QED BY <1>1, <2>1, <2>2, <2>3, <2>4, <2>5 DEF PeopleStep
<1>2. CASE LeaseStep
  BY <1>2, TopAssumption, RetreatAssumption, NoneAssumption, SMTT(60) DEF
      LeaseStep, Grant, GrantLook, GrantResume, Resumed, RequireResync,
      Torque, Release, ReleaseAll, ReleaseHold, HoldFor, EnterHold, Submit,
      owner, loop, lease, calls, arm, Poses, Words, LoopKnows, Stopped, Pose, Reason,
      Near
<1>3. CASE AroundStep
  BY <1>3, TopAssumption, RetreatAssumption, NoneAssumption, SMTT(60) DEF
      AroundStep, LoopEnd, LoopTake, LoopSetTorque, LoopTorqueFails,
      EnterFault, RequireResync, LoopArmed, LoopReleased, LoopReadFails,
      LoopDies, Forgotten, ReleaseAll, LoopWrite, LoopWriteFails, owner, loop,
      lease, calls, arm, Poses, Words, LoopKnows, Stopped, Pose, Reason, Near
<1>4. CASE LoopDecides
  BY <1>4, ReadFacts, RetreatFacts, TopAssumption, RetreatAssumption, NoneAssumption, SMTT(60) DEF
      LoopDecides, LoopUnattended, EnterHold, RequireResync, Write, LoopTrips,
      LoopBacksOff, NextTick, Backed, LoopFollows, Watched, LoopKeeps,
      LoopWatches, CanTrip, lease, Poses, Words, LoopKnows, Stopped, Pose,
      Reason, Near
<1>5. CASE UNCHANGED vars
  BY <1>5 DEF vars, owner, loop, lease, calls, arm, Poses, Words, LoopKnows, Stopped,
      Pose, Reason, Near
<1> QED BY <1>0, <1>1, <1>2, <1>3, <1>4, <1>5, Groups

(* A write that a hold has overtaken. *)
LEMMA HeldWriteKept ==
  ASSUME Poses, LoopKnows, HeldWrite, [Next]_vars
  PROVE  HeldWrite'
<1>0. CASE StartStep
  BY <1>0, StartFacts, NoneAssumption, ZenonT(30) DEF Poses, LoopKnows, HeldWrite
<1>1. CASE PeopleStep
  BY <1>1, TopAssumption, RetreatAssumption, NoneAssumption, SMTT(60) DEF
      PeopleStep,  ReleaseAll, Torque, StopFinish,
      Arm, ReleaseTorque, GrantAsk, Hold, HoldFor, EnterHold, RequireResync, Resume,
      Running, Resumed, Expire, Age, owner, loop, lease, calls, arm, Poses,
      LoopKnows, HeldWrite
<1>2. CASE LeaseStep
  BY <1>2, TopAssumption, RetreatAssumption, NoneAssumption, SMTT(60) DEF
      LeaseStep, Grant, GrantLook, GrantResume, Resumed, RequireResync,
      Torque, Release, ReleaseAll, ReleaseHold, HoldFor, EnterHold, Submit,
      owner, loop, lease, calls, arm, Poses, LoopKnows, HeldWrite
<1>3. CASE AroundStep
  BY <1>3, TopAssumption, RetreatAssumption, NoneAssumption, SMTT(60) DEF
      AroundStep, LoopEnd, LoopTake, LoopSetTorque, LoopTorqueFails,
      EnterFault, RequireResync, LoopArmed, LoopReleased, LoopReadFails,
      LoopDies, Forgotten, ReleaseAll, LoopWrite, LoopWriteFails, owner, loop,
      lease, calls, arm, Poses, LoopKnows, HeldWrite
<1>4. CASE LoopDecides
  BY <1>4, ReadFacts, RetreatFacts, TopAssumption, RetreatAssumption, NoneAssumption, SMTT(60) DEF
      LoopDecides, LoopUnattended, EnterHold, RequireResync, Write, LoopTrips,
      LoopBacksOff, NextTick, Backed, LoopFollows, Watched, LoopKeeps,
      LoopWatches, CanTrip, lease, Poses, LoopKnows, HeldWrite
<1>5. CASE UNCHANGED vars
  BY <1>5 DEF vars, owner, loop, lease, calls, arm, Poses, LoopKnows, HeldWrite
<1> QED BY <1>0, <1>1, <1>2, <1>3, <1>4, <1>5, Groups

(* The held pose is where the arm is. *)
LEMMA HoldKept ==
  ASSUME Poses, Words, LoopKnows, HeldWrite, HoldStaysPut, [Next]_vars
  PROVE  HoldStaysPut'
<1> SUFFICES ASSUME state' = "HOLD", torque', stiff', pc' # "armed", hold_goal' # None
             PROVE  Near(hold_goal', pose')
  BY DEF HoldStaysPut
<1>0. CASE StartStep
  BY <1>0, StartFacts, NoneAssumption, ZenonT(30) DEF Poses, Words, LoopKnows, HeldWrite, HoldStaysPut
<1>1. CASE PeopleStep
  BY <1>1, NearItself, ZenonT(60) DEF PeopleStep, Forgotten,
      ReleaseAll, Torque, StopFinish, Arm, ReleaseTorque, GrantAsk, Hold,
      HoldFor, EnterHold, RequireResync, Resume, Running, Resumed, Expire,
      Age, owner, loop, lease, calls, arm, Poses, Words, LoopKnows, HeldWrite,
      HoldStaysPut
<1>2. CASE LeaseStep
  <2> SUFFICES ASSUME NEW o \in Operator,
                      Grant(o) \/ GrantLook(o) \/ GrantResume(o) \/ Release(o) \/ ReleaseHold(o)
                        \/ \E p \in Pose : Submit(o, p)
               PROVE  Near(hold_goal', pose')
    BY <1>2 DEF LeaseStep
  <2>1. CASE Grant(o)
    BY <2>1, NearItself, ZenonT(60) DEF Grant, owner, loop, calls, arm, Poses, Words,
        LoopKnows, HoldStaysPut
  <2>2. CASE GrantLook(o)
    BY <2>2, NearItself, ZenonT(60) DEF GrantLook, owner, loop, lease, calls, arm,
        Poses, Words, LoopKnows, HoldStaysPut
  <2>3. CASE GrantResume(o)
    BY <2>3, NearItself, ZenonT(60) DEF GrantResume, Resumed, RequireResync,
        Torque, loop, lease, calls, arm, Poses, Words, LoopKnows, HoldStaysPut
  <2>4. CASE Release(o)
    BY <2>4, NearItself, ZenonT(60) DEF Release, ReleaseAll, owner, loop, calls, arm,
        Poses, Words, LoopKnows, HoldStaysPut
  <2>5. CASE ReleaseHold(o)
    BY <2>5, NearItself, ZenonT(60) DEF ReleaseHold, HoldFor, EnterHold,
        RequireResync, lease, calls, arm, Poses, Words, LoopKnows, HoldStaysPut
  <2>6. CASE \E p \in Pose : Submit(o, p)
    BY <2>6, NearItself, ZenonT(60) DEF Submit, loop, calls, arm, Poses, Words,
        LoopKnows, HoldStaysPut
  <2> QED BY <2>1, <2>2, <2>3, <2>4, <2>5, <2>6
<1>3. CASE AroundStep
  <2>1. CASE LoopWrite
    BY <2>1, TopAssumption, NoneAssumption, SMTT(60) DEF LoopWrite, owner,
        lease, Poses, LoopKnows, HeldWrite, HoldStaysPut, Pose, Near
  <2>2. CASE AroundStep /\ ~LoopWrite
    BY <2>2, ZenonT(60) DEF AroundStep, LoopEnd, LoopTake, LoopSetTorque,
        LoopTorqueFails, EnterFault, RequireResync, LoopArmed, LoopReleased,
        LoopReadFails, LoopDies, Forgotten, ReleaseAll, LoopWriteFails, owner,
        loop, lease, calls, arm, LoopKnows, HoldStaysPut
  <2> QED BY <1>3, <2>1, <2>2
<1>4. CASE LoopDecides
  BY <1>4, ReadFacts, RetreatFacts, NearItself, ZenonT(60) DEF LoopDecides,
      LoopUnattended, EnterHold, RequireResync, Write, LoopTrips,
      LoopBacksOff, NextTick, Backed, LoopFollows, Watched, LoopKeeps,
      LoopWatches, CanTrip, lease, Poses, Words, LoopKnows, HeldWrite,
      HoldStaysPut
<1>5. CASE UNCHANGED vars
  BY <1>5 DEF vars, owner, loop, lease, calls, arm, Poses, Words, LoopKnows,
      HeldWrite, HoldStaysPut
<1> QED BY <1>0, <1>1, <1>2, <1>3, <1>4, <1>5, Groups

(* The state and the torque. *)
LEMMA TorqueKept ==
  ASSUME Poses, Words, LoopKnows, StateTellsTorque, [Next]_vars
  PROVE  StateTellsTorque'
<1>0. CASE StartStep
  BY <1>0, StartFacts, NoneAssumption, ZenonT(30) DEF Words, LoopKnows, StateTellsTorque, Stopped
<1>1. CASE PeopleStep
  BY <1>1, SMTT(60) DEF PeopleStep,  ReleaseAll, Torque,
      StopFinish, Arm, ReleaseTorque, GrantAsk, Hold, HoldFor, EnterHold,
      RequireResync, Resume, Running, Resumed, Expire, Age, owner, loop,
      lease, calls, arm, Words, LoopKnows, StateTellsTorque, Stopped
<1>2. CASE LeaseStep
  BY <1>2, SMTT(60) DEF LeaseStep, Grant, GrantLook, GrantResume, Resumed,
      RequireResync, Torque, Release, ReleaseAll, ReleaseHold, HoldFor,
      EnterHold, Submit, owner, loop, lease, calls, arm, Words, LoopKnows,
      StateTellsTorque, Stopped
<1>3. CASE AroundStep
  BY <1>3, SMTT(60) DEF AroundStep, LoopEnd, LoopTake, LoopSetTorque,
      LoopTorqueFails, EnterFault, RequireResync, LoopArmed, LoopReleased,
      LoopReadFails, LoopDies, Forgotten, ReleaseAll, LoopWrite,
      LoopWriteFails, owner, loop, lease, calls, arm, Words, LoopKnows,
      StateTellsTorque, Stopped
<1>4. CASE LoopDecides
  BY <1>4, ReadFacts, RetreatFacts, SMTT(60) DEF LoopDecides, LoopUnattended,
      EnterHold, RequireResync, Write, LoopTrips, LoopBacksOff, NextTick,
      Backed, LoopFollows, Watched, LoopKeeps, LoopWatches, CanTrip, lease,
      Words, LoopKnows, StateTellsTorque, Stopped
<1>5. CASE UNCHANGED vars
  BY <1>5 DEF vars, owner, loop, lease, calls, arm, Words, LoopKnows,
      StateTellsTorque, Stopped
<1> QED BY <1>0, <1>1, <1>2, <1>3, <1>4, <1>5, Groups

(* Stopping takes the synchronisation away. *)
LEMMA UnsyncedKept ==
  ASSUME Poses, Words, StoppedIsUnsynced, [Next]_vars
  PROVE  StoppedIsUnsynced'
<1>0. CASE StartStep
  BY <1>0, StartFacts, NoneAssumption, ZenonT(30) DEF Words, StoppedIsUnsynced, Stopped
<1>1. CASE PeopleStep
  BY <1>1, ZenonT(60) DEF PeopleStep, Forgotten, ReleaseAll, Torque,
      StopFinish, Arm, ReleaseTorque, GrantAsk, Hold, HoldFor, EnterHold,
      RequireResync, Resume, Running, Resumed, Expire, Age, owner, loop,
      lease, calls, arm, Words, StoppedIsUnsynced, Stopped
<1>2. CASE LeaseStep
  <2> SUFFICES ASSUME NEW o \in Operator,
                      Grant(o) \/ GrantLook(o) \/ GrantResume(o) \/ Release(o) \/ ReleaseHold(o)
                        \/ \E p \in Pose : Submit(o, p)
               PROVE  StoppedIsUnsynced'
    BY <1>2 DEF LeaseStep
  <2>1. CASE Grant(o)
    BY <2>1, ZenonT(60) DEF Grant, owner, loop, calls, arm, Words, StoppedIsUnsynced,
        Stopped
  <2>2. CASE GrantLook(o)
    BY <2>2, ZenonT(60) DEF GrantLook, owner, loop, lease, calls, arm, Words,
        StoppedIsUnsynced, Stopped
  <2>3. CASE GrantResume(o)
    BY <2>3, ZenonT(60) DEF GrantResume, Resumed, RequireResync, Torque, loop,
        lease, calls, arm, Words, StoppedIsUnsynced, Stopped
  <2>4. CASE Release(o)
    BY <2>4, ZenonT(60) DEF Release, ReleaseAll, owner, loop, calls, arm, Words,
        StoppedIsUnsynced, Stopped
  <2>5. CASE ReleaseHold(o)
    BY <2>5, ZenonT(60) DEF ReleaseHold, HoldFor, EnterHold, RequireResync,
        lease, calls, arm, Words, StoppedIsUnsynced, Stopped
  <2>6. CASE \E p \in Pose : Submit(o, p)
    BY <2>6, ZenonT(60) DEF Submit, loop, calls, arm, Words, StoppedIsUnsynced,
        Stopped
  <2> QED BY <2>1, <2>2, <2>3, <2>4, <2>5, <2>6
<1>3. CASE AroundStep
  BY <1>3, ZenonT(60) DEF AroundStep, LoopEnd, LoopTake, LoopSetTorque,
      LoopTorqueFails, EnterFault, RequireResync, LoopArmed, LoopReleased,
      LoopReadFails, LoopDies, Forgotten, ReleaseAll, LoopWrite,
      LoopWriteFails, owner, loop, lease, calls, arm, Words, StoppedIsUnsynced,
      Stopped
<1>4. CASE LoopDecides
  BY <1>4, ReadFacts, RetreatFacts, ZenonT(60) DEF LoopDecides,
      LoopUnattended, EnterHold, RequireResync, Write, LoopTrips,
      LoopBacksOff, NextTick, Backed, LoopFollows, Watched, LoopKeeps,
      LoopWatches, CanTrip, lease, Words, StoppedIsUnsynced, Stopped
<1>5. CASE UNCHANGED vars
  BY <1>5 DEF vars, owner, loop, lease, calls, arm, Words, StoppedIsUnsynced, Stopped
<1> QED BY <1>0, <1>1, <1>2, <1>3, <1>4, <1>5, Groups
(* Every step keeps all the parts of the invariant. *)
LEMMA StepIInv == IInv /\ [Next]_vars => IInv'
  BY PosesKept, WordsKept, FlagsKept, WhoKept, LoopKnowsKept, HeldWriteKept, HoldKept,
     TorqueKept, UnsyncedKept DEF IInv

(* The strengthened invariant of the virtual leader. *)
LEMMA SpecIInv == Spec => []IInv
  BY InitIInv, StepIInv, PTL DEF Spec

(* TypeOK: every retreat, hold and write is about a pose of the arm, and   *)
(* the lease and the loop are in one of their states.                      *)
THEOREM TypeCorrect == Spec => []TypeOK
<1>1. IInv => TypeOK
  BY DEF IInv, Poses, Words, Flags, Who, TypeOK
<1> QED BY <1>1, SpecIInv, PTL

(* In HOLD the loop writes the pose at which the arm was held.             *)
THEOREM HeldArmStays == Spec => []HoldStaysPut
<1>1. IInv => HoldStaysPut
  BY DEF IInv
<1> QED BY <1>1, SpecIInv, PTL

(* SAFE means that the backend has torque off as the last that it set;     *)
(* READY, ACTIVE and RETREATING mean that it is on.                        *)
THEOREM StateIsTorque == Spec => []StateTellsTorque
<1>1. IInv => StateTellsTorque
  BY DEF IInv
<1> QED BY <1>1, SpecIInv, PTL

(* After a stop, whoever has the lease has to start near the arm's pose.   *)
THEOREM StopsUnsync == Spec => []StoppedIsUnsynced
<1>1. IInv => StoppedIsUnsynced
  BY DEF IInv
<1> QED BY <1>1, SpecIInv, PTL

(* Only a command makes the arm ACTIVE, and it is refused while the arm is stopped. *)
LEMMA StoppedStays ==
  ASSUME IInv, state \in Stopped, [Next]_vars
  PROVE  state' # "ACTIVE"
<1>0. CASE StartStep
  BY <1>0, StartFacts, NoneAssumption, ZenonT(30) DEF IInv, Stopped
<1>1. CASE PeopleStep
  BY <1>1, SMTT(60) DEF PeopleStep,  ReleaseAll, Torque,
      StopFinish, Arm, ReleaseTorque, GrantAsk, Hold, HoldFor, EnterHold,
      RequireResync, Resume, Running, Resumed, Expire, Age, owner, loop,
      lease, calls, arm, IInv, Stopped
<1>2. CASE LeaseStep
  BY <1>2, SMTT(60) DEF LeaseStep, Grant, GrantLook, GrantResume, Resumed,
      RequireResync, Torque, Release, ReleaseAll, ReleaseHold, HoldFor,
      EnterHold, Submit, owner, loop, lease, calls, arm, IInv, Stopped
<1>3. CASE AroundStep
  BY <1>3, SMTT(60) DEF AroundStep, LoopEnd, LoopTake, LoopSetTorque,
      LoopTorqueFails, EnterFault, RequireResync, LoopArmed, LoopReleased,
      LoopReadFails, LoopDies, Forgotten, ReleaseAll, LoopWrite,
      LoopWriteFails, owner, loop, lease, calls, arm, IInv, Stopped
<1>4. CASE LoopDecides
  BY <1>4, ReadFacts, RetreatFacts, SMTT(60) DEF LoopDecides, LoopUnattended,
      EnterHold, RequireResync, Write, LoopTrips, LoopBacksOff, NextTick,
      Backed, LoopFollows, Watched, LoopKeeps, LoopWatches, CanTrip, lease,
      IInv, Stopped
<1>5. CASE UNCHANGED vars
  BY <1>5 DEF vars, owner, loop, lease, calls, arm, IInv, Stopped
<1> QED BY <1>0, <1>1, <1>2, <1>3, <1>4, <1>5, Groups

(* No command moves a stopped arm, in any one step of anybody.              *)
THEOREM StoppedArmStays == Spec => NoMotionFromStop
<1>1. IInv /\ [Next]_vars => [(state \in Stopped) => state' # "ACTIVE"]_vars
  BY StoppedStays
<1> QED BY <1>1, SpecIInv, PTL DEF Spec, NoMotionFromStop

(* The reason of a hold. *)
LEMMA ReasonStays ==
  ASSUME IInv, state \in {"HOLD", "FAULT"}, state' \in {"HOLD", "FAULT"}, [Next]_vars
  PROVE  fault' = fault \/ (state' = "FAULT" /\ fault' = "HARDWARE_ERROR")
<1>0. CASE StartStep
  BY <1>0, StartFacts, NoneAssumption, ZenonT(30) DEF LoopKnows, IInv
<1>1. CASE PeopleStep
  BY <1>1, NoneAssumption, SMTT(60) DEF PeopleStep, 
      ReleaseAll, Torque, StopFinish, Arm, ReleaseTorque, GrantAsk, Hold,
      HoldFor, EnterHold, RequireResync, Resume, Running, Resumed, Expire,
      Age, owner, loop, lease, calls, arm, LoopKnows, IInv
<1>2. CASE LeaseStep
  BY <1>2, NoneAssumption, SMTT(60) DEF LeaseStep, Grant, GrantLook,
      GrantResume, Resumed, RequireResync, Torque, Release, ReleaseAll,
      ReleaseHold, HoldFor, EnterHold, Submit, owner, loop, lease, calls, arm,
      LoopKnows, IInv
<1>3. CASE AroundStep
  BY <1>3, NoneAssumption, SMTT(60) DEF AroundStep, LoopEnd, LoopTake,
      LoopSetTorque, LoopTorqueFails, EnterFault, RequireResync, LoopArmed,
      LoopReleased, LoopReadFails, LoopDies, Forgotten, ReleaseAll, LoopWrite,
      LoopWriteFails, owner, loop, lease, calls, arm, LoopKnows, IInv
<1>4. CASE LoopDecides
  <2>1. LoopKeeps \/ LoopWatches
    BY <1>4, RetreatFacts, Zenon DEF LoopDecides, LoopUnattended, Lost, Silent,
       LoopTrips, CanTrip, LoopBacksOff, LoopFollows, IInv
  <2> QED BY <2>1 DEF LoopKeeps, LoopWatches
<1>5. CASE UNCHANGED vars
  BY <1>5 DEF vars, owner, loop, lease, calls, arm, LoopKnows, IInv
<1> QED BY <1>0, <1>1, <1>2, <1>3, <1>4, <1>5, Groups

(* While the arm is held, no hold, trip or release replaces the reason that *)
(* is shown: only an error of the bus does, and the state is FAULT then.    *)
THEOREM FirstReasonShown == Spec => FirstReasonStays
<1>1. IInv /\ [Next]_vars =>
        [(state \in {"HOLD", "FAULT"} /\ state' \in {"HOLD", "FAULT"}) =>
           (fault' = fault \/ (state' = "FAULT" /\ fault' = "HARDWARE_ERROR"))]_vars
  BY ReasonStays
<1> QED BY <1>1, SpecIInv, PTL DEF Spec, FirstReasonStays

----------------------------------------------------------------------------
(* SAFETY.md's states, which the virtual leader implements (SafetyStates).  *)
(* Only without a loop the owner is STOPPED. *)
Off == state = "STOPPED" => pc = "off"

(* A loop is never STOPPED (VirtualLeaderOwner.start, stop, _run).          *)
LEMMA OffKept ==
  ASSUME IInv, Off, [Next]_vars
  PROVE  Off'
<1>0. CASE StartStep
  BY <1>0, StartFacts, NoneAssumption, ZenonT(30) DEF Off
<1>1. CASE PeopleStep
  BY <1>1, SMTT(60) DEF PeopleStep,  ReleaseAll, Torque, StopFinish, Arm,
      ReleaseTorque, GrantAsk, Hold, HoldFor, EnterHold, RequireResync, Resume, Running, Resumed, Expire, Age,
      owner, loop, lease, calls, arm, Off
<1>2. CASE LeaseStep
  BY <1>2, SMTT(60) DEF LeaseStep, Grant, GrantLook, GrantResume, Resumed, Running, RequireResync, Torque,
      Release, ReleaseAll, ReleaseHold, HoldFor, EnterHold, Submit, owner, loop, lease, calls, arm, Off
<1>3. CASE AroundStep
  BY <1>3, SMTT(60) DEF AroundStep, LoopEnd, LoopTake, LoopSetTorque, LoopTorqueFails, EnterFault,
      RequireResync, LoopArmed, LoopReleased, LoopReadFails, LoopDies, Forgotten, ReleaseAll, LoopWrite,
      LoopWriteFails, owner, loop, lease, calls, arm, Off
<1>4. CASE LoopDecides
  <2>1. pc = "read" /\ state # "STOPPED"
    BY <1>4 DEF LoopDecides, LoopUnattended, LoopTrips, LoopRetreats, LoopBacksOff, LoopFollows, LoopKeeps,
       LoopWatches, Read, Off
  <2>2. pc' \in {"write", "top"}
    BY <1>4 DEF LoopDecides, LoopUnattended, LoopTrips, LoopRetreats, LoopBacksOff, LoopFollows, LoopKeeps,
       LoopWatches, Write
  <2>3. state' = state \/ state' \in {"HOLD", "RETREATING"}
    BY <1>4, Zenon DEF LoopDecides, LoopUnattended, LoopTrips, LoopRetreats, LoopBacksOff, LoopFollows, LoopKeeps,
       LoopWatches, EnterHold
  <2> QED BY <2>1, <2>2, <2>3 DEF Off
<1>5. CASE UNCHANGED vars
  BY <1>5 DEF vars, owner, loop, lease, calls, arm, Off
<1> QED BY <1>0, <1>1, <1>2, <1>3, <1>4, <1>5, Groups

(* A hold and an exception halt the arm; a resume prepares it (hold, resume, _loop). *)
LEMMA HoldStands ==
  ASSUME IInv, NEW code, HoldFor(code)
  PROVE  Modes!Halt \/ UNCHANGED Modes!standing
BY DEF HoldFor, EnterHold, RequireResync, lease, Modes!Halt, Modes!Halted, Modes!standing

LEMMA FaultStands ==
  ASSUME Off, pc # "off", EnterFault
  PROVE  Modes!Halt
BY DEF EnterFault, RequireResync, Off, Modes!Halt, Modes!Halted

LEMMA ResumeStands ==
  ASSUME IInv, Resumed
  PROVE  Modes!Prepare \/ UNCHANGED Modes!standing
BY DEF Resumed, RequireResync, Torque, lease, IInv, StoppedIsUnsynced, Stopped, Modes!Prepare, Modes!standing

(* What people ask for is a step of SafetyStates, or none. *)
LEMMA PeopleStand ==
  ASSUME IInv, Off, StartStep \/ PeopleStep
  PROVE  Modes!Next \/ UNCHANGED Modes!standing
<1>1. CASE Start
  BY <1>1 DEF Start, Torque, ClearsDead, ReleaseAll, lease, Modes!Next, Modes!Prepare
<1>2. CASE Arm \/ Age \/ GrantAsk
  BY <1>2 DEF Arm, Age, GrantAsk, owner, lease, Modes!standing
<1>3. CASE StopFinish
  BY <1>3 DEF StopFinish, ReleaseAll, Modes!Next, Modes!Stop
<1>4. CASE ReleaseTorque \/ Expire
  BY <1>4 DEF ReleaseTorque, Expire, ReleaseAll, owner, Modes!Next, Modes!Dismiss
<1>5. CASE Hold
  BY <1>5, HoldStands DEF Hold, Modes!Next
<1>6. CASE Resume
  BY <1>6, ResumeStands DEF Resume, Modes!Next
<1>7. CASE StartFails
  <2>1. CASE state = "STOPPED"
    BY <1>7, <2>1 DEF StartFails, ClearsDead, lease, Modes!standing
  <2>2. CASE state # "STOPPED"
    BY <1>7, <2>2 DEF StartFails, ClearsDead, ReleaseAll, Modes!Next, Modes!Stop
  <2> QED BY <2>1, <2>2
<1> QED BY <1>1, <1>2, <1>3, <1>4, <1>5, <1>6, <1>7 DEF StartStep, PeopleStep

(* So is what people do with a lease: it is entrusted, used and dismissed. *)
LEMMA LeaseStands ==
  ASSUME IInv, Off, LeaseStep
  PROVE  Modes!Next \/ UNCHANGED Modes!standing
<1>1. PICK o \in Operator : \/ Grant(o) \/ GrantLook(o) \/ GrantResume(o)
                            \/ Release(o) \/ ReleaseHold(o)
                            \/ \E p \in Pose : Submit(o, p)
  BY DEF LeaseStep
<1>2. CASE Grant(o)
  <2>1. Modes!Entrust(o)
    BY <1>2, NoneAssumption DEF Grant, owner, Modes!Entrust
  <2> QED BY <2>1 DEF Modes!Next
<1>3. CASE GrantLook(o)
  BY <1>3 DEF GrantLook, owner, lease, Modes!standing
<1>4. CASE GrantResume(o)
  BY <1>4, ResumeStands DEF GrantResume, Modes!Next
<1>5. CASE Release(o)
  BY <1>5 DEF Release, ReleaseAll, owner, Modes!Next, Modes!Dismiss
<1>6. CASE ReleaseHold(o)
  BY <1>6, HoldStands DEF ReleaseHold, Modes!Next
<1>7. ASSUME NEW p \in Pose, Submit(o, p)
      PROVE  Modes!Next
  <2>1. Modes!Command(o)
    BY <1>7, NoneAssumption DEF Submit, Off, Stopped, Modes!Command, Modes!Halted
  <2> QED BY <2>1 DEF Modes!Next
<1> QED BY <1>1, <1>2, <1>3, <1>4, <1>5, <1>6, <1>7

(* So is what the loop does around its decision: a torque request prepares the arm. *)
LEMMA AroundStands ==
  ASSUME IInv, Off, AroundStep
  PROVE  Modes!Next \/ UNCHANGED Modes!standing
<1>1. CASE LoopEnd \/ LoopTake \/ LoopSetTorque \/ LoopWrite
  BY <1>1 DEF LoopEnd, LoopTake, LoopSetTorque, LoopWrite, owner, lease, Modes!standing
<1>2. CASE LoopTorqueFails \/ LoopReadFails \/ LoopWriteFails
  BY <1>2, FaultStands DEF LoopTorqueFails, LoopReadFails, LoopWriteFails, Modes!Next
<1>3. CASE LoopArmed \/ LoopReleased
  BY <1>3 DEF LoopArmed, LoopReleased, lease, Modes!Next, Modes!Prepare
<1>4. CASE LoopDies
  <2>1. Modes!Halt
    BY <1>4 DEF LoopDies, ReleaseAll, Off, Modes!Halt, Modes!Halted
  <2> QED BY <2>1 DEF Modes!Next
<1> QED BY <1>1, <1>2, <1>3, <1>4 DEF AroundStep

(* So is what it decides: to hold, to retreat, or nothing that anybody sees. *)
LEMMA DecisionStands ==
  ASSUME IInv, Off, LoopDecides
  PROVE  Modes!Next \/ UNCHANGED Modes!standing
<1>1. pc # "off" /\ state # "STOPPED"
  BY DEF LoopDecides, LoopUnattended, LoopTrips, LoopRetreats, LoopBacksOff, LoopFollows, LoopKeeps,
     LoopWatches, Read, Off
<1>2. ASSUME NEW code, NEW p, EnterHold(code, p)
      PROVE  Modes!Halt
  BY <1>1, <1>2 DEF EnterHold, RequireResync, Modes!Halt, Modes!Halted
<1>3. CASE LoopUnattended \/ LoopTrips
  BY <1>2, <1>3 DEF LoopUnattended, LoopTrips, Modes!Next
<1>4. CASE LoopRetreats
  <2>1. PICK b \in Away(present', Watched) :
          IF b = present' THEN EnterHold("TRIP", present')
          ELSE state' = "RETREATING" /\ RequireResync
    BY <1>4 DEF LoopRetreats
  <2>2. ASSUME state' = "RETREATING", RequireResync
        PROVE  Modes!Halt
    BY <1>1, <2>2 DEF RequireResync, Modes!Halt, Modes!Halted
  <2> QED BY <1>2, <2>1, <2>2 DEF Modes!Next
<1>5. CASE LoopBacksOff
  BY <1>2, <1>5 DEF LoopBacksOff, lease, Modes!Next, Modes!standing
<1>6. CASE LoopFollows \/ LoopKeeps \/ LoopWatches
  BY <1>6 DEF LoopFollows, LoopKeeps, LoopWatches, lease, Modes!standing
<1> QED BY <1>3, <1>4, <1>5, <1>6 DEF LoopDecides

(* The owner, its loop and its leases implement what SAFETY.md asks (owner.py, authority.py, *)
(* api.py): whatever people ask for while the loop reads, writes, fails or dies, motion      *)
(* begins only with a command of the one authority, not in HOLD or FAULT, and from the       *)
(* arm's pose again after every stop and every change of the authority.                      *)
THEOREM ImplementsStates == Spec => ModesImplemented
<1>1. Init => Modes!Init /\ Off
  BY DEF Init, Modes!Init, Off
<1>2. IInv /\ Off /\ [Next]_vars => [Modes!Next]_(Modes!standing)
  <2> SUFFICES ASSUME IInv, Off, [Next]_vars PROVE Modes!Next \/ UNCHANGED Modes!standing
    OBVIOUS
  <2>1. CASE UNCHANGED vars
    BY <2>1 DEF vars, owner, lease, Modes!standing
  <2> QED BY <2>1, PeopleStand, LeaseStands, AroundStands, DecisionStands, Groups
<1>3. IInv /\ Off /\ [Next]_vars => Off'
  BY OffKept
<1> QED BY <1>1, <1>2, <1>3, SpecIInv, PTL DEF Spec, ModesImplemented, Modes!Spec

(* What SAFETY.md asks keeps its promise: nobody goes on with what was before a stop. *)
THEOREM StatesLetNothingGoOn == Modes!Spec => []Modes!NothingGoesOn
<1>1. Modes!Init => Modes!NothingGoesOn
  BY DEF Modes!Init, Modes!NothingGoesOn
<1>2. Modes!NothingGoesOn /\ [Modes!Next]_(Modes!standing) => Modes!NothingGoesOn'
  <2> SUFFICES ASSUME Modes!NothingGoesOn, Modes!Next \/ UNCHANGED Modes!standing PROVE Modes!NothingGoesOn'
    OBVIOUS
  <2> QED BY NoneAssumption DEF Modes!NothingGoesOn, Modes!Next, Modes!Entrust, Modes!Dismiss, Modes!Command,
        Modes!Halt, Modes!Prepare, Modes!Stop, Modes!standing, Modes!Halted
<1> QED BY <1>1, <1>2, PTL DEF Modes!Spec

----------------------------------------------------------------------------
(* The arithmetic that VLeader abstracts (Ladder), for every contract of a *)
(* joint, every setting and every reading.                                 *)
Joint == [unit : {"deg", "percent"}, minimum : Int, maximum : Int]
Each == [deg : Nat, percent : Nat]

(* clamp ends within the limits and leaves alone what is there already (JointSpec.clamp). *)
LEMMA ClampIs ==
  ASSUME NEW spec \in Joint, NEW value \in Int, spec.minimum <= spec.maximum
  PROVE  /\ clamp(spec, value) \in Int /\ contains(spec, clamp(spec, value))
         /\ contains(spec, value) => clamp(spec, value) = value
         /\ value <= spec.minimum => clamp(spec, value) = spec.minimum
         /\ spec.maximum <= value => clamp(spec, value) = spec.maximum
BY DEF clamp, contains, Low, High, Joint

(* The goal that is written is within the joint's limits; from a joint that is within them *)
(* it is no further than the lead, a goal that near is written as it is, and the joints    *)
(* that are told as limited are those whose goal was too far (CommandValidator.clamp_lead): *)
(* the force of a blocked joint has a bound, for any limits, lead, pose and goal.           *)
THEOREM LeadIsBounded ==
  ASSUME NEW J, NEW specs \in [J -> Joint], NEW wanted \in [J -> Int],
         NEW here, NEW room \in Each, DOMAIN here \subseteq J,
         \A i \in DOMAIN here : here[i] \in Int,
         NEW j \in J, specs[j].minimum <= specs[j].maximum
  PROVE  LET written == clamp_lead(specs, wanted, here, room)
             cap == Of(room, specs[j])
         IN  /\ contains(specs[j], written[j])
             /\ j \in DOMAIN here /\ contains(specs[j], here[j]) =>
                  /\ -cap <= written[j] - here[j] /\ written[j] - here[j] <= cap
                  /\ contains(specs[j], wanted[j]) =>
                       (written[j] = wanted[j] <=> j \notin limited(specs, wanted, here, room))
<1> DEFINE s == specs[j]
           t == wanted[j]
           cap == Of(room, s)
           written == clamp_lead(specs, wanted, here, room)
<1>1. s \in Joint /\ t \in Int /\ cap \in Nat
  BY DEF Of, Each
<1>2. CASE j \notin DOMAIN here
  <2>1. written[j] = clamp(s, t)
    BY <1>2 DEF clamp_lead
  <2> QED BY <1>1, <1>2, <2>1, ClampIs
<1>3. CASE j \in DOMAIN here
  <2> DEFINE p == here[j]
             near == High(-cap, Low(cap, t - p))
  <2>1. p \in Int /\ written[j] = clamp(s, p + near)
    BY <1>3 DEF clamp_lead, Lead
  <2>2. j \in limited(specs, wanted, here, room) <=> Gap(t, p) > cap
    BY <1>3 DEF limited
  <2> HIDE DEF s, t, cap, written, p
  <2>3. near \in Int /\ -cap <= near /\ near <= cap
    BY <1>1, <2>1 DEF High, Low
  <2>4. p + near = t <=> ~(Gap(t, p) > cap)
    BY <1>1, <2>1 DEF High, Low, Gap
  <2>5. t < p + near => near = -cap
    BY <1>1, <2>1 DEF High, Low
  <2>6. p + near < t => near = cap
    BY <1>1, <2>1 DEF High, Low
  <2> HIDE DEF near
  <2>7. contains(s, written[j])
    BY <1>1, <2>1, <2>3, ClampIs DEF s
  <2>8. ASSUME contains(s, p) PROVE -cap <= written[j] - p /\ written[j] - p <= cap
    BY <1>1, <2>1, <2>3, <2>8 DEF clamp, contains, High, Low, Joint, s
  <2>9. ASSUME contains(s, p), contains(s, t) PROVE written[j] = t <=> ~(Gap(t, p) > cap)
    BY <1>1, <2>1, <2>3, <2>4, <2>5, <2>6, <2>9 DEF clamp, contains, High, Low, Joint, s
  <2> QED BY <2>2, <2>7, <2>8, <2>9 DEF s, t, cap, written, p
<1> QED BY <1>2, <1>3

(* The speed that is written is never 0, which a servo takes as no limit, and a faster      *)
(* setting is never a slower servo, for any setting (VLeaderSettings.ticks_per_second).     *)
THEOREM SpeedIsALimit ==
  ASSUME NEW spec \in Joint, NEW slow \in Each, NEW fast \in Each, Of(slow, spec) <= Of(fast, spec)
  PROVE  /\ ticks_per_second(slow, spec) \in 1 .. 4000
         /\ ticks_per_second(slow, spec) <= ticks_per_second(fast, spec)
<1> DEFINE a == Of(slow, spec)
           b == Of(fast, spec)
<1>1. a \in Nat /\ b \in Nat /\ a <= b
  BY DEF Of, Each
<1> HIDE DEF a, b
<1>2. /\ Nearest(a * 1444, 100) \in Int /\ Nearest(b * 1444, 100) \in Int
      /\ Nearest(a * 1444, 100) <= Nearest(b * 1444, 100)
  BY <1>1 DEF Nearest
<1>3. /\ Nearest(a * 4096, 360) \in Int /\ Nearest(b * 4096, 360) \in Int
      /\ Nearest(a * 4096, 360) <= Nearest(b * 4096, 360)
  BY <1>1 DEF Nearest
<1>4. ASSUME NEW x \in Int, NEW y \in Int, x <= y
      PROVE  High(1, Low(4000, x)) \in 1 .. 4000 /\ High(1, Low(4000, x)) <= High(1, Low(4000, y))
  BY <1>4 DEF High, Low
<1>5. CASE spec.unit = "percent"
  <2> DEFINE u == Nearest(a * 1444, 100)
             v == Nearest(b * 1444, 100)
  <2>1. ticks_per_second(slow, spec) = High(1, Low(4000, u)) /\ ticks_per_second(fast, spec) = High(1, Low(4000, v))
    BY <1>5 DEF ticks_per_second, a, b
  <2>2. u \in Int /\ v \in Int /\ u <= v
    BY <1>2
  <2> HIDE DEF u, v
  <2>3. High(1, Low(4000, u)) \in 1 .. 4000 /\ High(1, Low(4000, u)) <= High(1, Low(4000, v))
    BY <1>4, <2>2
  <2> QED BY <2>1, <2>3
<1>6. CASE spec.unit # "percent"
  <2> DEFINE u == Nearest(a * 4096, 360)
             v == Nearest(b * 4096, 360)
  <2>1. ticks_per_second(slow, spec) = High(1, Low(4000, u)) /\ ticks_per_second(fast, spec) = High(1, Low(4000, v))
    BY <1>6 DEF ticks_per_second, a, b
  <2>2. u \in Int /\ v \in Int /\ u <= v
    BY <1>3
  <2> HIDE DEF u, v
  <2>3. High(1, Low(4000, u)) \in 1 .. 4000 /\ High(1, Low(4000, u)) <= High(1, Low(4000, v))
    BY <1>4, <2>2
  <2> QED BY <2>1, <2>3
<1> QED BY <1>5, <1>6

(* A retreat leaves the other joints where they are and takes the one that tripped against  *)
(* the push by no more than retreat_deg, and not out of its range (_retreat_goal).          *)
THEOREM RetreatOpposes ==
  ASSUME NEW J, NEW specs \in [J -> Joint], NEW here \in [J -> Int], NEW j \in J,
         specs[j].minimum <= specs[j].maximum, contains(specs[j], here[j]),
         NEW pushing \in Int, NEW back \in Nat
  PROVE  LET written == retreat_goal(specs, here, j, pushing, back)
         IN  /\ contains(specs[j], written[j])
             /\ pushing >= 0 => here[j] - back <= written[j] /\ written[j] <= here[j]
             /\ pushing < 0 => here[j] <= written[j] /\ written[j] <= here[j] + back
             /\ \A i \in J \ {j} : written[i] = here[i]
<1> DEFINE written == retreat_goal(specs, here, j, pushing, back)
           aim == IF pushing >= 0 THEN here[j] - back ELSE here[j] + back
<1>1. written = [here EXCEPT ![j] = clamp(specs[j], aim)]
  BY DEF retreat_goal
<1>2. written[j] = clamp(specs[j], aim) /\ \A i \in J \ {j} : written[i] = here[i]
  BY <1>1
<1>3. aim \in Int /\ specs[j] \in Joint /\ here[j] \in Int
  OBVIOUS
<1> HIDE DEF written
<1>4. contains(specs[j], written[j])
  BY <1>2, <1>3, ClampIs
<1>5. /\ pushing >= 0 => here[j] - back <= written[j] /\ written[j] <= here[j]
      /\ pushing < 0 => here[j] <= written[j] /\ written[j] <= here[j] + back
  BY <1>2, <1>3 DEF clamp, contains, High, Low, Joint
<1> QED BY <1>2, <1>4, <1>5 DEF written

(* A command that is accepted names only joints there are, with numbers within their       *)
(* limits, and near the arm while its lease is not in step yet, however long it is and      *)
(* whatever else it has in it (CommandValidator.validate).                                  *)
THEOREM AcceptedIsSafe ==
  ASSUME NEW specs, NEW payload, NEW here, NEW fresh \in BOOLEAN, NEW tolerance,
         validate(specs, payload, here, fresh, tolerance) = ""
  PROVE  /\ payload # <<>>
         /\ \A i \in DOMAIN payload :
              /\ payload[i].joint \in DOMAIN specs /\ payload[i].kind = "number"
              /\ contains(specs[payload[i].joint], payload[i].value)
              /\ fresh => Synced(specs[payload[i].joint], payload[i], here, tolerance)
<1> DEFINE Joints(i) == payload[i].joint
           unreadable == {i \in DOMAIN payload : payload[i].kind # "number"}
           far == {i \in DOMAIN payload : ~Synced(specs[Joints(i)], payload[i], here, tolerance)}
<1>1. payload # <<>> /\ \A i \in DOMAIN payload : payload[i].joint \in DOMAIN specs
  BY DEF validate
<1>2. unreadable = {}
  BY <1>1 DEF validate
<1>3. \A i \in DOMAIN payload : contains(specs[payload[i].joint], payload[i].value)
  BY <1>1, <1>2 DEF validate
<1>4. fresh => far = {}
  BY <1>1, <1>2, <1>3 DEF validate
<1> QED BY <1>1, <1>2, <1>3, <1>4

(* The lease, if there is one: {} or its only member (AuthorityManager). *)
Lease(Id) == [id : Id, expires_at : Int, needs_sync : BOOLEAN, last_sequence : Int]
NoneOrOne(Id, given) == given \subseteq Lease(Id) /\ \A l, m \in given : l = m

(* Nobody is granted a lease beside a live one, and a refusal leaves what is live alone     *)
(* (AuthorityManager.grant).                                                                *)
THEOREM GrantIsExclusive ==
  ASSUME NEW Id, NEW given, NoneOrOne(Id, given), NEW id \in Id, NEW now \in Int, NEW ttl \in Nat
  PROVE  LET reply == grant(given, id, now, ttl)
         IN  /\ NoneOrOne(Id, reply.lease)
             /\ reply.refused = "" <=> active(given, now) = {}
             /\ reply.refused # "" => reply.lease = active(given, now)
             /\ reply.refused = "" => \A l \in reply.lease : l.id = id /\ l.needs_sync
<1>1. active(given, now) \subseteq given
  BY DEF active
<1>2. CASE active(given, now) # {}
  BY <1>1, <1>2 DEF grant, NoneOrOne
<1>3. CASE active(given, now) = {}
  <2> DEFINE reply == grant(given, id, now, ttl)
             new == [id |-> id, expires_at |-> now + ttl, needs_sync |-> TRUE, last_sequence |-> -1]
  <2>1. reply = [refused |-> "", lease |-> {new}]
    BY <1>3 DEF grant
  <2>2. new \in Lease(Id) /\ new.id = id /\ new.needs_sync = TRUE
    BY DEF Lease
  <2> HIDE DEF new, reply
  <2>3. reply.refused = "" /\ reply.lease = {new}
    BY <2>1
  <2>4. NoneOrOne(Id, reply.lease)
    BY <2>2, <2>3 DEF NoneOrOne
  <2>5. \A l \in reply.lease : l.id = id /\ l.needs_sync
    BY <2>2, <2>3
  <2> QED BY <1>3, <2>3, <2>4, <2>5 DEF reply
<1> QED BY <1>2, <1>3

(* A command counts only for the holder of a live lease and only with a number above all    *)
(* that counted for it before, so no number counts twice and no old command comes back,     *)
(* for any numbers and times; what is refused changes nothing (AuthorityManager.authorise). *)
THEOREM CommandsCountOnce ==
  ASSUME NEW Id, NEW given, NoneOrOne(Id, given), NEW id \in Id, NEW now \in Int, NEW ttl \in Nat,
         NEW sequence \in [kind : {"number", "other"}, value : Int]
  PROVE  LET reply == authorise(given, id, sequence, now, ttl)
         IN  /\ NoneOrOne(Id, reply.lease)
             /\ reply.refused = "" =>
                  /\ \E l \in given : l.id = id /\ now < l.expires_at /\ l.last_sequence < sequence.value
                  /\ sequence.kind = "number"
                  /\ \A l \in reply.lease : l.id = id /\ l.last_sequence = sequence.value
             /\ reply.refused # "" => reply.lease = active(given, now)
<1> DEFINE live == active(given, now)
           reply == authorise(given, id, sequence, now, ttl)
           after(l) == [id |-> id, expires_at |-> now + ttl, needs_sync |-> l.needs_sync,
                        last_sequence |-> sequence.value]
<1>1. live \subseteq given /\ (\A l \in live : now < l.expires_at) /\ NoneOrOne(Id, live)
  BY DEF active, NoneOrOne
<1>2. CASE \/ live = {}
           \/ \E l \in live : l.id # id
           \/ sequence.kind # "number"
           \/ \E l \in live : sequence.value <= l.last_sequence
  <2>1. reply.refused # "" /\ reply.lease = live
    BY <1>2 DEF authorise, Verdict
  <2> QED BY <1>1, <2>1
<1>3. CASE /\ live # {} /\ \A l \in live : l.id = id
           /\ sequence.kind = "number" /\ \A l \in live : ~(sequence.value <= l.last_sequence)
  <2>1. reply.refused = "" /\ reply.lease = {after(l) : l \in live}
    BY <1>3 DEF authorise, Verdict
  <2>2. PICK l \in live : live = {l}
    BY <1>1, <1>3 DEF NoneOrOne
  <2>3. l \in Lease(Id) /\ l.last_sequence < sequence.value /\ l.id = id /\ l \in given /\ now < l.expires_at
    BY <1>1, <1>3 DEF NoneOrOne, Lease
  <2>4. after(l) \in Lease(Id) /\ after(l).id = id /\ after(l).last_sequence = sequence.value
    BY <2>3 DEF Lease
  <2>5. reply.lease = {after(l)}
    BY <2>1, <2>2
  <2> HIDE DEF live, reply, after
  <2>6. NoneOrOne(Id, reply.lease)
    BY <2>4, <2>5 DEF NoneOrOne
  <2>7. \A m \in reply.lease : m.id = id /\ m.last_sequence = sequence.value
    BY <2>4, <2>5
  <2>8. \E m \in given : m.id = id /\ now < m.expires_at /\ m.last_sequence < sequence.value
    BY <2>3
  <2> QED BY <1>3, <2>1, <2>6, <2>7, <2>8 DEF reply
<1> QED BY <1>2, <1>3

(* Whoever does not hold the lease can neither lengthen nor end it, a renewal of an expired  *)
(* lease is refused, and one that counts changes nothing but the end: not the last number,   *)
(* nor whether the pose is still to be matched (AuthorityManager.renew, release).            *)
THEOREM LeaseStaysWithHolder ==
  ASSUME NEW Id, NEW given, NoneOrOne(Id, given), NEW id \in Id, NEW now \in Int, NEW ttl \in Nat
  PROVE  LET reply == renew(given, id, now, ttl)
         IN  /\ NoneOrOne(Id, reply.lease)
             /\ reply.refused # "" => reply.lease = active(given, now)
             /\ reply.refused = "" =>
                  \E l \in given, m \in reply.lease :
                    /\ l.id = id /\ now < l.expires_at /\ m.id = id /\ m.expires_at = now + ttl
                    /\ m.last_sequence = l.last_sequence /\ m.needs_sync = l.needs_sync
             /\ (\A l \in given : l.id # id) => reply.refused # "" /\ release(given, id) = given
<1> DEFINE live == active(given, now)
           reply == renew(given, id, now, ttl)
           later(l) == [l EXCEPT !.expires_at = now + ttl]
<1>1. live \subseteq given /\ (\A l \in live : now < l.expires_at) /\ NoneOrOne(Id, live)
  BY DEF active, NoneOrOne
<1>2. (\A l \in given : l.id # id) => release(given, id) = given
  BY DEF release
<1>3. CASE live = {} \/ \E l \in live : l.id # id
  <2>1. reply.refused # "" /\ reply.lease = live
    BY <1>3 DEF renew, Verdict
  <2> QED BY <1>1, <1>2, <2>1
<1>4. CASE live # {} /\ \A l \in live : l.id = id
  <2>1. reply.refused = "" /\ reply.lease = {later(l) : l \in live}
    BY <1>4 DEF renew, Verdict
  <2>2. PICK l \in live : live = {l}
    BY <1>1, <1>4 DEF NoneOrOne
  <2>3. l \in Lease(Id) /\ l \in given /\ l.id = id /\ now < l.expires_at
    BY <1>1, <1>4 DEF NoneOrOne
  <2>4. /\ later(l) \in Lease(Id) /\ later(l).id = id /\ later(l).expires_at = now + ttl
        /\ later(l).last_sequence = l.last_sequence /\ later(l).needs_sync = l.needs_sync
    BY <2>3 DEF Lease
  <2>5. reply.lease = {later(l)}
    BY <2>1, <2>2
  <2> HIDE DEF live, reply, later
  <2>6. NoneOrOne(Id, reply.lease)
    BY <2>4, <2>5 DEF NoneOrOne
  <2> QED BY <2>1, <2>3, <2>4, <2>5, <2>6 DEF reply
<1> QED BY <1>3, <1>4

(* What end_stop leaves latched: nothing unless the arm is ACTIVE; a joint newly only if it *)
(* stands at an end it is pushed against; and one that was latched as long as its goal is   *)
(* not turned back from that end by more than the margin twice, at the place where it was   *)
(* latched (_relax_at_end_stops).  So a joint at its end is neither pushed on nor let go    *)
(* and latched by turns, for any joints, readings and margins.                              *)
THEOREM EndStopLatches ==
  ASSUME NEW specs, NEW latched, NEW mode, NEW wanted, NEW here, NEW moved, NEW limit, NEW stall, NEW j
  PROVE  LET next == end_stop(specs, latched, mode, wanted, here, moved, limit, stall)
             frees == j \in DOMAIN wanted /\ ComesFree(specs[j], wanted[j], latched[j], limit)
         IN  /\ mode # "ACTIVE" => DOMAIN next = {}
             /\ mode = "ACTIVE" /\ j \in DOMAIN latched =>
                  (j \in DOMAIN next <=> ~frees) /\ (~frees => next[j] = latched[j])
             /\ j \in DOMAIN next \ DOMAIN latched =>
                  /\ at_end_stop(specs[j], wanted[j], here[j], moved[j], limit, stall)
                  /\ next[j] = here[j] /\ relax_at_end_stops(wanted, next)[j] = here[j]
             /\ j \in DOMAIN wanted \ DOMAIN next => relax_at_end_stops(wanted, next)[j] = wanted[j]
<1> DEFINE kept == {i \in DOMAIN latched : i \in DOMAIN wanted => ~ComesFree(specs[i], wanted[i], latched[i], limit)}
           new == {i \in (DOMAIN wanted \cap DOMAIN moved) \ DOMAIN latched :
                     at_end_stop(specs[i], wanted[i], here[i], moved[i], limit, stall)}
           next == end_stop(specs, latched, mode, wanted, here, moved, limit, stall)
<1>1. CASE mode # "ACTIVE"
  <2>1. next = [i \in {} |-> 0]
    BY <1>1 DEF end_stop
  <2>2. DOMAIN next = {}
    BY <2>1
  <2> HIDE DEF next
  <2> QED BY <1>1, <2>2 DEF relax_at_end_stops, next
<1>2. CASE mode = "ACTIVE"
  <2>1. next = [i \in kept \cup new |-> IF i \in kept THEN latched[i] ELSE here[i]]
    BY <1>2 DEF end_stop
  <2>2. DOMAIN next = kept \cup new
    BY <2>1
  <2>3. \A i \in DOMAIN next : next[i] = IF i \in kept THEN latched[i] ELSE here[i]
    BY <2>1, <2>2
  <2> HIDE DEF next
  <2>4. \A i \in DOMAIN wanted : relax_at_end_stops(wanted, next)[i] = IF i \in DOMAIN next THEN next[i] ELSE wanted[i]
    BY DEF relax_at_end_stops
  <2>5. j \in DOMAIN latched =>
          LET frees == j \in DOMAIN wanted /\ ComesFree(specs[j], wanted[j], latched[j], limit)
          IN  (j \in DOMAIN next <=> ~frees) /\ (~frees => next[j] = latched[j])
    BY <2>2, <2>3
  <2>6. j \in DOMAIN next \ DOMAIN latched =>
          /\ j \in DOMAIN wanted /\ next[j] = here[j]
          /\ at_end_stop(specs[j], wanted[j], here[j], moved[j], limit, stall)
    BY <2>2, <2>3
  <2> QED BY <1>2, <2>4, <2>5, <2>6 DEF next
<1> QED BY <1>1, <1>2

(* A joint that is latched stands within the margin of the end its goal is beyond, and did  *)
(* not move: where its goal is held is where it is (CommandValidator.at_end_stop).          *)
LEMMA LatchedAtAnEnd ==
  ASSUME NEW spec \in Joint, NEW wanted \in Int, NEW here \in Int, NEW moved \in Int,
         NEW limit \in Nat, NEW stall \in Int, at_end_stop(spec, wanted, here, moved, limit, stall)
  PROVE  /\ moved < stall /\ wanted # here
         /\ wanted < here => here <= spec.minimum + limit
         /\ here < wanted => spec.maximum - limit <= here
         /\ 2 * limit < spec.maximum - spec.minimum => ~ComesFree(spec, wanted, here, limit)
BY DEF at_end_stop, ComesFree, Gap, Joint

(* The first number of a set, and the first check in the order of inspect. *)
LEMMA LeastNatural ==
  ASSUME NEW T \in SUBSET Nat, T # {}
  PROVE  \E x \in T : \A y \in T : x <= y
<1>1. IsWellFoundedOn(OpToRel(<, Nat), Nat)
  BY NatLessThanWellFounded
<1>2. PICK x \in T : \A y \in T : ~(<<y, x>> \in OpToRel(<, Nat))
  BY <1>1, WFMin
<1>3. \A y \in T : ~(y < x)
  BY <1>2 DEF OpToRel
<1> QED BY <1>3

LEMMA FirstCheck ==
  ASSUME NEW S \in SUBSET (Nat \X Nat), S # {}
  PROVE  \E k \in S : \A o \in S : o = k \/ Before(k, o)
<1>1. PICK c \in {k[1] : k \in S} : \A d \in {k[1] : k \in S} : c <= d
  <2>1. {k[1] : k \in S} \in SUBSET Nat /\ {k[1] : k \in S} # {}
    OBVIOUS
  <2> QED BY <2>1, LeastNatural
<1> DEFINE same == {k \in S : k[1] = c}
<1>2. PICK j \in {k[2] : k \in same} : \A i \in {k[2] : k \in same} : j <= i
  <2>1. {k[2] : k \in same} \in SUBSET Nat /\ {k[2] : k \in same} # {}
    BY <1>1
  <2> QED BY <2>1, LeastNatural
<1>3. PICK k \in S : k[1] = c /\ k[2] = j
  BY <1>2
<1>4. ASSUME NEW o \in S, o # k PROVE Before(k, o)
  <2>1. o = <<o[1], o[2]>> /\ k = <<k[1], k[2]>> /\ o[1] \in Nat /\ o[2] \in Nat /\ k[1] \in Nat /\ k[2] \in Nat
    OBVIOUS
  <2>2. c <= o[1]
    BY <1>1
  <2>3. o[1] = c => j <= o[2]
    BY <1>2
  <2> QED BY <1>3, <1>4, <2>1, <2>2, <2>3 DEF Before
<1> QED BY <1>4

(* What an inspection leaves of the clocks: if nothing trips, exactly the conditions that   *)
(* hold are running, each since it began, and those that could not be looked at go on as     *)
(* they were; and what trips holds in this very reading and was running before it, if its    *)
(* window is not 0.  One wild reading of any kind therefore never stops the arm              *)
(* (TripDetector.inspect, _sustained).                                                       *)
THEOREM TripsAreSustained ==
  ASSUME NEW since, NEW specs, DOMAIN specs \subseteq Nat, NEW sample, NEW settings, NEW now \in Int
  PROVE  LET checks == Checks(specs, settings.current_trip)
             next == inspect(since, specs, sample, settings, now)
         IN  /\ \A k \in next.trip :
                  /\ k \in checks /\ ~Skipped(k, sample) /\ Breached(k, specs, sample, settings)
                  /\ Window(k, settings) \in Nat \ {0} =>
                       k \in DOMAIN since /\ now - since[k] >= Window(k, settings)
             /\ next.trip = {} =>
                  /\ \A k \in checks :
                       ~Skipped(k, sample) => (k \in DOMAIN next.since <=> Breached(k, specs, sample, settings))
                  /\ \A k \in DOMAIN next.since :
                       next.since[k] = IF k \in DOMAIN since THEN since[k] ELSE now
                  /\ \A k \in DOMAIN since :
                       k \notin checks \/ Skipped(k, sample) => k \in DOMAIN next.since
<1> DEFINE checks == Checks(specs, settings.current_trip)
           looked == {k \in checks : ~Skipped(k, sample)}
           Holds(k) == Breached(k, specs, sample, settings)
           began == [k \in (DOMAIN since \ looked) \cup {k \in looked : Holds(k)} |->
                       IF k \in DOMAIN since THEN since[k] ELSE now]
           lasting == {k \in looked : Holds(k) /\ Sustained(began, k, Window(k, settings), now)}
           trip == CHOOSE k \in lasting : \A o \in lasting : o = k \/ Before(k, o)
           Seen(k) == lasting = {} \/ k = trip \/ Before(k, trip)
           left == [k \in {x \in DOMAIN since : ~Seen(x)} \cup {x \in DOMAIN began : Seen(x)} |->
                      IF Seen(k) THEN began[k] ELSE since[k]]
           next == inspect(since, specs, sample, settings, now)
<1>1. next = [trip |-> IF lasting = {} THEN {} ELSE {trip}, since |-> left]
  BY Zenon DEF inspect
<1>2. DOMAIN began = (DOMAIN since \ looked) \cup {k \in looked : Holds(k)}
      /\ \A k \in DOMAIN began : began[k] = IF k \in DOMAIN since THEN since[k] ELSE now
  OBVIOUS
<1>3. lasting # {} => trip \in lasting
  <2>1. lasting \subseteq Nat \X Nat
    BY DEF Checks, Codes
  <2> QED BY <2>1, FirstCheck
<1>4. next.trip = (IF lasting = {} THEN {} ELSE {trip}) /\ next.since = left
  BY <1>1
<1>5. \A k \in lasting : /\ k \in checks /\ ~Skipped(k, sample) /\ Holds(k)
                         /\ k \in DOMAIN began /\ now - began[k] >= Window(k, settings)
  BY DEF Sustained
<1>6. lasting = {} => left = [k \in DOMAIN began |-> began[k]]
  OBVIOUS
<1>7. lasting = {} => DOMAIN left = DOMAIN began /\ \A k \in DOMAIN left : left[k] = began[k]
  BY <1>6
<1> HIDE DEF began, lasting, trip, left, next
<1>8. ASSUME NEW k \in next.trip
      PROVE  /\ k \in checks /\ ~Skipped(k, sample) /\ Holds(k)
             /\ Window(k, settings) \in Nat \ {0} =>
                  k \in DOMAIN since /\ now - since[k] >= Window(k, settings)
  <2>1. k \in lasting
    BY <1>3, <1>4, <1>8
  <2>2. k \in checks /\ ~Skipped(k, sample) /\ Holds(k) /\ now - began[k] >= Window(k, settings)
        /\ began[k] = IF k \in DOMAIN since THEN since[k] ELSE now
    BY <1>2, <1>5, <2>1
  <2>3. k \notin DOMAIN since => ~(Window(k, settings) \in Nat \ {0})
    BY <2>2
  <2> QED BY <2>2, <2>3
<1>9. ASSUME next.trip = {}
      PROVE  next.since = left /\ DOMAIN left = DOMAIN began /\ \A k \in DOMAIN left : left[k] = began[k]
  BY <1>4, <1>7, <1>9
<1>10. ASSUME next.trip = {}
       PROVE  /\ \A k \in checks : ~Skipped(k, sample) => (k \in DOMAIN next.since <=> Holds(k))
              /\ \A k \in DOMAIN next.since : next.since[k] = IF k \in DOMAIN since THEN since[k] ELSE now
              /\ \A k \in DOMAIN since : k \notin checks \/ Skipped(k, sample) => k \in DOMAIN next.since
  BY <1>2, <1>9, <1>10
<1> QED BY <1>8, <1>10 DEF next

(* A condition that has lasted its window and is seen again stops the arm in that very tick, *)
(* whichever other conditions hold (TripDetector.inspect): with what TripsAreSustained says  *)
(* of the clocks, a blocked or an overheated joint is not missed.                            *)
THEOREM LastingTrips ==
  ASSUME NEW since, NEW specs, NEW sample, NEW settings, NEW now \in Int,
         NEW k \in Checks(specs, settings.current_trip), ~Skipped(k, sample),
         Breached(k, specs, sample, settings), k \in DOMAIN since, now - since[k] >= Window(k, settings)
  PROVE  inspect(since, specs, sample, settings, now).trip # {}
<1> DEFINE looked == {o \in Checks(specs, settings.current_trip) : ~Skipped(o, sample)}
           Holds(o) == Breached(o, specs, sample, settings)
           began == [o \in (DOMAIN since \ looked) \cup {o \in looked : Holds(o)} |->
                       IF o \in DOMAIN since THEN since[o] ELSE now]
           lasting == {o \in looked : Holds(o) /\ Sustained(began, o, Window(o, settings), now)}
           trip == CHOOSE x \in lasting : \A o \in lasting : o = x \/ Before(x, o)
<1>1. k \in lasting
  BY DEF Sustained
<1>2. inspect(since, specs, sample, settings, now).trip = IF lasting = {} THEN {} ELSE {trip}
  BY DEF inspect
<1> HIDE DEF lasting, trip
<1> QED BY <1>1, <1>2

(* A warning is of a joint that is warm and was before, for the whole window, and is given   *)
(* as soon as it was; a joint that is cold again starts anew (TripDetector.warnings).        *)
THEOREM WarningsLast ==
  ASSUME NEW since, NEW specs, NEW temperature, NEW settings, NEW now \in Int,
         settings.temperature_trip_ms \in Nat \ {0}, NEW j \in DOMAIN temperature, j \in DOMAIN specs
  PROVE  LET next == warnings(since, specs, temperature, settings, now)
             warm == temperature[j] >= settings.temperature_warn_c
         IN  /\ j \in next.lines <=>
                  warm /\ j \in DOMAIN since /\ now - since[j] >= settings.temperature_trip_ms
             /\ j \in DOMAIN next.since <=> warm
             /\ warm => next.since[j] = IF j \in DOMAIN since THEN since[j] ELSE now
<1> DEFINE warm == {i \in DOMAIN temperature \cap DOMAIN specs : temperature[i] >= settings.temperature_warn_c}
           cold == (DOMAIN temperature \cap DOMAIN specs) \ warm
           began == [i \in (DOMAIN since \ cold) \cup warm |-> IF i \in DOMAIN since THEN since[i] ELSE now]
           next == warnings(since, specs, temperature, settings, now)
<1>1. next.since = began /\ next.lines = {i \in warm : Sustained(began, i, settings.temperature_trip_ms, now)}
  BY DEF warnings
<1>2. j \in DOMAIN began <=> j \in warm
  OBVIOUS
<1>3. j \in warm => began[j] = IF j \in DOMAIN since THEN since[j] ELSE now
  OBVIOUS
<1> HIDE DEF began, next
<1> QED BY <1>1, <1>2, <1>3 DEF Sustained, next

----------------------------------------------------------------------------
(* The feel (Tuning): the names that a profile sets, and the file as POST /policy leaves it. *)
Profiled == DOMAIN PROFILES["gentle"]
Kept(file) == DOMAIN file.lines \subseteq DOMAIN TUNABLES /\ file.profile \subseteq DOMAIN PROFILES

(* All profiles set the same names, and what is tuned by name is a setting (safety.PROFILES, api.TUNABLES). *)
LEMMA NamesFit ==
  /\ DOMAIN TUNABLES \subseteq Setting /\ Profiled \subseteq Setting
  /\ \A name \in DOMAIN PROFILES : DOMAIN PROFILES[name] = Profiled
<1>1. DOMAIN PROFILES = {"gentle", "normal", "quick"}
  BY DEF PROFILES
<1>2. Setting = {"max_deg_per_s", "max_percent_per_s", "lead_deg", "lead_percent", "sync_tolerance_deg",
                 "following_error_deg", "following_error_percent", "following_error_ms", "stall_load",
                 "stall_load_ms", "load_trip", "retreat_deg", "command_hold_ms"}
  BY DEF Setting, Default
<1>3. DOMAIN TUNABLES = Setting \ {"following_error_percent"}
  BY <1>2 DEF TUNABLES
<1>4. \A name \in DOMAIN PROFILES :
        DOMAIN PROFILES[name] = Setting \ {"sync_tolerance_deg", "retreat_deg", "command_hold_ms"}
  BY <1>1, <1>2 DEF PROFILES
<1> QED BY <1>1, <1>3, <1>4 DEF Profiled

(* What the next start reads, setting by setting: the line, else the profile, else the default (load_settings). *)
LEMMA LoadIs ==
  ASSUME NEW file, Kept(file)
  PROVE  load_settings(file) =
           [key \in Setting |->
              IF key \in DOMAIN file.lines THEN file.lines[key]
              ELSE IF file.profile # {} /\ key \in Profiled
                   THEN PROFILES[CHOOSE name \in file.profile : TRUE][key] ELSE Default[key]]
<1> DEFINE name == CHOOSE n \in file.profile : TRUE
           base == Over(Default, Restrict(file.lines, DOMAIN file.lines \cap Setting))
<1>1. base = [key \in Setting |-> IF key \in DOMAIN file.lines THEN file.lines[key] ELSE Default[key]]
  BY DEF Over, Restrict, Setting
<1>2. CASE file.profile = {}
  BY <1>1, <1>2, Zenon DEF load_settings
<1>3. CASE file.profile # {}
  <2>1. name \in DOMAIN PROFILES /\ DOMAIN PROFILES[name] = Profiled /\ Profiled \subseteq Setting
    BY <1>3, NamesFit DEF Kept
  <2>2. load_settings(file) = Over(base, Restrict(PROFILES[name], DOMAIN PROFILES[name] \ DOMAIN file.lines))
    BY <1>3, Zenon DEF load_settings, Kept
  <2> HIDE DEF base, name
  <2> QED BY <1>1, <1>3, <2>1, <2>2 DEF Over, Restrict, name
<1> QED BY <1>2, <1>3

(* What is tuned survives a restart, after any number of changes, each by a profile or by    *)
(* values: if the next start would read what is in force, it does so after one more change.  *)
(* A change that has both is excepted; LadderChecks shows what is lost then                  *)
(* (build_router.write_policy, _persist_tunables, load_settings).                            *)
THEOREM TuningSurvives ==
  ASSUME NEW file, Kept(file), NEW body, NEW mode, Accepted(body, mode),
         body.profile = {} \/ DOMAIN body.values = {}
  PROVE  LET written == write_policy(load_settings(file), file, body)
         IN  Kept(written.file) /\ load_settings(written.file) = written.policy
<1> DEFINE policy == load_settings(file)
           applied == Applied(body)
           tuned == retune(policy, applied)
           after == persist_tunables(file, applied, profile_of(tuned))
           pick == CHOOSE name \in after.profile : TRUE
<1>1. DOMAIN policy = Setting
  BY LoadIs
<1>2. DOMAIN body.values \subseteq DOMAIN TUNABLES /\ body.profile \subseteq DOMAIN PROFILES
  BY DEF Accepted, Tunable
<1>3. \/ body.profile = {} /\ applied = body.values
      \/ /\ body.profile # {} /\ DOMAIN body.values = {}
         /\ \E name \in DOMAIN PROFILES :
              DOMAIN applied = Profiled /\ \A key \in Profiled : applied[key] = PROFILES[name][key]
  <2>1. CASE body.profile = {}
    BY <2>1 DEF Applied
  <2>2. CASE body.profile # {}
    <3> DEFINE name == CHOOSE n \in body.profile : TRUE
    <3>1. name \in DOMAIN PROFILES /\ applied = Over(PROFILES[name], body.values)
      BY <1>2, <2>2 DEF Applied
    <3> HIDE DEF name, applied
    <3>2. DOMAIN applied = Profiled /\ \A key \in Profiled : applied[key] = PROFILES[name][key]
      BY <2>2, <3>1, NamesFit DEF Over
    <3> QED BY <2>2, <3>1, <3>2
  <2> QED BY <2>1, <2>2
<1>4. DOMAIN applied \subseteq Setting
  BY <1>2, <1>3, NamesFit
<1> HIDE DEF applied, policy
<1>5. DOMAIN tuned = Setting /\ \A key \in Setting : tuned[key] = IF key \in DOMAIN applied THEN applied[key] ELSE policy[key]
  BY <1>1, <1>4 DEF retune, Over
<1>6. /\ DOMAIN after.lines = DOMAIN file.lines \cup (DOMAIN applied \cap DOMAIN TUNABLES)
      /\ \A key \in DOMAIN after.lines : after.lines[key] = IF key \in DOMAIN applied /\ key \in DOMAIN TUNABLES THEN applied[key] ELSE file.lines[key]
  BY DEF persist_tunables, Over, Restrict
<1>7. after.profile = IF profile_of(tuned) = {} THEN file.profile ELSE profile_of(tuned)
  BY DEF persist_tunables
<1>8. \A name \in profile_of(tuned) : name \in DOMAIN PROFILES /\ \A key \in Profiled : tuned[key] = PROFILES[name][key]
  BY NamesFit DEF profile_of, Is
<1>9. DOMAIN body.values = {} /\ body.profile # {} => profile_of(tuned) # {}
  BY <1>3, <1>5, NamesFit DEF profile_of, Is
<1> HIDE DEF tuned, after
<1>10. Kept(after)
  BY <1>6, <1>7, <1>8 DEF Kept
<1>11. \A key \in Setting : policy[key] =
          IF key \in DOMAIN file.lines THEN file.lines[key]
          ELSE IF file.profile # {} /\ key \in Profiled
               THEN PROFILES[CHOOSE name \in file.profile : TRUE][key] ELSE Default[key]
  BY LoadIs DEF policy
<1>12. ASSUME NEW key \in Setting
       PROVE  tuned[key] = IF key \in DOMAIN after.lines THEN after.lines[key]
                           ELSE IF after.profile # {} /\ key \in Profiled THEN PROFILES[pick][key] ELSE Default[key]
  <2>1. CASE key \in DOMAIN applied /\ key \in DOMAIN TUNABLES
    BY <2>1, <1>5, <1>6
  <2>2. CASE key \in DOMAIN after.lines /\ ~(key \in DOMAIN applied /\ key \in DOMAIN TUNABLES)
    <3>1. key \in DOMAIN file.lines /\ key \in DOMAIN TUNABLES
      BY <2>2, <1>6 DEF Kept
    <3>2. key \notin DOMAIN applied /\ after.lines[key] = file.lines[key]
      BY <2>2, <3>1, <1>6
    <3> QED BY <2>2, <3>1, <3>2, <1>5, <1>11
  <2>3. CASE key \notin DOMAIN after.lines
    <3>1. key \notin DOMAIN file.lines
      BY <2>3, <1>6
    <3>2. CASE profile_of(tuned) # {}
      <4>1. after.profile = profile_of(tuned) /\ pick \in profile_of(tuned)
        BY <3>2, <1>7
      <4>2. CASE key \in Profiled
        BY <2>3, <3>2, <4>1, <4>2, <1>8
      <4>3. CASE key \notin Profiled
        <5>1. key \notin DOMAIN applied
          BY <2>3, <4>3, <1>2, <1>3, <1>6
        <5> QED BY <2>3, <3>1, <4>3, <5>1, <1>5, <1>11
      <4> QED BY <4>2, <4>3
    <3>3. CASE profile_of(tuned) = {}
      <4>1. applied = body.values
        BY <3>3, <1>3, <1>9
      <4>2. key \notin DOMAIN applied
        BY <2>3, <4>1, <1>2, <1>6
      <4>3. after.profile = file.profile
        BY <3>3, <1>7
      <4> QED BY <2>3, <3>1, <4>2, <4>3, <1>5, <1>11
    <3> QED BY <3>2, <3>3
  <2> QED BY <2>1, <2>2, <2>3, <1>6
<1>13. load_settings(after) = tuned
  <2>1. load_settings(after) =
           [key \in Setting |->
              IF key \in DOMAIN after.lines THEN after.lines[key]
              ELSE IF after.profile # {} /\ key \in Profiled THEN PROFILES[pick][key] ELSE Default[key]]
    BY <1>10, LoadIs, Zenon
  <2>2. tuned = [key \in Setting |-> tuned[key]]
    BY <1>5 DEF tuned, retune, Over
  <2> QED BY <2>1, <2>2, <1>12, Zenon
<1>14. write_policy(policy, file, body) = [policy |-> tuned, file |-> after]
  BY Zenon DEF write_policy, tuned, after, applied
<1> QED BY <1>10, <1>13, <1>14 DEF policy
============================================================================
