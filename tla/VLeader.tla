------------------------------ MODULE VLeader ------------------------------
(* The virtual leader (src/soarm_console/vleader): the control loop that   *)
(* owns the follower (owner.py) and the leases of the people who move it   *)
(* (authority.py), as the HTTP and WebSocket handlers call them (api.py).  *)
(*                                                                         *)
(* The arm is one joint with poses 0..Top; a servo and a limp arm move by  *)
(* at most one pose in a tick, and one pose is also the lead and the sync  *)
(* tolerance.  A limp arm moves only in ticks that read it.  Whether it is *)
(* limp is the motors' torque (stiff); what the backend last succeeded to  *)
(* set (torque) is all the code knows of it.  A command                    *)
(* that is refused and a heartbeat change nothing but the time at which    *)
(* the lease expires, and a lease may expire at any time here.  Relay mode *)
(* (no bus), speed limits, end stops and the telemetry are left out.       *)
EXTENDS Integers

CONSTANTS
  Operator,    \* the people, or their screens, that ask for the lease
  None,        \* no pose, no fault, no holder
  Top,         \* the last pose
  RetreatTicks \* retreat_ms, in ticks of the loop

ASSUME TopAssumption == Top \in Nat \ {0}
ASSUME RetreatAssumption == RetreatTicks \in Nat \ {0}

Pose   == 0 .. Top
Reason == {"TRIP", "OPERATOR_HOLD", "OPERATOR_GONE", "HARDWARE_ERROR"}

ASSUME NoneAssumption == None \notin Operator /\ None \notin Pose /\ None \notin Reason

VARIABLES
  state,     \* VirtualLeaderOwner._state
  fault,     \* the code of _fault
  present,   \* _present, the pose last read
  goal,      \* _goal, up to a retreat or a fault: what is left of it then is
             \* replaced before anything reads it again
  hold_goal, \* _hold_goal
  pending,   \* _pending_torque: "none", "on", "off"
  age,       \* of the last command, while ACTIVE: "fresh", "late" (command_timeout_ms),
             \* "gone" (command_hold_ms)
  pc,        \* where the loop is; "off" means that there is no loop or backend
  target,    \* the loop's write, while it is off the lock
  retreat,   \* the loop's retreat_target, while RETREATING
  ticks,     \* since retreat_started_at, while RETREATING
  holder,    \* whose lease AuthorityManager has, if any
  unsynced,  \* its needs_sync
  asked,     \* a POST /lease has found the loop running and out of SAFE, and goes on
  call,      \* the last parts of api.grant and api.release
  pose,      \* the arm itself
  torque,    \* RealFollower._torque, what was last set with success
  stiff      \* the torque of the motors

owner  == <<state, fault, present, goal, hold_goal, pending, age>>
loop   == <<pc, target, retreat, ticks>>
lease  == <<holder, unsynced>>
arm    == <<pose, torque, stiff>>
calls  == <<asked, call>>
vars   == <<owner, loop, lease, calls, arm>>

Stopped == {"HOLD", "RETREATING", "FAULT"}

TypeOK ==
  /\ state \in {"STOPPED", "SAFE", "READY", "ACTIVE"} \cup Stopped
  /\ fault \in Reason \cup {None}
  /\ present \in Pose \cup {None} /\ goal \in Pose \cup {None}
  /\ hold_goal \in Pose \cup {None}
  /\ target \in Pose \cup {None} /\ retreat \in Pose \cup {None}
  /\ pending \in {"none", "on", "off"}
  /\ age \in {"fresh", "late", "gone"}
  /\ {unsynced, asked, torque, stiff} \subseteq BOOLEAN
  /\ pc \in {"off", "top", "arming", "armed", "releasing", "released",
             "read", "write", "ended"}
  /\ ticks \in 0 .. RetreatTicks
  /\ holder \in Operator \cup {None}
  /\ call \in [Operator -> {"idle", "look", "resume", "hold"}]
  /\ pose \in Pose

Init ==
  /\ state = "STOPPED" /\ fault = None
  /\ present = None /\ goal = None /\ hold_goal = None
  /\ pending = "none" /\ age = "fresh"
  /\ pc = "off" /\ target = None /\ retreat = None /\ ticks = 0
  /\ holder = None /\ unsynced = FALSE
  /\ asked = FALSE /\ call = [o \in Operator |-> "idle"]
  /\ pose \in Pose /\ torque \in BOOLEAN /\ stiff = torque

-----------------------------------------------------------------------------
Near(p, q) == p <= q + 1 /\ q <= p + 1

Running == pc \notin {"off", "ended"}

Torque(t) == IF t THEN "READY" ELSE "SAFE"

(* AuthorityManager.require_resync. *)
RequireResync == unsynced' = (holder # None) /\ UNCHANGED holder

(* AuthorityManager.release_all. *)
ReleaseAll == holder' = None /\ unsynced' = FALSE

(* mutant: _enter_hold leaves the old hold goal *)
EnterHoldElsewhere(code, p) ==
  /\ state' = "HOLD" /\ fault' = code
  /\ goal' = p /\ age' = "fresh" /\ UNCHANGED hold_goal
  /\ retreat' = None /\ ticks' = 0
  /\ RequireResync

(* _enter_hold, at the pose p. *)
EnterHold(code, p) ==
  /\ state' = "HOLD" /\ fault' = code
  /\ hold_goal' = p /\ goal' = p /\ age' = "fresh"
  /\ retreat' = None /\ ticks' = 0
  /\ RequireResync

(* mutant: the lease stays synchronised *)
EnterFaultSynced ==
  /\ state' = "FAULT" /\ fault' = "HARDWARE_ERROR" /\ age' = "fresh" /\ goal' = None
  /\ retreat' = None /\ ticks' = 0
  /\ UNCHANGED lease

(* What the loop does with an exception of the backend. *)
EnterFault ==
  /\ state' = "FAULT" /\ fault' = "HARDWARE_ERROR" /\ age' = "fresh" /\ goal' = None
  /\ retreat' = None /\ ticks' = 0
  /\ RequireResync

(* A new VirtualLeaderOwner, or one that nothing reads any more. *)
Forgotten == present' = None /\ goal' = None /\ hold_goal' = None /\ pending' = "none"

-----------------------------------------------------------------------------
(* An owner whose loop has died is stopped before another starts. *)
ClearsDead == IF state = "STOPPED" THEN UNCHANGED lease ELSE ReleaseAll

(* VirtualLeader.start, over a stopped owner or one whose loop has died.   *)
(* An arm that was left with its torque on is taken over as it is; one     *)
(* that does not tell counts as on, and configure() turns it on.           *)
Start ==
  /\ pc = "off" /\ pc' = "top"
  /\ torque' \in {stiff, TRUE} /\ stiff' = torque'
  /\ state' = Torque(torque') /\ fault' = None
  /\ Forgotten /\ ClearsDead
  /\ UNCHANGED <<age, target, retreat, ticks, calls, pose>>

(* A start that fails, perhaps between configure() and turning it off again. *)
StartFails ==
  /\ pc = "off" /\ state' = "STOPPED" /\ fault' = None
  /\ stiff' \in {stiff, TRUE}
  /\ Forgotten /\ ClearsDead
  /\ UNCHANGED <<age, loop, calls, pose, torque>>

(* stop(), with force or with the torque off, asks the loop to end, which  *)
(* changes nothing before the loop sees it (LoopEnd); then it cleans up.   *)
StopFinish ==
  /\ pc = "ended" \/ (pc = "off" /\ state # "STOPPED")
  /\ pc' = "off"
  /\ state' = "STOPPED" /\ fault' = None /\ age' = "fresh"
  /\ retreat' = None /\ ticks' = 0
  /\ Forgotten /\ ReleaseAll
  /\ UNCHANGED <<target, calls, arm>>

-----------------------------------------------------------------------------
(* arm() and release_torque() leave a request to the loop; what they wait  *)
(* for afterwards changes nothing.                                         *)
Arm ==
  /\ Running /\ state # "FAULT"
  /\ pending' = "on"
  /\ UNCHANGED <<state, fault, present, goal, hold_goal, age, loop, lease, calls, arm>>

ReleaseTorque ==
  /\ Running
  /\ pending' = "off" /\ ReleaseAll
  /\ UNCHANGED <<state, fault, present, goal, hold_goal, age, loop, calls, arm>>

(* submit(): a command of o that is accepted.  An old or repeated sequence *)
(* number is refused, so every command here is a new one.                  *)
Submit(o, p) ==
  /\ holder = o
  /\ state \notin Stopped
  /\ pc # "off" /\ torque
  /\ present # None
  /\ unsynced => Near(p, present)
  /\ goal' = p /\ age' = "fresh" /\ state' = "ACTIVE" /\ unsynced' = FALSE
  /\ UNCHANGED <<fault, present, hold_goal, pending, loop, holder, calls, arm>>

(* hold(): the first reason stays. *)
HoldFor(code) ==
  IF state = "STOPPED" \/ (state \in {"HOLD", "FAULT"} /\ fault # None)
  THEN UNCHANGED <<state, fault, goal, hold_goal, age, retreat, ticks, lease>>
  ELSE EnterHold(code, present)

Hold ==
  /\ Running
  /\ HoldFor("OPERATOR_HOLD")
  /\ UNCHANGED <<present, pending, pc, target, calls, arm>>

(* mutant: READY without looking at the torque *)
ResumedReady ==
  IF state \in {"HOLD", "FAULT"}
  THEN /\ fault' = None
       /\ goal' = present /\ hold_goal' = present
       /\ RequireResync
       /\ state' = "READY"
  ELSE UNCHANGED <<state, fault, goal, hold_goal, lease>>

(* resume() *)
Resumed ==
  IF state \in {"HOLD", "FAULT"}
  THEN /\ fault' = None
       /\ goal' = present /\ hold_goal' = present
       /\ RequireResync
       /\ state' = Torque(torque /\ pc # "off")
  ELSE UNCHANGED <<state, fault, goal, hold_goal, lease>>

Resume ==
  /\ Running /\ Resumed
  /\ UNCHANGED <<present, pending, age, loop, calls, arm>>

-----------------------------------------------------------------------------
(* POST /lease: a look at the owner's state; then the lease, which has a   *)
(* lock of its own, however late; then a look at why the arm is held, and  *)
(* then a resume if it was because the last operator went away.  The       *)
(* requests that wait between the first two are not counted, and one that  *)
(* finds the lease taken changes nothing.                                  *)
GrantAsk ==
  /\ Running /\ state \notin {"STOPPED", "SAFE"}
  /\ asked' = TRUE
  /\ UNCHANGED <<owner, loop, lease, call, arm>>

Grant(o) ==
  /\ asked /\ call[o] = "idle" /\ holder = None
  /\ holder' = o /\ unsynced' = TRUE
  /\ call' = [call EXCEPT ![o] = "look"]
  /\ UNCHANGED <<owner, loop, asked, arm>>

GrantLook(o) ==
  /\ call[o] = "look"
  /\ call' = [call EXCEPT ![o] =
       IF state = "HOLD" /\ fault = "OPERATOR_GONE" THEN "resume" ELSE "idle"]
  /\ UNCHANGED <<owner, loop, lease, asked, arm>>

GrantResume(o) ==
  /\ call[o] = "resume" /\ Resumed
  /\ call' = [call EXCEPT ![o] = "idle"]
  /\ UNCHANGED <<present, pending, age, loop, asked, arm>>

(* DELETE /lease/{id}: the lease, then hold(LEASE_RELEASED). *)
Release(o) ==
  /\ call[o] = "idle" /\ holder = o
  /\ ReleaseAll
  /\ call' = [call EXCEPT ![o] = "hold"]
  /\ UNCHANGED <<owner, loop, asked, arm>>

ReleaseHold(o) ==
  /\ call[o] = "hold" /\ HoldFor("OPERATOR_GONE")
  /\ call' = [call EXCEPT ![o] = "idle"]
  /\ UNCHANGED <<present, pending, pc, target, asked, arm>>

(* Time: a lease that is not renewed expires, a last command gets old. *)
Expire ==
  /\ holder # None /\ ReleaseAll
  /\ UNCHANGED <<owner, loop, calls, arm>>

Age ==
  /\ state = "ACTIVE" /\ age # "gone"
  /\ age' = IF age = "fresh" THEN "late" ELSE "gone"
  /\ UNCHANGED <<state, fault, present, goal, hold_goal, pending, loop, lease, calls, arm>>

-----------------------------------------------------------------------------
(* The control loop.  A tick takes the torque request, reads the arm and   *)
(* decides under the lock, and writes off the lock.                        *)
LoopEnd ==                              \* a stop() has asked for it
  /\ pc = "top" /\ pc' = "ended"
  /\ UNCHANGED <<owner, target, retreat, ticks, lease, calls, arm>>

LoopTake ==
  /\ pc = "top"
  /\ pc' = CASE pending = "on" -> "arming" [] pending = "off" -> "releasing"
              [] OTHER -> "read"
  /\ pending' = "none"
  /\ UNCHANGED <<state, fault, present, goal, hold_goal, age,
                 target, retreat, ticks, lease, calls, arm>>

(* set_torque on the bus, off the lock *)
LoopSetTorque ==
  /\ \/ pc = "arming" /\ torque' = TRUE /\ pc' = "armed"
     \/ pc = "releasing" /\ torque' = FALSE /\ pc' = "released"
  /\ stiff' = torque'
  /\ UNCHANGED <<owner, target, retreat, ticks, lease, calls, pose>>

(* It raises after the motors did not take the write, or did. *)
LoopTorqueFails ==
  /\ pc \in {"arming", "releasing"} /\ pc' = "read"
  /\ stiff' \in {stiff, pc = "arming"}
  /\ EnterFault
  /\ UNCHANGED <<present, hold_goal, pending, target, calls, pose, torque>>

LoopArmed ==
  /\ pc = "armed" /\ pc' = "read"
  /\ hold_goal' = present /\ goal' = present
  /\ state' = "READY" /\ fault' = None /\ age' = "fresh"
  /\ retreat' = None /\ ticks' = 0
  /\ UNCHANGED <<present, pending, target, lease, calls, arm>>

LoopReleased ==
  /\ pc = "released" /\ pc' = "read"
  /\ hold_goal' = None /\ goal' = None /\ state' = "SAFE" /\ age' = "fresh"
  /\ retreat' = None /\ ticks' = 0
  /\ UNCHANGED <<fault, present, pending, target, lease, calls, arm>>

LoopReadFails ==
  /\ pc = "read" /\ pc' = "top"
  /\ EnterFault
  /\ UNCHANGED <<present, hold_goal, pending, target, calls, arm>>

(* An exception that no step catches ends the loop, which lets the device  *)
(* and the lease go by itself (_run).                                      *)
LoopDies ==
  /\ pc = "read" /\ pc' = "off"
  /\ state' = "FAULT" /\ fault' = "HARDWARE_ERROR" /\ age' = "fresh"
  /\ retreat' = None /\ ticks' = 0
  /\ Forgotten /\ ReleaseAll
  /\ UNCHANGED <<target, calls, arm>>

-----------------------------------------------------------------------------
(* A read that succeeds, and the decision on it.  Write(p) hands p to the  *)
(* write that follows; with the torque off there is none.                  *)
Read ==
  /\ pc = "read"
  /\ pose' \in IF stiff THEN {pose} ELSE {p \in Pose : Near(p, pose)}
  /\ present' = pose'
  /\ UNCHANGED <<pending, calls, torque, stiff>>

Write(p) ==
  /\ target' = IF torque THEN p ELSE None
  /\ pc' = IF torque THEN "write" ELSE "top"

SilentNever == FALSE                \* mutant: no watchdog

Lost   == state = "ACTIVE" /\ holder = None
Silent == state = "ACTIVE" /\ age = "gone"

(* The goal after the watchdog: a late command is not followed further. *)
Watched == IF state = "ACTIVE" /\ age = "late" THEN present' ELSE goal

CanTrip == torque /\ state \in {"ACTIVE", "READY"} /\ ~Lost /\ ~Silent

(* _retreat_goal: away from what the joint pushes at. *)
Away(p, g) ==
  LET back == IF p = 0 THEN 0 ELSE p - 1
      on   == IF p = Top THEN Top ELSE p + 1
  IN  IF g # None /\ g > p THEN {back} ELSE IF g # None /\ g < p THEN {on} ELSE {back, on}

LoopUnattended ==
  /\ Read /\ (Lost \/ Silent)
  /\ EnterHold("OPERATOR_GONE", present') /\ Write(present')

(* Over-temperature: hold where the arm is. *)
LoopTrips ==
  /\ Read /\ CanTrip
  /\ EnterHold("TRIP", present') /\ Write(present')

NextTick == ticks + 1

(* The arm has retreated, or has had its time for it. *)
Backed(t, p) == t = p \/ ticks = RetreatTicks

(* Contact: back off, unless there is nowhere to go. *)
LoopRetreats ==
  /\ Read /\ CanTrip
  /\ \E b \in Away(present', Watched) :
       /\ Write(b)
       /\ IF b = present'
          THEN EnterHold("TRIP", present')
          ELSE /\ state' = "RETREATING" /\ fault' = "TRIP" /\ age' = "fresh"
               /\ goal' = None /\ RequireResync
               /\ retreat' = b /\ ticks' = 0
               /\ UNCHANGED hold_goal

LoopBacksOff ==
  /\ Read /\ state = "RETREATING"
  /\ Write(retreat)
  /\ IF Backed(retreat, present')
     THEN EnterHold("TRIP", present')
     ELSE ticks' = NextTick /\ UNCHANGED <<state, fault, goal, hold_goal, age, lease, retreat>>

LoopFollows ==
  /\ Read /\ state = "ACTIVE" /\ ~Lost /\ ~Silent
  /\ goal' = Watched /\ Write(Watched)
  /\ UNCHANGED <<state, fault, hold_goal, age, retreat, ticks, lease>>

LoopKeeps ==
  /\ Read /\ state \in {"HOLD", "READY", "FAULT"}
  /\ Write(IF hold_goal = None THEN present' ELSE hold_goal)
  /\ UNCHANGED <<state, fault, goal, hold_goal, age, retreat, ticks, lease>>

LoopWatches ==
  /\ Read /\ state = "SAFE"
  /\ pc' = "top" /\ target' = None
  /\ UNCHANGED <<state, fault, goal, hold_goal, age, retreat, ticks, lease>>

(* The servo goes towards what was written, or something is in its way. *)
LoopWrite ==
  /\ pc = "write" /\ pc' = "top" /\ target' = None
  /\ \/ pose' = pose
     \/ /\ stiff
        /\ pose' = IF target > pose THEN pose + 1 ELSE IF target < pose THEN pose - 1 ELSE pose
  /\ UNCHANGED <<owner, retreat, ticks, lease, calls, torque, stiff>>

LoopWriteFails ==
  /\ pc = "write" /\ pc' = "top" /\ target' = None
  /\ EnterFault
  /\ UNCHANGED <<present, hold_goal, pending, calls, arm>>

LoopDecides == LoopUnattended \/ LoopTrips \/ LoopRetreats \/ LoopBacksOff
                 \/ LoopFollows \/ LoopKeeps \/ LoopWatches

LoopStep ==
  \/ LoopEnd \/ LoopTake \/ LoopSetTorque \/ LoopTorqueFails \/ LoopArmed \/ LoopReleased
  \/ LoopReadFails \/ LoopDies \/ LoopDecides \/ LoopWrite \/ LoopWriteFails

-----------------------------------------------------------------------------
Next ==
  \/ Start \/ StartFails \/ StopFinish \/ Arm \/ ReleaseTorque \/ GrantAsk \/ Hold \/ Resume \/ Expire \/ Age
  \/ \E o \in Operator : \/ Grant(o) \/ GrantLook(o) \/ GrantResume(o)
                         \/ Release(o) \/ ReleaseHold(o)
                         \/ \E p \in Pose : Submit(o, p)
  \/ LoopStep

Spec == Init /\ [][Next]_vars

(* The loop's thread and a stop() that waits for it run, one after the    *)
(* other, and time passes; of the people nothing is assumed.               *)
StopEnds == pc = "ended" /\ StopFinish

FairSpec == Spec /\ WF_vars(LoopStep \/ StopEnds) /\ WF_vars(Age)

-----------------------------------------------------------------------------
(* In HOLD the pose that the loop keeps writing is where the arm stands,   *)
(* whatever the arm was doing when it was held (_enter_hold).              *)
HoldStaysPut ==
  state = "HOLD" /\ torque /\ stiff /\ pc # "armed" /\ hold_goal # None => Near(hold_goal, pose)

(* Outside the loop's torque section the state tells whether the backend   *)
(* writes to the arm, whoever pressed what while the bus was busy.  What    *)
(* the motors make of a set_torque that raised, nobody knows (SAFETY.md    *)
(* promises nothing of them in SAFE, either).                              *)
StateTellsTorque ==
  state # "STOPPED" /\ pc \notin {"off", "armed", "released"} =>
    /\ state = "SAFE" => ~torque
    /\ state \in {"READY", "ACTIVE", "RETREATING"} => torque

(* Whoever has the lease while the arm is stopped has to start again near  *)
(* its pose (SAFETY.md invariant 7, require_resync).                       *)
StoppedIsUnsynced == state \in Stopped /\ holder # None => unsynced

(* A stopped arm moves again for a new command only after someone resumed  *)
(* or armed it.                                                            *)
NoMotionFromStop == [][(state \in Stopped) => state' # "ACTIVE"]_vars

(* The reason for which the arm was held is not replaced while it is held, *)
(* by another hold, a trip or somebody who lets the lease go; only an error *)
(* of the bus replaces it, and then the state is FAULT.                    *)
FirstReasonStays ==
  [][(state \in {"HOLD", "FAULT"} /\ state' \in {"HOLD", "FAULT"}) =>
       (fault' = fault \/ (state' = "FAULT" /\ fault' = "HARDWARE_ERROR"))]_vars

(* The virtual leader is one way to do what SAFETY.md asks: at most one     *)
(* authority, motion only by its commands and never from a stop, and every  *)
(* stop and every change of the authority begins from the arm's pose again. *)
(* A retreat is a way to stand still.                                       *)
Modes == INSTANCE SafetyStates WITH
  mode      <- IF state = "RETREATING" THEN "HOLD" ELSE state,
  authority <- holder,
  matched   <- holder # None /\ ~unsynced

ModesImplemented == Modes!Spec

(* The arm never stays in motion that nobody attends to: without new        *)
(* commands or a lease it leaves ACTIVE, and the retreat that may follow    *)
(* ends, even against an obstacle behind the arm (_loop, _retreat_goal).    *)
Unattended ==
  \/ state = "RETREATING"
  \/ state = "ACTIVE" /\ (age # "fresh" \/ holder = None)

UnattendedStops == []<>~Unattended
============================================================================
