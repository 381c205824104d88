------------------------------- MODULE Ladder -------------------------------
(***************************************************************************)
(* The arithmetic of the virtual leader that VLeader abstracts: the lease  *)
(* (authority.py), the checks on one command, the lead of the goal that is *)
(* written, the end stops, the retreat and the trips (safety.py, spec.py   *)
(* and the parts of owner.py that call them).                              *)
(*                                                                         *)
(* Joints are numbered in JOINT_ORDER, specs[j] is the contract of joint j *)
(* and a dict over joints is a function whose domain may be smaller.       *)
(* Degrees, percents, loads and temperatures are integers, times are in    *)
(* milliseconds; the tolerances for rounding (1e-6, 1e-9) are zero here.   *)
(***************************************************************************)
EXTENDS Integers, FiniteSets, Sequences

Low(a, b) == IF a <= b THEN a ELSE b
High(a, b) == IF a <= b THEN b ELSE a
Gap(a, b) == IF a <= b THEN b - a ELSE a - b
Nearest(a, b) == (2 * a + b) \div (2 * b)
First(S) == CHOOSE i \in S : \A k \in S : i <= k

-----------------------------------------------------------------------------
(* The contract of a joint: limits in 1/4095 degree around zero, or percent *)

Contract(unit, minimum, maximum) == [unit |-> unit, minimum |-> minimum, maximum |-> maximum]

Readable(range_min, range_max) == range_min < range_max
limits_from_calibration(gripper, range_min, range_max) ==
    IF gripper THEN Contract("percent", 0, 100)
    ELSE Contract("deg", -180 * (range_max - range_min), 180 * (range_max - range_min))

clamp(spec, value) == Low(spec.maximum, High(spec.minimum, value))
contains(spec, value) == spec.minimum <= value /\ value <= spec.maximum

(* a setting that has a value for each unit: lead, sync_tolerance, following_error *)
Of(setting, spec) == IF spec.unit = "percent" THEN setting.percent ELSE setting.deg

(* Goal_Velocity in ticks of the servo; 0 would mean "no limit" (4096 ticks are 360 degrees, *)
(* 1444 ticks are the 100 percent of the gripper)                                            *)
ticks_per_second(speed, spec) ==
    LET ticks == IF spec.unit = "percent" THEN Nearest(Of(speed, spec) * 1444, 100)
                                          ELSE Nearest(Of(speed, spec) * 4096, 360)
    IN  High(1, Low(4000, ticks))

-----------------------------------------------------------------------------
(* The lease: none is {}, the one there is is its only member *)

active(lease, now) == {l \in lease : now < l.expires_at}

grant(lease, id, now, ttl) ==
    IF active(lease, now) # {} THEN [refused |-> "LEASE_CONFLICT", lease |-> active(lease, now)]
    ELSE [refused |-> "", lease |-> {[id |-> id, expires_at |-> now + ttl,
                                      needs_sync |-> TRUE, last_sequence |-> -1]}]

Verdict(code, lease) == [refused |-> code, lease |-> lease]

renew(lease, id, now, ttl) ==
    LET live == active(lease, now) IN
    CASE live = {} -> Verdict("NO_ACTIVE_LEASE", {})
      [] \E l \in live : l.id # id -> Verdict("WRONG_AUTHORITY", live)
      [] OTHER -> Verdict("", {[l EXCEPT !.expires_at = now + ttl] : l \in live})

release(lease, id) == {l \in lease : l.id # id}

(* sequence is [kind, value]; a command that passes here counts, and extends the lease, *)
(* whatever is refused later                                                            *)
authorise(lease, id, sequence, now, ttl) ==
    LET live == active(lease, now) IN
    CASE live = {} -> Verdict("NO_ACTIVE_LEASE", {})
      [] \E l \in live : l.id # id -> Verdict("WRONG_AUTHORITY", live)
      [] OTHER ->
           IF sequence.kind # "number" THEN Verdict("INVALID_SHAPE", live)
           ELSE IF \E l \in live : sequence.value <= l.last_sequence THEN Verdict("DUPLICATE_SEQUENCE", live)
           ELSE Verdict("", {[id |-> id, expires_at |-> now + ttl, needs_sync |-> l.needs_sync,
                              last_sequence |-> sequence.value] : l \in live})

validity(asked, command_valid_ms) == High(50, Low(command_valid_ms, asked))
Stale(observation, seen, frames) == observation - seen > frames

-----------------------------------------------------------------------------
(* One command: a sequence of [joint, kind, value], kind "number", "infinite" or "other" *)

Synced(spec, c, present, tolerance) ==
    c.joint \in DOMAIN present /\ Gap(c.value, present[c.joint]) <= Of(tolerance, spec)

(* the reason to refuse the command, "" when it is accepted *)
validate(specs, payload, present, needs_sync, tolerance) ==
    LET Joint(i) == payload[i].joint
        unreadable == {i \in DOMAIN payload : payload[i].kind # "number"}
        far == {i \in DOMAIN payload : ~Synced(specs[Joint(i)], payload[i], present, tolerance)}
    IN  IF payload = <<>> \/ \E i \in DOMAIN payload : Joint(i) \notin DOMAIN specs THEN "INVALID_SHAPE"
        ELSE IF unreadable # {} THEN
            IF payload[First(unreadable)].kind = "infinite" THEN "NON_FINITE_VALUE" ELSE "INVALID_SHAPE"
        ELSE IF \E i \in DOMAIN payload : ~contains(specs[Joint(i)], payload[i].value) THEN "OUTSIDE_ABSOLUTE_LIMIT"
        ELSE IF ~needs_sync \/ far = {} THEN ""
        ELSE IF Joint(First(far)) \in DOMAIN present THEN "POSE_NOT_SYNCED"
        ELSE "HARDWARE_NOT_READY"

(* what one joint of the goal becomes, and the joints whose goal was cut *)
Lead(spec, target, present, lead) ==
    clamp(spec, present + High(-Of(lead, spec), Low(Of(lead, spec), target - present)))

clamp_lead(specs, targets, present, lead) ==
    [j \in DOMAIN targets |-> IF j \in DOMAIN present THEN Lead(specs[j], targets[j], present[j], lead)
                                                      ELSE clamp(specs[j], targets[j])]
limited(specs, targets, present, lead) ==
    {j \in DOMAIN targets \cap DOMAIN present : Gap(targets[j], present[j]) > Of(lead, specs[j])}

-----------------------------------------------------------------------------
(* How far each joint went in the last ticks (trail: at most 30 poses, the oldest first) *)
movement(trail, present) ==
    IF Len(trail) < 2 THEN [j \in {} |-> 0]
    ELSE [j \in DOMAIN present |-> IF j \in DOMAIN trail[1] THEN Gap(present[j], trail[1][j]) ELSE 0]

at_end_stop(spec, target, present, moved, limit_epsilon, stall_epsilon) ==
    /\ \/ present - spec.minimum <= limit_epsilon /\ target < present
       \/ spec.maximum - present <= limit_epsilon /\ target > present
    /\ moved < stall_epsilon

(* a latched joint comes free when the goal is turned back, by more than the margin twice *)
ComesFree(spec, wanted, latched, limit_epsilon) ==
    /\ Gap(wanted, latched) > 2 * limit_epsilon
    /\ \/ latched - spec.minimum <= limit_epsilon /\ wanted > latched
       \/ spec.maximum - latched <= limit_epsilon /\ wanted < latched

(* the joints that are latched after the tick, and where *)
end_stop(specs, latched, state, wanted, present, moved, limit_epsilon, stall_epsilon) ==
    LET kept == {j \in DOMAIN latched : j \in DOMAIN wanted => ~ComesFree(specs[j], wanted[j], latched[j], limit_epsilon)}
        new == {j \in (DOMAIN wanted \cap DOMAIN moved) \ DOMAIN latched :
                  at_end_stop(specs[j], wanted[j], present[j], moved[j], limit_epsilon, stall_epsilon)}
    IN  IF state # "ACTIVE" THEN [j \in {} |-> 0]
        ELSE [j \in kept \cup new |-> IF j \in kept THEN latched[j] ELSE present[j]]

relax_at_end_stops(goal, latched) ==
    [j \in DOMAIN goal |-> IF j \in DOMAIN latched THEN latched[j] ELSE goal[j]]

(* the joint that tripped goes back from where it was pushed, by retreat_deg *)
Pushing(requested, goal, trail, present, joint) ==
    LET asked == IF joint \in DOMAIN requested THEN requested[joint]
                 ELSE IF joint \in DOMAIN goal THEN goal[joint] ELSE present[joint]
    IN  IF asked = present[joint] /\ Len(trail) > 1 THEN present[joint] - trail[1][joint]
        ELSE asked - present[joint]

retreat_goal(specs, present, joint, pushing, retreat_deg) ==
    IF joint \notin DOMAIN specs THEN present
    ELSE [present EXCEPT ![joint] =
            clamp(specs[joint], IF pushing >= 0 THEN @ - retreat_deg ELSE @ + retreat_deg)]

-----------------------------------------------------------------------------
(* Trips: since[k] is when the condition k began, for the conditions that hold *)

Sustained(since, k, window, now) == k \in DOMAIN since /\ now - since[k] >= window

(* the conditions in the order in which inspect goes through them *)
Codes == <<"OVER_TEMPERATURE", "OVERLOAD", "OVERCURRENT", "STALLED", "FOLLOWING_ERROR">>
Checks(specs, current_trip) ==
    {k \in (DOMAIN Codes) \X (DOMAIN specs) : Codes[k[1]] = "OVERCURRENT" => current_trip > 0}
Before(a, b) == a[1] < b[1] \/ (a[1] = b[1] /\ a[2] < b[2])

LOCAL Reading(dict, j) == IF j \in DOMAIN dict THEN dict[j] ELSE 0
LOCAL Standing(s, j, settings) == j \in DOMAIN s.moved /\ s.moved[j] < settings.stall_epsilon

Requested(s) == IF DOMAIN s.requested = {} THEN s.goal ELSE s.requested

(* a joint without a temperature is skipped: what began for it goes on *)
Skipped(k, s) == Codes[k[1]] = "OVER_TEMPERATURE" /\ k[2] \notin DOMAIN s.temperature

Breached(k, specs, s, settings) ==
    LET j == k[2] IN
    CASE Codes[k[1]] = "OVER_TEMPERATURE" -> s.temperature[j] >= settings.temperature_trip_c
      [] Codes[k[1]] = "OVERLOAD" -> Gap(0, Reading(s.load, j)) >= settings.load_trip
      [] Codes[k[1]] = "OVERCURRENT" -> Gap(0, Reading(s.current, j)) >= settings.current_trip
      [] Codes[k[1]] = "STALLED" ->
           /\ j \in DOMAIN s.goal \cap DOMAIN s.present
           /\ Gap(s.goal[j], s.present[j]) >= settings.stall_epsilon
           /\ Standing(s, j, settings)
           /\ Gap(0, Reading(s.load, j)) >= settings.stall_load
      [] OTHER ->
           /\ j \in DOMAIN Requested(s) \cap DOMAIN s.present
           /\ Gap(Requested(s)[j], s.present[j]) >= Of(settings.following_error, specs[j])
           /\ Standing(s, j, settings)

Window(k, settings) ==
    CASE Codes[k[1]] = "OVER_TEMPERATURE" -> settings.temperature_trip_ms
      [] Codes[k[1]] = "OVERLOAD" -> settings.load_trip_ms
      [] Codes[k[1]] = "OVERCURRENT" -> settings.current_trip_ms
      [] Codes[k[1]] = "STALLED" -> settings.stall_load_ms
      [] OTHER -> settings.following_error_ms

(* The first condition in the order that has lasted its window trips, and the conditions  *)
(* after it are not looked at in this tick.                                               *)
inspect(since, specs, s, settings, now) ==
    LET checks == Checks(specs, settings.current_trip)
        looked == {k \in checks : ~Skipped(k, s)}
        Holds(k) == Breached(k, specs, s, settings)
        began == [k \in (DOMAIN since \ looked) \cup {k \in looked : Holds(k)} |->
                    IF k \in DOMAIN since THEN since[k] ELSE now]
        lasting == {k \in looked : Holds(k) /\ Sustained(began, k, Window(k, settings), now)}
        trip == CHOOSE k \in lasting : \A o \in lasting : o = k \/ Before(k, o)
        Seen(k) == lasting = {} \/ k = trip \/ Before(k, trip)
    IN  [trip |-> IF lasting = {} THEN {} ELSE {trip},
         since |-> [k \in {x \in DOMAIN since : ~Seen(x)} \cup {x \in DOMAIN began : Seen(x)} |->
                      IF Seen(k) THEN began[k] ELSE since[k]]]

(* a warning is a temperature that has lasted its window; joints it has no contract for are left out *)
warnings(since, specs, temperature, settings, now) ==
    LET warm == {j \in DOMAIN temperature \cap DOMAIN specs : temperature[j] >= settings.temperature_warn_c}
        cold == (DOMAIN temperature \cap DOMAIN specs) \ warm
        began == [j \in (DOMAIN since \ cold) \cup warm |-> IF j \in DOMAIN since THEN since[j] ELSE now]
    IN  [since |-> began,
         lines |-> {j \in warm : Sustained(began, j, settings.temperature_trip_ms, now)}]
=============================================================================
