---------------------------- MODULE LadderChecks ----------------------------
(***************************************************************************)
(* What the operators of Ladder and Tuning compute, against what they are  *)
(* for, over every input within small bounds.                              *)
(***************************************************************************)
EXTENDS Ladder, Tuning

LOCAL Far == 5
LOCAL Place == 0 .. Far
LOCAL Spec0(unit) == Contract(unit, 0, Far)
LOCAL Cap == [deg |-> 2, percent |-> 1]
LOCAL Unit == {"deg", "percent"}

-----------------------------------------------------------------------------
(* The goal that is written stays within the joint's limits and within the *)
(* lead of where the joint is, and a goal that is near enough is written   *)
(* as it is (clamp_lead): the force of a blocked joint has a bound and a   *)
(* free one arrives.                                                       *)
ASSUME LeadIsBounded ==
    \A unit \in Unit : \A target \in -2 .. Far + 2, here \in Place :
        LET written == clamp_lead(<<Spec0(unit)>>, <<target>>, <<here>>, Cap)[1]
            near == -Cap[unit] <= target - here /\ target - here <= Cap[unit]
        IN  /\ contains(Spec0(unit), written)
            /\ -Cap[unit] <= written - here /\ written - here <= Cap[unit]
            /\ near /\ contains(Spec0(unit), target) => written = target
            /\ near <=> limited(<<Spec0(unit)>>, <<target>>, <<here>>, Cap) = {}

(* The speed that is written is never 0, which a servo takes as no limit   *)
(* (ticks_per_second), and a faster setting is never a slower servo.       *)
ASSUME SpeedIsALimit ==
    \A unit \in Unit : \A v \in 0 .. 400 :
        LET Ticks(x) == ticks_per_second([deg |-> x, percent |-> x], Spec0(unit))
        IN  Ticks(v) \in 1 .. 4000 /\ Ticks(v) <= Ticks(v + 1)

-----------------------------------------------------------------------------
(* A command is accepted only with goals of known joints within their      *)
(* limits, near the arm when the lease is not in step yet; the reason that *)
(* is told is the first in the order of the ladder (validate).             *)
LOCAL Item == [joint : 1 .. 3, kind : {"number", "infinite", "other"}, value : {-1, 0, 3, 5}]
LOCAL Items == {<<>>} \cup {<<i>> : i \in Item} \cup {<<i, k>> : i \in Item, k \in Item}
LOCAL Two == <<Spec0("deg"), Spec0("percent")>>
LOCAL Here == {<<1, 4>>, <<3>>}

ASSUME AcceptedIsSafe ==
    \A payload \in Items, here \in Here, fresh \in BOOLEAN :
        LET verdict == validate(Two, payload, here, fresh, Cap)
            Good(c) == c.joint \in {1, 2} /\ c.kind = "number" /\ contains(Two[c.joint], c.value)
        IN  /\ verdict = "" => /\ payload # <<>>
                               /\ \A i \in DOMAIN payload : Good(payload[i])
                               /\ fresh => \A i \in DOMAIN payload : Synced(Two[payload[i].joint], payload[i], here, Cap)
            /\ verdict \in {"POSE_NOT_SYNCED", "HARDWARE_NOT_READY"} =>
                   fresh /\ \A i \in DOMAIN payload : Good(payload[i])

-----------------------------------------------------------------------------
(* One lease, whatever is asked of it in whatever order: a command of      *)
(* another, an old command and a command after the end are refused, and a  *)
(* number counts once (authorise, renew, release, grant).                  *)
LOCAL Lease == [id : {"a", "b"}, expires_at : 0 .. 4, needs_sync : BOOLEAN, last_sequence : -1 .. 2]
LOCAL Leases == {{}} \cup {{l} : l \in Lease}
LOCAL Sequence == [kind : {"number", "other"}, value : 0 .. 3]

ASSUME LeaseIsExclusive ==
    \A lease \in Leases, id \in {"a", "b"}, now \in 0 .. 4 :
        /\ LET granted == grant(lease, id, now, 2)
           IN  granted.refused = "" <=> active(lease, now) = {}
        /\ \A s \in Sequence :
              LET asked == authorise(lease, id, s, now, 2)
                  again == authorise(asked.lease, id, s, now, 2)
              IN  /\ asked.refused = "" => /\ \E l \in lease : l.id = id /\ now < l.expires_at /\ l.last_sequence < s.value
                                           /\ again.refused = "DUPLICATE_SEQUENCE"
                  /\ asked.refused # "" => asked.lease = active(lease, now)
        /\ release(lease, id) \subseteq lease
        /\ renew(lease, id, now, 2).refused = "" => active(renew(lease, id, now, 2).lease, now + 1) # {}

-----------------------------------------------------------------------------
(* A joint that stands at its end is not pushed on, stays latched while    *)
(* its goal moves about there, and comes free when the goal is turned back *)
(* into the range (end_stop): the arm is neither stuck there nor does it   *)
(* push and let go by turns.                                               *)
ASSUME EndStopLatches ==
    \A here \in Place, wanted \in Place, goes \in 0 .. 2, was \in {{}} \cup {{p} : p \in Place} :
        LET latched == IF was = {} THEN [j \in {} |-> 0] ELSE <<CHOOSE p \in was : TRUE>>
            next == end_stop(<<Spec0("deg")>>, latched, "ACTIVE", <<wanted>>, <<here>>, <<goes>>, 1, 1)
            written == relax_at_end_stops(<<wanted>>, next)[1]
        IN  /\ (was = {} /\ DOMAIN next # {}) => (goes = 0 /\ written = here /\ here \in {0, 1, Far - 1, Far})
            /\ (was \subseteq {0, 1} /\ was # {} /\ wanted - latched[1] > 2) <=>
               (was \subseteq {0, 1} /\ was # {} /\ DOMAIN next = {})
            /\ DOMAIN end_stop(<<Spec0("deg")>>, latched, "HOLD", <<wanted>>, <<here>>, <<goes>>, 1, 1) = {}

(* The retreat goes against the push, by no more than retreat_deg, and     *)
(* never out of the range (_retreat_goal); the other joints stay.          *)
ASSUME RetreatOpposes ==
    \A here \in Place, other \in Place, asked \in Place, came \in Place :
        LET push == Pushing(<<asked, other>>, <<here, other>>, <<<<came, other>>, <<here, other>>>>, <<here, other>>, 1)
            goal == retreat_goal(Two, <<here, other>>, 1, push, 2)
        IN  /\ contains(Two[1], goal[1]) /\ goal[2] = other
            /\ asked > here \/ (asked = here /\ came < here) => here - 2 <= goal[1] /\ goal[1] <= here
            /\ asked < here => here <= goal[1] /\ goal[1] <= here + 2

-----------------------------------------------------------------------------
(* The readings stop the arm exactly when one and the same condition held  *)
(* in every look for its whole window (inspect): one wild reading does     *)
(* not.  The exception the code makes is a joint whose temperature is not  *)
(* read in a look: what began before goes on.                              *)
LOCAL Thresholds ==
    [temperature_trip_c |-> 2, temperature_trip_ms |-> 2, temperature_warn_c |-> 1, load_trip |-> 2, load_trip_ms |-> 1,
     current_trip |-> 0, current_trip_ms |-> 1, stall_epsilon |-> 1, stall_load |-> 1, stall_load_ms |-> 2,
     following_error |-> [deg |-> 2, percent |-> 2], following_error_ms |-> 1]
LOCAL Sample(hot, load, goal) ==
    [temperature |-> IF hot = -1 THEN <<>> ELSE <<hot>>, load |-> <<load>>, current |-> <<9>>, present |-> <<0>>,
     goal |-> <<goal>>, requested |-> <<>>, moved |-> <<0>>]
LOCAL Samples == {Sample(h, l, g) : h \in {-1, 1, 2}, l \in {0, 1, 2}, g \in {0, 2}}
LOCAL Nothing == [k \in {} |-> 0]
LOCAL One == <<Spec0("deg")>>
LOCAL After(since, s, now) == inspect(since, One, s, Thresholds, now)

ASSUME TripsAreSustained ==
    \A a \in Samples, b \in Samples, c \in Samples :
        LET first == After(Nothing, a, 0)
            second == After(first.since, b, 1)
            third == After(second.since, c, 2)
            Held(k, seen) == \A s \in seen : ~Skipped(k, s) => Breached(k, One, s, Thresholds)
            Lasts(k) == /\ ~Skipped(k, c)
                        /\ IF Window(k, Thresholds) = 1 THEN Held(k, {b, c})
                           ELSE Held(k, {a, b, c}) /\ ~Skipped(k, a)
        IN  /\ first.trip = {}
            /\ second.trip = {} =>
                 (third.trip # {} <=> \E k \in Checks(One, 0) : Lasts(k))
            /\ second.trip = {} => \A k \in third.trip : Lasts(k)

(* A current is not looked at when its threshold is 0, as on this arm.     *)
ASSUME CurrentIsIgnored == \A s \in Samples : \A k \in After(Nothing, s, 0).trip : Codes[k[1]] # "OVERCURRENT"

(* A warning comes before the trip and needs its window too (warnings).    *)
ASSUME WarningsAreSustained ==
    \A a \in 0 .. 3, b \in 0 .. 3 :
        LET first == warnings([j \in {} |-> 0], One, <<a, 9>>, Thresholds, 0)
            second == warnings(first.since, One, <<b, 9>>, Thresholds, 2)
        IN  first.lines = {} /\ (1 \in second.lines <=> a >= 1 /\ b >= 1) /\ second.lines \subseteq {1}

-----------------------------------------------------------------------------
(* A profile is itself within what may be tuned, stops a blocked joint     *)
(* before the lead is used up (following_error_deg), and is recognised.    *)
ASSUME ProfilesAreConsistent ==
    \A name \in DOMAIN PROFILES :
        LET p == PROFILES[name] IN
        /\ \A key \in DOMAIN p \cap DOMAIN TUNABLES : TUNABLES[key][1] <= p[key] /\ p[key] <= TUNABLES[key][2]
        /\ p.following_error_deg < p.lead_deg
        /\ profile_of(retune(Default, p)) = {name}

(* What is tuned survives a restart (_persist_tunables, load_settings):    *)
(* after any two changes, by profile or by value, the policy the next      *)
(* start reads is the one that was in force.  It is not so for a request   *)
(* that has a profile and a value: the policy is then no profile, the line *)
(* of the profile is not written, and following_error_percent, which has   *)
(* no line of its own, comes back as the profile before had it.            *)
LOCAL None0 == [x \in {} |-> 0]
LOCAL ByProfile == {[profile |-> {name}, values |-> None0] : name \in DOMAIN PROFILES}
LOCAL ByValue == {[profile |-> {}, values |-> [n \in {name} |-> TUNABLES[name][side]]] :
                    name \in DOMAIN TUNABLES, side \in {1, 2}}
LOCAL Both == [profile |-> {"quick"}, values |-> [n \in {"lead_deg"} |-> 20]]
LOCAL Empty == [lines |-> None0, profile |-> {}]

ASSUME TuningSurvives ==
    /\ \A one \in ByProfile \cup ByValue, two \in ByProfile \cup ByValue :
          LET first == write_policy(Default, Empty, one)
              second == write_policy(first.policy, first.file, two)
          IN  /\ Accepted(one, "HOLD") /\ ~Accepted(one, "ACTIVE")
              /\ load_settings(first.file) = first.policy
              /\ load_settings(second.file) = second.policy
    /\ LET mixed == write_policy(Default, Empty, Both)
       IN  /\ load_settings(mixed.file).following_error_percent = Default.following_error_percent
           /\ mixed.policy.following_error_percent = PROFILES.quick.following_error_percent
=============================================================================
