------------------------------- MODULE Tuning -------------------------------
(***************************************************************************)
(* The feel of the virtual leader: the profiles and the values that may be *)
(* tuned (safety.py, api.py), how POST /policy changes them, keeps them in *)
(* config/soarm.env and how the next start reads them again.               *)
(*                                                                         *)
(* A policy is a function from the names of the settings to integers (the  *)
(* ones nothing here changes are left out); the file is a function from    *)
(* names to values, for the names that have a line.  "profile" is the line *)
(* SOARM_VL_PROFILE, which is kept apart.                                  *)
(***************************************************************************)
EXTENDS Integers, Functions

(* VLeaderSettings: the values of a start with an empty file *)
Default ==
    [max_deg_per_s |-> 90, max_percent_per_s |-> 110, lead_deg |-> 12, lead_percent |-> 12,
     sync_tolerance_deg |-> 10, following_error_deg |-> 8, following_error_percent |-> 8,
     following_error_ms |-> 600, stall_load |-> 200, stall_load_ms |-> 1200, load_trip |-> 550,
     retreat_deg |-> 4, command_hold_ms |-> 1500]

Setting == DOMAIN Default

PROFILES ==
    [gentle |-> [max_deg_per_s |-> 45, max_percent_per_s |-> 60, lead_deg |-> 8, lead_percent |-> 8,
                 following_error_deg |-> 6, following_error_percent |-> 6, following_error_ms |-> 500,
                 stall_load |-> 160, stall_load_ms |-> 1000, load_trip |-> 450],
     normal |-> [max_deg_per_s |-> 90, max_percent_per_s |-> 110, lead_deg |-> 12, lead_percent |-> 12,
                 following_error_deg |-> 8, following_error_percent |-> 8, following_error_ms |-> 600,
                 stall_load |-> 200, stall_load_ms |-> 1200, load_trip |-> 550],
     quick  |-> [max_deg_per_s |-> 140, max_percent_per_s |-> 118, lead_deg |-> 18, lead_percent |-> 16,
                 following_error_deg |-> 12, following_error_percent |-> 10, following_error_ms |-> 700,
                 stall_load |-> 260, stall_load_ms |-> 1400, load_trip |-> 650]]

(* the lowest and the highest value that may be set by name *)
TUNABLES ==
    [max_deg_per_s |-> <<10, 150>>, max_percent_per_s |-> <<10, 118>>, lead_deg |-> <<3, 25>>,
     lead_percent |-> <<3, 25>>, sync_tolerance_deg |-> <<2, 30>>, following_error_deg |-> <<2, 24>>,
     following_error_ms |-> <<200, 3000>>, stall_load |-> <<60, 800>>, stall_load_ms |-> <<200, 5000>>,
     load_trip |-> <<200, 900>>, retreat_deg |-> <<1, 15>>, command_hold_ms |-> <<500, 8000>>]

Tunable(values) == \A name \in DOMAIN values :
    name \in DOMAIN TUNABLES /\ TUNABLES[name][1] <= values[name] /\ values[name] <= TUNABLES[name][2]

(* f with the values of g where g has them *)
Over(f, g) == [x \in DOMAIN f \cup DOMAIN g |-> IF x \in DOMAIN g THEN g[x] ELSE f[x]]

Is(policy, name) == \A key \in DOMAIN PROFILES[name] : policy[key] = PROFILES[name][key]
(* at most one profile fits: {} or {its name} *)
profile_of(policy) == {name \in DOMAIN PROFILES : Is(policy, name)}

(* a body is [profile, values], profile being {} or {a name} *)
Accepted(body, state) ==
    state # "ACTIVE" /\ body.profile \subseteq DOMAIN PROFILES /\ Tunable(body.values)

Applied(body) ==
    IF body.profile = {} THEN body.values
    ELSE Over(PROFILES[CHOOSE name \in body.profile : TRUE], body.values)

(* the whole policy is replaced: the loop, its validator and its detector, and the leases take it over *)
retune(policy, applied) == Over(policy, applied)
adopt_settings(policy) ==
    [settings |-> policy, validator |-> policy, detector |-> policy, pending_speed |-> TRUE]

(* only what may be tuned has a line; the line of the profile stays when the policy is none *)
persist_tunables(file, applied, profile) ==
    [lines |-> Over(file.lines, Restrict(applied, DOMAIN applied \cap DOMAIN TUNABLES)),
     profile |-> IF profile = {} THEN file.profile ELSE profile]

write_policy(policy, file, body) ==
    LET applied == Applied(body)
        tuned == retune(policy, applied)
    IN  [policy |-> tuned, file |-> persist_tunables(file, applied, profile_of(tuned))]

(* the start: a line beats the profile, the profile beats the default *)
load_settings(file) ==
    LET base == Over(Default, Restrict(file.lines, DOMAIN file.lines \cap Setting))
    IN  IF file.profile \subseteq DOMAIN PROFILES /\ file.profile # {}
        THEN LET name == CHOOSE n \in file.profile : TRUE
             IN  Over(base, Restrict(PROFILES[name], DOMAIN PROFILES[name] \ DOMAIN file.lines))
        ELSE base
=============================================================================
