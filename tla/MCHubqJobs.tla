----------------------------- MODULE MCHubqJobs -----------------------------
(* tele is a phone's teleop job, desk a teleop job of the console and pol  *)
(* a policy job, all over the one follower f that config/ describes.       *)
(* right is a second policy job, over another arm g: HUBq takes the device *)
(* paths from the request and does not know how many arms there are.       *)
EXTENDS HubqJobs

CONSTANTS tele, desk, pol, right, f, g

MCKindOf == [j \in Job |-> IF j \in {pol, right} THEN "policy" ELSE "teleop"]
MCNeeds == [j \in Job |-> IF j = right THEN {g} ELSE {f}]
============================================================================
