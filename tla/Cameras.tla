------------------------------ MODULE Cameras ------------------------------
(* A camera of the console (cameras.py): one capture thread that owns the   *)
(* device while somebody watches, the streams that watch, and the hand-over *)
(* of the device to a mode.  A mode is another process; all that shows of   *)
(* it here is the kernel's lock of the device.                              *)
EXTENDS Integers, FiniteSets

CONSTANTS Viewer,   \* the requests for the stream of the camera
          Lost      \* bound: streams that end in an error

ASSUME ViewerAssumption == IsFiniteSet(Viewer)
ASSUME LostAssumption == Lost \in Nat

VARIABLES
    owner,     \* who holds the camera: none, preview, job
    th,        \* the capture thread: none, lock, open, on, quit (without the lock), end (with it)
    letgo,     \* a thread has cleared itself and still has to return the lock
    halt,      \* _stop
    reopen,    \* _reconfigure
    error,     \* _error is set
    frame,     \* _frame is set
    clients,   \* _clients
    viewer,    \* each request: off, asked (HUBq allowed it), watch, leave (the stream ended)
    stopper,   \* a start of a mode that waits in stop: idle, wait, handed
    lost       \* streams that ended in an error

vars == <<owner, th, letgo, halt, reopen, error, frame, clients, viewer, stopper, lost>>

Watching == {v \in Viewer : viewer[v] \in {"watch", "leave"}}

(* Types; the kernel's lock is the preview's exactly while a thread or its  *)
(* last step has it (_capture), and no stream goes uncounted (acquire,      *)
(* release): the count is that of the streams and of those an error ended.  *)
TypeOK ==
    /\ owner \in {"none", "preview", "job"}
    /\ th \in {"none", "lock", "open", "opening", "on", "quit", "end"}
    /\ letgo \in BOOLEAN /\ halt \in BOOLEAN /\ reopen \in BOOLEAN
    /\ error \in BOOLEAN /\ frame \in BOOLEAN
    /\ viewer \in [Viewer -> {"off", "asked", "watch", "leave"}]
    /\ stopper \in {"idle", "wait", "handed"} /\ lost \in 0..Lost
    /\ owner = "preview" <=> letgo \/ th \in {"open", "opening", "on", "end"}
    /\ clients = Cardinality(Watching) + lost

Init ==
    /\ owner = "none" /\ th = "none" /\ letgo = FALSE /\ halt = FALSE /\ reopen = FALSE
    /\ error = FALSE /\ frame = FALSE /\ clients = 0 /\ viewer = [v \in Viewer |-> "off"]
    /\ stopper = "idle" /\ lost = 0

----------------------------------------------------------------------------
(* The streams *)

(* camera_stream: HUBq is asked first, and any holder of the camera refuses another preview *)
Ask(v) ==
    /\ viewer[v] = "off" /\ owner = "none"
    /\ viewer' = [viewer EXCEPT ![v] = "asked"]
    /\ UNCHANGED <<owner, th, letgo, halt, reopen, error, frame, clients, stopper, lost>>

Acquire(v) ==
    /\ viewer[v] = "asked"
    /\ viewer' = [viewer EXCEPT ![v] = "watch"] /\ clients' = clients + 1
    /\ IF th = "none" THEN th' = "lock" /\ halt' = FALSE /\ reopen' = FALSE
                      ELSE UNCHANGED <<th, halt, reopen>>
    /\ UNCHANGED <<owner, letgo, error, frame, stopper, lost>>

(* The generator sees the stop *)
StreamEnds(v) ==
    /\ viewer[v] = "watch" /\ halt
    /\ viewer' = [viewer EXCEPT ![v] = "leave"]
    /\ UNCHANGED <<owner, th, letgo, halt, reopen, error, frame, clients, stopper, lost>>

(* The browser goes away *)
ViewerGoes(v) ==
    /\ viewer[v] = "watch" /\ ~halt
    /\ viewer' = [viewer EXCEPT ![v] = "leave"]
    /\ UNCHANGED <<owner, th, letgo, halt, reopen, error, frame, clients, stopper, lost>>

(* The generator raises the error of the camera; the response then never gets to its release *)
StreamRaises(v) ==
    /\ viewer[v] = "watch" /\ error /\ ~frame /\ lost < Lost
    /\ viewer' = [viewer EXCEPT ![v] = "off"] /\ lost' = lost + 1
    /\ UNCHANGED <<owner, th, letgo, halt, reopen, error, frame, clients, stopper>>

(* mutant: the last but one stops the thread too *)
ReleaseOne(v) ==
    /\ viewer[v] = "leave"
    /\ viewer' = [viewer EXCEPT ![v] = "off"]
    /\ clients' = clients - 1
    /\ halt' = (halt \/ clients' <= 1)
    /\ UNCHANGED <<owner, th, letgo, reopen, error, frame, stopper, lost>>

Release(v) ==
    /\ viewer[v] = "leave"
    /\ viewer' = [viewer EXCEPT ![v] = "off"]
    /\ clients' = (IF clients = 0 THEN 0 ELSE clients - 1)
    /\ halt' = (halt \/ clients' = 0)
    /\ UNCHANGED <<owner, th, letgo, reopen, error, frame, stopper, lost>>

(* configure: another profile while the capture runs *)
Configure ==
    /\ owner # "job" /\ th # "none" /\ ~reopen
    /\ reopen' = TRUE
    /\ UNCHANGED <<owner, th, letgo, halt, error, frame, clients, viewer, stopper, lost>>

(* stop, which the screen calls, and every start of a mode that needs the camera *)
StopWorker ==
    /\ stopper = "idle" /\ stopper' = "wait" /\ halt' = TRUE
    /\ UNCHANGED <<owner, th, letgo, reopen, error, frame, clients, viewer, lost>>

(* What stop waits for *)
Quiet == clients = 0 /\ th = "none"

StopReturns ==
    /\ stopper = "wait" /\ Quiet /\ stopper' = "handed"
    /\ UNCHANGED <<owner, th, letgo, halt, reopen, error, frame, clients, viewer, lost>>

(* Three seconds are over *)
StopTimesOut ==
    /\ stopper = "wait" /\ ~Quiet /\ stopper' = "idle"
    /\ UNCHANGED <<owner, th, letgo, halt, reopen, error, frame, clients, viewer, lost>>

(* The mode takes the camera or finds it taken; or none was to come *)
ModeStarts ==
    /\ stopper = "handed" /\ stopper' = "idle"
    /\ \/ owner = "none" /\ owner' = "job"
       \/ UNCHANGED owner
    /\ UNCHANGED <<th, letgo, halt, reopen, error, frame, clients, viewer, lost>>

ModeEnds ==
    /\ owner = "job" /\ owner' = "none"
    /\ UNCHANGED <<th, letgo, halt, reopen, error, frame, clients, viewer, stopper, lost>>

----------------------------------------------------------------------------
(* The capture thread *)

TakeLock ==
    /\ th = "lock"
    /\ IF owner = "none" THEN th' = "open" /\ owner' = "preview" /\ UNCHANGED error
                         ELSE th' = "quit" /\ error' = TRUE /\ UNCHANGED owner
    /\ UNCHANGED <<letgo, halt, reopen, frame, clients, viewer, stopper, lost>>

(* The profile to open with is looked at; one that is set from here on opens the camera again *)
Profile ==
    /\ th = "open" /\ ~halt
    /\ th' = "opening" /\ reopen' = FALSE
    /\ UNCHANGED <<owner, letgo, halt, error, frame, clients, viewer, stopper, lost>>

Open ==
    /\ th = "opening"
    /\ \/ th' = "on" /\ error' = FALSE
       \/ th' = "end" /\ error' = TRUE
    /\ UNCHANGED <<owner, letgo, halt, reopen, frame, clients, viewer, stopper, lost>>

Frame ==
    /\ th = "on" /\ ~frame
    /\ frame' = TRUE
    /\ UNCHANGED <<owner, th, letgo, halt, reopen, error, clients, viewer, stopper, lost>>

(* mutant: the loop over the frames looks for a new profile only *)
HaltedIfReopened ==
    /\ halt /\ (th = "open" \/ (th = "on" /\ reopen))
    /\ th' = "end"
    /\ UNCHANGED <<owner, letgo, halt, reopen, error, frame, clients, viewer, stopper, lost>>

Halted ==
    /\ halt /\ th \in {"open", "on"}
    /\ th' = "end"
    /\ UNCHANGED <<owner, letgo, halt, reopen, error, frame, clients, viewer, stopper, lost>>

Reopened ==
    /\ th = "on" /\ reopen /\ ~halt
    /\ th' = "open"
    /\ UNCHANGED <<owner, letgo, halt, reopen, error, frame, clients, viewer, stopper, lost>>

(* Ten reads in a row without a frame *)
Unplugged ==
    /\ th = "on"
    /\ th' = "end" /\ error' = TRUE
    /\ UNCHANGED <<owner, letgo, halt, reopen, frame, clients, viewer, stopper, lost>>

(* The finally: first the thread is forgotten, then the lock goes back *)
Cleared ==
    /\ th \in {"quit", "end"}
    /\ th' = "none" /\ frame' = FALSE
    /\ letgo' = (letgo \/ th = "end")
    /\ UNCHANGED <<owner, halt, reopen, error, clients, viewer, stopper, lost>>

GiveBack ==
    /\ letgo
    /\ letgo' = FALSE /\ owner' = "none"
    /\ UNCHANGED <<th, halt, reopen, error, frame, clients, viewer, stopper, lost>>

Capture == TakeLock \/ Profile \/ Open \/ Frame \/ Halted \/ Reopened \/ Unplugged \/ Cleared \/ GiveBack

Streams ==
    \E v \in Viewer : Ask(v) \/ Acquire(v) \/ StreamEnds(v) \/ ViewerGoes(v) \/ StreamRaises(v) \/ Release(v)

Next ==
    \/ Capture \/ Streams
    \/ Configure \/ StopWorker \/ StopReturns \/ StopTimesOut \/ ModeStarts \/ ModeEnds

(* The thread goes on, the driver answers an opening; a stream that is told to stop ends and is released *)
Fairness ==
    /\ WF_vars(TakeLock) /\ WF_vars(Open) /\ WF_vars(Halted) /\ WF_vars(Cleared) /\ WF_vars(GiveBack)
    /\ \A v \in Viewer : WF_vars(StreamEnds(v)) /\ WF_vars(Release(v))

Spec == Init /\ [][Next]_vars /\ Fairness

----------------------------------------------------------------------------
(* A camera that is told to stop is free for others after a while, unless a *)
(* new stream starts it anew: whatever the thread was doing, opening,       *)
(* reading, changing its profile (CameraWorker.stop, _capture).             *)
StopFreesCamera == halt /\ owner = "preview" ~> owner # "preview" \/ ~halt

(* A viewer who leaves does not take the picture from one who watches: the  *)
(* thread is told to stop only by stop, or when no stream is left, however  *)
(* many streams came, left and broke before (acquire, release).             *)
OthersKeepWatching == [][~halt /\ halt' /\ stopper' = stopper => Watching' = {}]_vars

=============================================================================
