------------------------------ MODULE Quality ------------------------------
(***************************************************************************)
(* What a recording says of itself: what the worker counts while it writes *)
(* frames (recording.py, sensors.py) and what the console adds up when a   *)
(* recording that was resumed ends (record_manager.py).                    *)
(*                                                                         *)
(* A dict of counts is a function whose domain may be smaller; a missing   *)
(* count is 0.  Times are in milliseconds, a percentage is rounded down,   *)
(* and the file soarm_quality.json that is not there is {}.                *)
(***************************************************************************)
EXTENDS Integers, FiniteSets, Sequences

LOCAL At(dict, key) == IF key \in DOMAIN dict THEN dict[key] ELSE 0
LOCAL Sum(f, g) == [x \in DOMAIN f \cup DOMAIN g |-> At(f, x) + At(g, x)]
LOCAL Percents(counts, total) == [x \in DOMAIN counts |-> IF total = 0 THEN 0 ELSE (100 * counts[x]) \div total]

-----------------------------------------------------------------------------
(* One frame: [stale (cameras), read_ok, temperature, voltage], the readings as sequences *)

Ranges == [temperature |-> [low |-> 0, high |-> 70, low_inclusive |-> FALSE],
           voltage |-> [low |-> 5, high |-> 15, low_inclusive |-> TRUE]]

holds(range, value) ==
    /\ IF range.low_inclusive THEN value >= range.low ELSE value > range.low
    /\ value <= range.high

implausible(range, readings) == Cardinality({i \in DOMAIN readings : ~holds(range, readings[i])})

Fresh(cameras) == [total_frames |-> 0, total_ms |-> 0, episodes_aborted |-> 0, sensor_read_failures |-> 0,
                   camera_stale_frames |-> [c \in cameras |-> 0],
                   sensor_implausible |-> [key \in DOMAIN Ranges |-> 0]]

count_recorded_frame(session, frame) ==
    [session EXCEPT !.total_frames = @ + 1,
                    !.camera_stale_frames = [c \in DOMAIN @ |-> @[c] + IF c \in frame.stale THEN 1 ELSE 0],
                    !.sensor_read_failures = @ + IF frame.read_ok THEN 0 ELSE 1,
                    !.sensor_implausible = [key \in DOMAIN @ |-> @[key] + implausible(Ranges[key], frame[key])]]

(* the frames of a session, in the order in which they were built *)
Counted(cameras, frames) ==
    LET upto[n \in 0 .. Len(frames)] ==
            IF n = 0 THEN Fresh(cameras) ELSE count_recorded_frame(upto[n - 1], frames[n])
    IN  upto[Len(frames)]

(* The reader repeats its last values when the servos cannot be read, and says so; without  *)
(* a bus it does not try.  A read is {the values}, or {}.                                   *)
refresh(reader, enabled, read) ==
    IF ~enabled THEN [reader EXCEPT !.read_ok = FALSE]
    ELSE IF read = {} THEN [reader EXCEPT !.read_ok = FALSE, !.read_failures = @ + 1]
    ELSE [reader EXCEPT !.read_ok = TRUE, !.values = CHOOSE values \in read : TRUE]

(* A frame of a camera is new when its buffer is another one than in the tick before *)
camera_freshness(last_frames, buffers) ==
    [c \in DOMAIN buffers |-> c \notin DOMAIN last_frames \/ last_frames[c] # buffers[c]]

-----------------------------------------------------------------------------
(* The rates on the screen: the ticks of the last LOOP_HZ_WINDOW_S *)

WINDOW_MS == 3000
Recent(samples, now) == SelectSeq(samples, LAMBDA sample : sample >= now - WINDOW_MS)
tick(samples, now) == Recent(Append(samples, now), now)

(* ticks per second, times 1000 *)
rate(samples) ==
    IF Len(samples) < 2 THEN 0
    ELSE ((Len(samples) - 1) * 1000000) \div (samples[Len(samples)] - samples[1])

(* A picture is offered at most PREVIEW_HZ times a second, and the newest one waits.  The  *)
(* writer is [last, pending], last = {} before the first.                                  *)
PREVIEW_MS == 200
offer(writer, now, frame) ==
    IF \E last \in writer.last : now - last < PREVIEW_MS THEN writer
    ELSE [last |-> {now}, pending |-> {frame}]
encoded(writer) == [writer EXCEPT !.pending = {}]

-----------------------------------------------------------------------------
(* The nearest rank of a percentile: Python rounds a half to the even number *)
round(a, b) ==
    LET floor == a \div b
        rest == 2 * (a % b)
    IN  IF rest < b \/ (rest = b /\ floor % 2 = 0) THEN floor ELSE floor + 1

(* {} when there are no samples, or {the sample} *)
percentile(samples, percent) ==
    LET rank == round(percent * (Len(samples) - 1), 100)
        below(v) == Cardinality({i \in DOMAIN samples : samples[i] < v})
        upto(v) == Cardinality({i \in DOMAIN samples : samples[i] <= v})
    IN  {v \in {samples[i] : i \in DOMAIN samples} : below(v) <= rank /\ rank < upto(v)}

(* the frames of an episode, {} when they cannot be counted; 0 frames are not saved *)
episode_buffer_size(buffer) == IF "size" \in DOMAIN buffer THEN {buffer.size} ELSE {}
Skips(buffer) == episode_buffer_size(buffer) = {0}

-----------------------------------------------------------------------------
(* The slow ticks in the log: LeRobot's warning is not counted the first time after an     *)
(* episode began.  A line is "episode", "slow" or "other".                                 *)
observe_log_line(state, line) ==
    CASE line = "episode" -> [state EXCEPT !.ignore = TRUE]
      [] line = "slow" -> IF state.ignore THEN [state EXCEPT !.ignore = FALSE]
                          ELSE [state EXCEPT !.warnings = @ + 1]
      [] OTHER -> state

slow_loop_warnings(log) ==
    LET upto[n \in 0 .. Len(log)] ==
            IF n = 0 THEN [ignore |-> FALSE, warnings |-> 0] ELSE observe_log_line(upto[n - 1], log[n])
    IN  upto[Len(log)].warnings

-----------------------------------------------------------------------------
(* The end of a recording: counts are added to the file's, a percentage is computed again *)

(* files from before total_seconds was kept say only how many frames came at which rate *)
Seconds(previous) ==
    IF previous.total_ms > 0 THEN previous.total_ms
    ELSE IF previous.total_frames > 0 /\ previous.loop_hz > 0 THEN (previous.total_frames * 1000) \div previous.loop_hz
    ELSE 0

merge_session_quality(session, previous) ==
    [total_frames |-> session.total_frames + previous.total_frames,
     total_ms |-> session.total_ms + Seconds(previous),
     episodes_aborted |-> session.episodes_aborted + previous.episodes_aborted,
     sensor_read_failures |-> session.sensor_read_failures + previous.sensor_read_failures,
     camera_stale_frames |-> Sum(session.camera_stale_frames, previous.camera_stale_frames),
     sensor_implausible |-> Sum(session.sensor_implausible, previous.sensor_implausible)]

Nothing == [total_frames |-> 0, total_ms |-> 0, episodes_aborted |-> 0, sensor_read_failures |-> 0,
            camera_stale_frames |-> <<>>, sensor_implausible |-> <<>>, loop_hz |-> 0, slow_loop_warnings |-> 0]

(* soarm_quality.json after the recording; file is {} or {the one before} *)
write_quality(file, resumed, session, runtime_hz, warnings) ==
    LET previous == IF resumed /\ file # {} THEN CHOOSE f \in file : TRUE ELSE Nothing
        merged == merge_session_quality(session, previous)
    IN  [total_frames |-> merged.total_frames, total_ms |-> merged.total_ms,
         episodes_aborted |-> merged.episodes_aborted, sensor_read_failures |-> merged.sensor_read_failures,
         camera_stale_frames |-> merged.camera_stale_frames, sensor_implausible |-> merged.sensor_implausible,
         camera_stale_pct |-> Percents(merged.camera_stale_frames, merged.total_frames),
         loop_hz |-> IF merged.total_frames > 0 /\ merged.total_ms > 0
                     THEN (merged.total_frames * 1000) \div merged.total_ms ELSE runtime_hz,
         slow_loop_warnings |-> warnings + previous.slow_loop_warnings]

append_provenance(history, entry) == Append(history, entry)

(* What the watcher does when a recording has ended: the dataset is the one that the status *)
(* names, whichever worker left that status, but resumed and the log are the recording's.   *)
archive(datasets, status, resumed, warnings) ==
    IF status = {} THEN datasets
    ELSE LET runtime == CHOOSE s \in status : TRUE IN
         [datasets EXCEPT ![runtime.dataset_name] =
            [quality |-> {write_quality(@.quality, resumed, runtime.session, runtime.loop_hz, warnings)},
             provenance |-> append_provenance(@.provenance, runtime.run)]]
=============================================================================
