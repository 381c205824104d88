--------------------------- MODULE QualityChecks ---------------------------
(***************************************************************************)
(* What the summary of a recording says, over bounded inputs.  TLC         *)
(* evaluates the assumptions when it starts a run of a module that extends *)
(* this one.                                                               *)
(***************************************************************************)
EXTENDS Quality

LOCAL Cameras == {"scene", "wrist"}
LOCAL Frames == [stale : SUBSET Cameras, read_ok : BOOLEAN, temperature : {<<0, 30>>, <<71, 30>>, <<30, 30>>}, voltage : {<<12>>, <<4>>}]
LOCAL Some == {f \in Frames : f.read_ok = (f.stale = {}) /\ (f.voltage = <<4>> => f.temperature = <<71, 30>>)}
LOCAL UpTo(S, n) == UNION {[1 .. k -> S] : k \in 0 .. n}
LOCAL Episode(frames, ms) == [Counted(Cameras, frames) EXCEPT !.total_ms = ms, !.episodes_aborted = Len(frames)]
LOCAL Add(f, g) == [x \in DOMAIN f |-> f[x] + g[x]]

(* A dataset recorded in two sessions is told as if it had been one: every *)
(* count is the count over all its frames (_merge_session_quality,         *)
(* _write_quality), the percentage of stale frames is between 0 and 100    *)
(* and is that of all the frames, and the rate lies between the rates of   *)
(* the two sessions.                                                       *)
ASSUME SessionsAddUp ==
    \A a \in UpTo(Some, 2), b \in UpTo(Some, 2), slow \in 0 .. 1 :
        LET ms(frames, each) == Len(frames) * each
            first == write_quality({}, FALSE, Episode(a, ms(a, 40)), 0, slow)
            both == write_quality({first}, TRUE, Episode(b, ms(b, 100)), 0, 2)
            one == Episode(a \o b, ms(a, 40) + ms(b, 100))
        IN  /\ \A key \in DOMAIN one : both[key] = one[key]
            /\ both.slow_loop_warnings = slow + 2
            /\ \A c \in Cameras : /\ both.camera_stale_pct[c] \in 0 .. 100
                                  /\ both.camera_stale_pct[c] = 100 <=> a \o b # <<>> /\ \A i \in DOMAIN (a \o b) : c \in (a \o b)[i].stale
            /\ a \o b # <<>> => both.loop_hz \in 10 .. 25

(* A file of before total_seconds was kept joins with the time its frames  *)
(* took (_merge_session_quality).                                          *)
ASSUME OldFilesJoin ==
    \A frames \in 0 .. 60, hz \in 1 .. 31 :
        LET old == [Nothing EXCEPT !.total_frames = frames, !.loop_hz = hz]
            merged == merge_session_quality(Episode(<<>>, 0), old)
        IN  merged.total_ms * hz <= frames * 1000 /\ frames * 1000 < (merged.total_ms + 1) * hz

(* Each recording that reaches its first status is told once in the        *)
(* history of its dataset and once in the counts (_archive_log).           *)
LOCAL Status(name, run, frames) ==
    [dataset_name |-> name, run |-> run, loop_hz |-> 25, session |-> Episode(frames, 40 * Len(frames))]
LOCAL Empty == [name \in {"a", "b"} |-> [quality |-> {}, provenance |-> <<>>]]
LOCAL Frame == [stale |-> {}, read_ok |-> TRUE, temperature |-> <<30>>, voltage |-> <<12>>]

ASSUME EachRunIsTold ==
    \A name \in {"a", "b"}, other \in {"a", "b"}, n \in 1 .. 2 :
        LET first == archive(Empty, {Status("a", 1, <<Frame>>)}, FALSE, 1)
            second == archive(first, {Status(name, 2, [i \in 1 .. n |-> Frame])}, name = "a", 1)
            Of(dataset) == CHOOSE q \in dataset.quality : TRUE
        IN  IF name = "a"
            THEN /\ second["a"].provenance = <<1, 2>> /\ second["b"] = Empty["b"]
                 /\ Of(second["a"]).total_frames = 1 + n /\ Of(second["a"]).slow_loop_warnings = 2
            ELSE second["a"] = first["a"] /\ second["b"].provenance = <<2>> /\ Of(second["b"]).total_frames = n

(* A worker that dies before its first status leaves the status of the     *)
(* recording before it, and the watcher archives that one again            *)
(* (record_manager.py:357): a resumed dataset counts its last frames       *)
(* twice, whichever dataset the dead worker was to record.                 *)
ASSUME DeadWorkerCountsTwice ==
    LET status == {Status("a", 1, <<Frame>>)}
        first == archive(Empty, status, FALSE, 0)
        again == archive(first, status, TRUE, 0)
    IN  again["a"].provenance = <<1, 1>> /\ \A q \in again["a"].quality : q.total_frames = 2

(* A slow tick is counted unless it is the first one since the episode     *)
(* began (_observe_log_line).                                              *)
ASSUME FirstSlowTickIsLeftOut ==
    \A log \in UpTo({"episode", "slow", "other"}, 5) :
        LET slow == {i \in DOMAIN log : log[i] = "slow"}
            Excused(i) == \E e \in 1 .. i - 1 : log[e] = "episode" /\ \A k \in e + 1 .. i - 1 : log[k] # "slow"
        IN  slow_loop_warnings(log) = Cardinality({i \in slow : ~Excused(i)})

(* The percentile is a read that took place, and at least that share of    *)
(* the reads took no longer (_percentile).                                 *)
ASSUME PercentileTookPlace ==
    \A samples \in UpTo(0 .. 3, 5), percent \in {0, 50, 99, 100} :
        LET found == percentile(samples, percent)
            Within(v) == Cardinality({i \in DOMAIN samples : samples[i] <= v})
        IN  /\ Cardinality(found) = (IF samples = <<>> THEN 0 ELSE 1)
            /\ \A v \in found : /\ \E i \in DOMAIN samples : samples[i] = v
                                /\ 100 * Within(v) >= percent * (Len(samples) - 1)

(* The window of the rate is three seconds, whatever gaps the ticks have,  *)
(* and a preview is offered at most five times a second (tick, offer).     *)
LOCAL TickTimes(gaps) ==
    LET run[n \in 0 .. Len(gaps)] ==
            IF n = 0 THEN [now |-> 0, samples |-> <<>>, writer |-> [last |-> {}, pending |-> {}], offered |-> {}]
            ELSE LET before == run[n - 1]
                     now == before.now + gaps[n]
                     writer == offer(encoded(before.writer), now, n)
                 IN  [now |-> now, samples |-> tick(before.samples, now), writer |-> writer,
                      offered |-> before.offered \cup (IF writer.pending = {} THEN {} ELSE {now})]
    IN  run[Len(gaps)]

ASSUME WindowsAreShort ==
    \A gaps \in UpTo({33, 150, 1400, 3100}, 5) :
        LET end == TickTimes(gaps) IN
        /\ \A i \in DOMAIN end.samples : end.now - end.samples[i] <= WINDOW_MS
        /\ rate(end.samples) <= 31000
        /\ rate(end.samples) > 0 <=> Len(gaps) > 1 /\ gaps[Len(gaps)] <= WINDOW_MS
        /\ \A t \in end.offered, u \in end.offered : t = u \/ t - u >= PREVIEW_MS \/ u - t >= PREVIEW_MS

(* The values of a frame that could not be read are those of the last one  *)
(* that could, and the frame says which (SensorReader._refresh).           *)
ASSUME RepeatedReadsAreMarked ==
    \A reads \in UpTo({{}, {1}, {2}}, 4), enabled \in BOOLEAN :
        LET run[n \in 0 .. Len(reads)] ==
                IF n = 0 THEN [values |-> 0, read_ok |-> FALSE, read_failures |-> 0]
                ELSE refresh(run[n - 1], enabled, reads[n])
            good == IF enabled THEN {i \in DOMAIN reads : reads[i] # {}} ELSE {}
            end == run[Len(reads)]
        IN  /\ end.read_ok <=> Len(reads) \in good
            /\ IF good = {} THEN end.values = 0
               ELSE {end.values} = reads[CHOOSE i \in good : \A k \in good : k <= i]
            /\ enabled => end.read_failures = Len(reads) - Cardinality(good)

(* A camera that hands out the same buffer again has no new frame          *)
(* (_camera_freshness), and an episode is skipped only when it is known to *)
(* be empty (_episode_buffer_size).                                        *)
ASSUME SameBufferIsStale ==
    \A buffers \in UpTo(0 .. 1, 4) : \A i \in DOMAIN buffers :
        LET last == IF i = 1 THEN <<>> ELSE <<buffers[i - 1]>> IN
        camera_freshness(last, <<buffers[i]>>)[1] <=> i = 1 \/ buffers[i] # buffers[i - 1]
ASSUME UnknownIsNotEmpty == ~Skips(<<>>) /\ Skips([size |-> 0]) /\ ~Skips([size |-> 1])
=============================================================================
