------------------------------ MODULE Pipeline ------------------------------
(***************************************************************************)
(* What happens between a worker's start_step and its report: the three    *)
(* pipelines over one job's output and work directories.                   *)
(*   "mock"   worker/mock_pipeline.py                                      *)
(*   "real"   run_real_video_to_subtitle_pipeline                          *)
(*   "smoke"  run_real_media_smoke, an operator's own run                  *)
(* The directories are named after the job, not after the attempt: an      *)
(* attempt finds what an earlier one left there, and a tool that outlived  *)
(* its worker still writes there.  "smoke" is run again with the same root *)
(* by hand; a job's attempts follow a requeue.                             *)
(***************************************************************************)
EXTENDS Naturals, Sequences, Subtitles

CONSTANTS
    MaxAttempts,  \* bound: attempts over one directory
    Modes,        \* the pipelines that are run
    Requests,     \* the requested_outputs a job may carry
    Overlap       \* an attempt may begin while an earlier one is still at work

Supported == { "srt", "txt", "json" }
Attempts == 1 .. MaxAttempts

ASSUME PipelineAssumption ==
    /\ MaxAttempts \in Nat /\ Modes \subseteq { "mock", "real", "smoke" }
    /\ Supported \in Requests /\ Overlap \in BOOLEAN

VARIABLES
    files,    \* the job's directories
    quality,  \* quality_report.json
    attempt,  \* the attempts
    misled    \* history: attempts that met another's content under their own tools' names

vars == << files, quality, attempt, misled >>
-----------------------------------------------------------------------------
\* `of`: the attempt whose media the content goes back to.  "none" is a file
\* of no bytes, "part" one cut short anywhere, "blank" a transcript without words.
Absent == [ of |-> 0, data |-> "absent" ]
Content == { Absent } \cup [ of : Attempts, data : { "none", "part", "blank", "full" } ]

\* Mutant: Whisper's script writes straight into the outputs.
ProductInOutputs ==
    [ say |-> "speech", ffmpeg_generate |-> "video", ffprobe |-> "stdout",
      ffmpeg_extract_audio |-> "audio", mlx_whisper |-> "json" ]

Product ==
    [ say |-> "speech", ffmpeg_generate |-> "video", ffprobe |-> "stdout",
      ffmpeg_extract_audio |-> "audio", mlx_whisper |-> "raw" ]
Tools == DOMAIN Product
Files == Supported \cup { "speech", "video", "audio", "raw", "input_meta", "report", "logs" }

\* The stages of the functions, in their order.
RealStages == << "check", "ffprobe", "input_meta", "ffmpeg_extract_audio", "mlx_whisper",
                 "load", "txt", "json", "srt", "quality", "report" >>
Stages ==
    [ mock  |-> << "check", "input_meta", "audio", "txt", "json", "srt", "quality", "report" >>,
      real  |-> RealStages,
      smoke |-> << "say", "ffmpeg_generate" >> \o Tail(RealStages) ]

\* What build_quality_report looks at, and what the mock does.
Gated == [ mock |-> Supported, real |-> Supported \cup { "input_meta", "audio", "logs" },
           smoke |-> Supported \cup { "input_meta", "audio", "logs" } ]

\* "hung" is a tool that will not end by itself, "orphan" one that outlives
\* the worker that was waiting for it.
Active == { "go", "tool", "hung" }
Ended == { "complete", "fail", "rescue", "killed" }
Attempt ==
    [ state : { "idle", "orphan" } \cup Active \cup Ended, mode : Modes, requested : Requests,
      at : Nat, held : Content, passed : BOOLEAN ]
NoReport == [ of |-> 0, status |-> "absent", failing |-> {} ]

TypeOK ==
    /\ files \in [Files -> Content]
    /\ quality \in [ of : 0 .. MaxAttempts, status : { "absent", "passed", "failed" },
                     failing : SUBSET Files ]
    /\ attempt \in [Attempts -> Attempt] /\ misled \subseteq Attempts
    /\ \A a \in Attempts : attempt[a].at \in 1 .. Len(Stages[attempt[a].mode]) + 1

Init ==
    /\ files = [f \in Files |-> Absent]
    /\ quality = NoReport /\ misled = {}
    /\ attempt \in [Attempts -> [ state : {"idle"}, mode : Modes, requested : Requests,
                                  at : {1}, held : {Absent}, passed : {FALSE} ]]
    /\ \A a \in Attempts :   \* the requested outputs are the job's, the mode the worker's
         /\ attempt[a].requested = attempt[1].requested
         /\ attempt[a].mode = "smoke" <=> attempt[1].mode = "smoke"
         /\ attempt[a].mode = "smoke" => attempt[a].requested = Supported
-----------------------------------------------------------------------------
Stage(a) == LET p == attempt[a] IN
    IF p.at > Len(Stages[p.mode]) THEN "end" ELSE Stages[p.mode][p.at]
At(a, state, stages) == attempt[a].state = state /\ Stage(a) \in stages

\* The attempt goes on to the next stage with what it holds in memory now.
Onward(a, held) ==
    attempt' = [attempt EXCEPT ![a].state = "go", ![a].at = @ + 1, ![a].held = held]
\* It ends, and its locals with it.
End(a, state) ==
    attempt' = [attempt EXCEPT ![a].state = state, ![a].at = 1, ![a].held = Absent, ![a].passed = FALSE]

Exists(f) == files[f].data # "absent"
NonEmpty(f) == files[f].data \notin { "absent", "none" }

\* The attempts that have begun.
Begun == { a \in Attempts : attempt[a].state # "idle" }

\* A write that is cut short: the file was opened for writing or not.
Torn(a, f) ==
    files' \in { files, [files EXCEPT ![f] = [of |-> a, data |-> "part"]] }
-----------------------------------------------------------------------------
\* Nothing waits for an orphan: the attempts after it begin, and work, next to it.
Start(a) ==
    /\ attempt[a].state = "idle"
    /\ \A b \in 1 .. a - 1 :
         attempt[b].state \in Ended \cup {"orphan"} \/ (Overlap /\ attempt[b].state # "idle")
    /\ attempt' = [attempt EXCEPT ![a].state = "go"]
    /\ UNCHANGED << files, quality, misled >>

\* Mutant: the requested outputs are not looked at.
CheckAnything(a) ==
    /\ At(a, "go", {"check"})
    /\ Onward(a, [of |-> a, data |-> "full"])
    /\ UNCHANGED << files, quality, misled >>

\* The start of the two worker pipelines: requested outputs, then the input.
\* The mock returns a failed result, the real one raises.
Check(a) ==
    LET p == attempt[a] IN
    /\ At(a, "go", {"check"})
    /\ \/ ~(p.requested \subseteq Supported) /\ End(a, IF p.mode = "mock" THEN "fail" ELSE "rescue")
       \/ p.requested \subseteq Supported /\ p.mode = "real" /\ End(a, "rescue")
       \/ p.requested \subseteq Supported /\ Onward(a, [of |-> a, data |-> "full"])
    /\ UNCHANGED << files, quality, misled >>

\* What a tool reads: the submitted video, or what the stages before made.
Input(a) ==
    CASE Stage(a) = "mlx_whisper"     -> files["audio"]
      [] Stage(a) = "ffmpeg_generate" -> files["speech"]
      [] Stage(a) \in { "ffprobe", "ffmpeg_extract_audio" } /\ attempt[a].mode = "smoke"
                                      -> files["video"]
      [] OTHER                        -> [of |-> a, data |-> "full"]

\* subprocess.run: the tool starts, or cannot be started.
Spawn(a) ==
    /\ At(a, "go", Tools)
    /\ \E s \in { "tool", "hung", "rescue" } :
         attempt' = [attempt EXCEPT ![a].state = s, ![a].held = Input(a)]
    /\ UNCHANGED << files, quality, misled >>

\* What a tool that ended well leaves: Whisper's script writes its result last;
\* nobody looks at the size of speech.aiff and demo.mp4.
Results == [ mlx_whisper |-> { "full", "blank" }, ffprobe |-> { "none", "full" },
             ffmpeg_extract_audio |-> { "none", "full" },
             say |-> { "full" }, ffmpeg_generate |-> { "full" } ]

\* The effect of a tool on its product.  One whose input is missing fails
\* before it opens its output.
Produces(a, d) ==
    LET f == Product[Stage(a)]
    IN  IF f = "stdout" THEN files ELSE [files EXCEPT ![f] = [of |-> attempt[a].held.of, data |-> d]]
HasInput(a) == attempt[a].held.data # "absent"
Writes(a, data) == IF HasInput(a) THEN { Produces(a, d) : d \in data } ELSE {}

\* What lies there after a tool that was stopped, and after one in any case.
Spoilt(a) == { files } \cup Writes(a, {"part"})
Whatever(a) == { files } \cup Writes(a, Results[Stage(a)] \cup {"part"})

\* The two log files; one that has content keeps some.
Logged(fs, a, text) ==
    IF text THEN [fs EXCEPT !["logs"] = [of |-> a, data |-> "full"]] ELSE fs

\* The tool made its product and ended with 0.
ToolSucceeds(a) ==
    /\ HasInput(a)
    /\ \E d \in Results[Stage(a)], text \in BOOLEAN :
         /\ files' = Logged(Produces(a, d), a, text \/ (Stage(a) = "ffprobe" /\ d = "full"))
         /\ Onward(a, [of |-> attempt[a].held.of, data |-> d])
    /\ UNCHANGED << quality, misled >>

\* It ended with 0 and wrote nothing: what lay under its product's name, if
\* anything did, lies there still.  Only the exit code is looked at.
ToolDoesNothing(a) ==
    LET f == Product[Stage(a)] IN
    /\ f # "stdout"
    /\ \E text \in BOOLEAN : files' = Logged(files, a, text)
    /\ Onward(a, attempt[a].held)
    /\ misled' = IF Exists(f) THEN misled \cup {a} ELSE misled
    /\ UNCHANGED quality

\* Mutant: the exit code is not looked at.
ToolExitsIgnored(a) ==
    /\ At(a, "tool", Tools)
    /\ \/ ToolSucceeds(a)
       \/ ToolDoesNothing(a)
       \/ /\ HasInput(a) /\ files' = Logged(Produces(a, "part"), a, TRUE)
          /\ Onward(a, [of |-> attempt[a].held.of, data |-> "full"])
          /\ UNCHANGED << quality, misled >>

\* The tool ends by itself and _run_command goes on or raises: a non-zero
\* exit code, output that is not text, a log that cannot be written.
ToolExits(a) ==
    /\ At(a, "tool", Tools)
    /\ \/ ToolSucceeds(a)
       \/ ToolDoesNothing(a)
       \/ /\ \E fs \in Whatever(a), text \in BOOLEAN : files' = Logged(fs, a, text)
          /\ End(a, "rescue")
          /\ UNCHANGED << quality, misled >>

\* Mutant: subprocess.run without a timeout.
NoTimeout(a) == FALSE

\* subprocess.run kills the tool after timeout_seconds.
Timeout(a) ==
    /\ attempt[a].state \in { "tool", "hung" }
    /\ \E fs \in Spoilt(a), text \in BOOLEAN : files' = Logged(fs, a, text)
    /\ End(a, "rescue")
    /\ UNCHANGED << quality, misled >>

\* The worker reads Whisper's result; what is not JSON raises.
Load(a) ==
    /\ At(a, "go", {"load"})
    /\ IF files["raw"].data \in { "full", "blank" } THEN Onward(a, files["raw"]) ELSE End(a, "rescue")
    /\ UNCHANGED << files, quality, misled >>

\* Mutant: a file that is there already is kept.
WriteKeeping(a) ==
    LET f == Stage(a) IN
    /\ At(a, "go", Files)
    /\ files' = IF NonEmpty(f) THEN files ELSE [files EXCEPT ![f] = attempt[a].held]
    /\ Onward(a, attempt[a].held)
    /\ UNCHANGED << quality, misled >>

\* One file is written.  The mock publishes the requested outputs only.
Write(a) ==
    LET f == Stage(a)
        p == attempt[a]
    IN
    /\ At(a, "go", Files)
    /\ \/ /\ p.mode = "mock" /\ f \in Supported \ p.requested
          /\ Onward(a, p.held) /\ UNCHANGED files
       \/ /\ ~(p.mode = "mock" /\ f \in Supported \ p.requested)
          /\ \/ files' = [files EXCEPT ![f] = p.held] /\ Onward(a, p.held)
             \/ Torn(a, f) /\ End(a, "rescue")
    /\ UNCHANGED << quality, misled >>

\* Mutant: a missing artifact is only warned about.
StatusWarning(mode, failing) == IF mode = "mock" \/ failing = {} THEN "passed" ELSE "warning"

\* The mock's status is a constant, whatever its checks say.
Status(mode, failing) == IF mode = "mock" \/ failing = {} THEN "passed" ELSE "failed"

\* What a check finds: the mock asks for a file, the others for one with content.
Found(mode, f) == IF mode = "mock" THEN Exists(f) ELSE NonEmpty(f)

\* build_quality_report, and the write of quality_report.json.
QualityGate(a) ==
    LET failing == { f \in Gated[attempt[a].mode] : ~Found(attempt[a].mode, f) }
        status  == Status(attempt[a].mode, failing)
    IN
    /\ At(a, "go", {"quality"})
    /\ \/ /\ quality' = [of |-> a, status |-> status, failing |-> failing]
          /\ attempt' = [attempt EXCEPT ![a].at = @ + 1, ![a].passed = (status = "passed")]
       \/ quality' \in { quality, NoReport } /\ End(a, "rescue")
    /\ UNCHANGED << files, misled >>

\* The return, after both reports were written.
Verdict(a) ==
    /\ At(a, "go", {"end"})
    /\ End(a, IF attempt[a].passed THEN "complete" ELSE "rescue")
    /\ UNCHANGED << files, quality, misled >>

\* The worker is killed: the write it is at is cut short, its tool goes on.
Kill(a) ==
    /\ attempt[a].state \in Active
    /\ \/ /\ attempt[a].state = "go" /\ End(a, "killed")
          /\ IF Stage(a) \in Files THEN Torn(a, Stage(a)) ELSE UNCHANGED files
       \/ /\ attempt[a].state \in { "tool", "hung" }
          /\ attempt' = [attempt EXCEPT ![a].state = "orphan"]
          /\ UNCHANGED files
    /\ UNCHANGED << quality, misled >>

\* A tool that outlived its worker writes, and may end.  Whoever began after
\* it and works on the same files does not notice.
OrphanWrites(a) ==
    /\ attempt[a].state = "orphan"
    /\ files' \in Whatever(a)
    /\ End(a, "killed") \/ UNCHANGED attempt
    /\ misled' = IF files' = files THEN misled ELSE misled \cup { b \in Begun : b > a }
    /\ UNCHANGED quality
-----------------------------------------------------------------------------
Step(a) ==
    \/ Check(a) \/ Spawn(a) \/ ToolExits(a) \/ Timeout(a) \/ Load(a)
    \/ Write(a) \/ QualityGate(a) \/ Verdict(a)

Next == \E a \in Attempts : Start(a) \/ Step(a) \/ Kill(a) \/ OrphanWrites(a)

\* A worker that is not killed goes on; that a tool ends is not assumed.
Spec == Init /\ [][Next]_vars
FairSpec == Spec /\ \A a \in Attempts : WF_vars(Step(a))
-----------------------------------------------------------------------------
\* No attempt has begun after a.
Latest(a) == \A b \in Attempts : b > a => attempt[b].state = "idle"

\* An attempt that reports completion has published its own results and
\* nothing of what an earlier one left behind: every file it is judged by goes
\* back to this attempt's media and is whole, and the report next to them is
\* its own (worker/real_media_smoke.py, the exit codes and the quality gate).
\* Excepted is an attempt next to which an orphan wrote, or one of whose tools
\* wrote nothing where something lay: the code looks at sizes, not at whose
\* the content is.  A tool that wrote nothing where nothing lay is caught.
CompletedIsFresh ==
    \A a \in Attempts : attempt[a].state = "complete" /\ Latest(a) /\ a \notin misled =>
        /\ \A f \in Gated[attempt[a].mode] \cap (IF attempt[a].mode = "mock"
                                                   THEN attempt[a].requested ELSE Files) :
             files[f].of = a /\ files[f].data \in { "full", "blank" }
        /\ quality.of = a /\ quality.status = "passed"

\* Each output the job asked for is there when the step is completed, for any
\* list of outputs the Controller accepted, whole, and all of the same media:
\* also next to an orphan, in the middle of whose writes they were made.
RequestedPublished ==
    \A a \in Attempts : attempt[a].state = "complete" /\ Latest(a) =>
        \E x \in Attempts : \A o \in attempt[a].requested :
            o \in Files /\ files[o].of = x /\ files[o].data \in { "full", "blank" }

\* Whatever Whisper heard in whichever segments, the cues of a completed
\* attempt's subtitle.srt can be read and are at the times of the segments, and
\* formatting puts nothing out of order that Whisper had in order.
SubtitlesReadable ==
    \A a \in Attempts :
        attempt[a].state = "complete" /\ attempt[a].mode # "mock" => TimestampsExact /\ OrderKept

\* plan.md, quality_check: "SRT timestamps are monotonic" is among the minimum
\* checks of a job that passed.  The code does not make it: what Whisper put out
\* of order passes.  This does not hold.
PassedSubtitleIsMonotonic ==
    \A a \in Attempts :
        attempt[a].state = "complete" /\ attempt[a].mode # "mock" =>
            \A segs \in Transcripts : Monotonic(SegmentsToSrt(segs))

\* An attempt ends, also with a tool that never would: subprocess.run's
\* timeout is what gets the worker back to its loop and its heartbeats.
AttemptEnds ==
    \A a \in Attempts : attempt[a].state \in Active ~> attempt[a].state \notin Active

\* plan.md, quality_check: "subtitle text is not empty" is among the minimum
\* checks of a job that passed.  The code does not make it: this does not hold.
PassedSubtitleHasText ==
    \A a \in Attempts : attempt[a].state = "complete" /\ Latest(a) => files["srt"].data # "blank"

\* plan.md, acceptance criterion 21: a stale attempt cannot publish final
\* outputs.  What a completed attempt published stays as it published it until
\* a later attempt begins, whatever the tools of killed attempts still write.
\* It does not hold for workers that are at work on the job at the same time.
StaleAttemptPublishesNothing ==
    [][\A a \in Attempts, o \in Supported :
         attempt[a].state = "complete" /\ (\A b \in Attempts : b > a => attempt'[b].state = "idle")
             => files'[o] = files[o]]_vars
-----------------------------------------------------------------------------
\* The attempt that began last, and whether a reader is told that it completed.
LatestBegun == CHOOSE a \in Begun \cup {0} : \A b \in Begun : b <= a
Completed == LatestBegun # 0 /\ attempt[LatestBegun].state = "complete"

\* Whose output a reader finds who looks only after a completion.
AuthorOf(o) ==
    IF Completed /\ o \in Files /\ files[o].data \in { "full", "blank" } THEN files[o].of ELSE 0

Promise == INSTANCE Publication WITH
    wanted <- attempt[1].requested, latest <- LatestBegun, stray <- LatestBegun \in misled,
    complete <- Completed, outputs <- [o \in attempt[1].requested |-> AuthorOf(o)]

\* Of all that the stages, tools, time-outs and kills of several attempts do to
\* the directories, a reader who waits for completion sees Publication: all
\* requested outputs replaced at once, by what the attempt that completes made
\* of its own media or, if it was misled, of one other attempt's.
OutputsPromised == Promise!Spec
=============================================================================
