-------------------------- MODULE Pipeline_proofs --------------------------
(***************************************************************************)
(* The safety properties of Pipeline, for any number of attempts, any      *)
(* choice of the pipelines and any requested outputs: type correctness     *)
(* with and without workers at work at the same time; what a completed     *)
(* attempt has published and what becomes of it as long as one worker at a *)
(* time is, next to whatever the tools of killed ones still write; and the *)
(* conversion of its subtitles.                                            *)
(***************************************************************************)
EXTENDS Pipeline, Integers, TLAPS

Names == { "check", "say", "ffmpeg_generate", "ffprobe", "input_meta", "ffmpeg_extract_audio",
           "audio", "mlx_whisper", "load", "txt", "json", "srt", "quality", "report" }
Pipelines == { "mock", "real", "smoke" }
-----------------------------------------------------------------------------
(***************************************************************************)
(* The lists of stages.                                                    *)
(***************************************************************************)
\* Sequences of stages appended: each part keeps its order.
LEMMA Concat ==
    ASSUME NEW S \in Seq(Names), NEW T \in Seq(Names), NEW C, C = S \o T
    PROVE  /\ C \in Seq(Names) /\ Len(C) = Len(S) + Len(T)
           /\ Len(S) \in Nat /\ Len(T) \in Nat
           /\ \A j \in 1 .. Len(S) : C[j] = S[j]
           /\ \A j \in Len(S) + 1 .. Len(S) + Len(T) : C[j] = T[j - Len(S)]
OBVIOUS

\* The same stages without the first.
LEMMA TailIs ==
    ASSUME NEW S \in Seq(Names), S # << >>, NEW T, T = Tail(S)
    PROVE  /\ T \in Seq(Names) /\ Len(T) = Len(S) - 1
           /\ \A j \in 1 .. Len(S) - 1 : T[j] = S[j + 1]
OBVIOUS

\* The stages of the mock.
LEMMA MockStagesAre ==
    /\ Stages.mock \in Seq(Names) /\ Len(Stages.mock) = 8
    /\ Stages.mock[1] = "check" /\ Stages.mock[2] = "input_meta" /\ Stages.mock[3] = "audio"
    /\ Stages.mock[4] = "txt" /\ Stages.mock[5] = "json" /\ Stages.mock[6] = "srt"
    /\ Stages.mock[7] = "quality" /\ Stages.mock[8] = "report"
<1>1. Stages.mock = << "check", "input_meta", "audio", "txt", "json", "srt", "quality", "report" >>
  BY DEF Stages
<1> QED
  BY <1>1 DEF Names

\* The stages of run_real_video_to_subtitle_pipeline.
LEMMA RealStagesAre ==
    /\ RealStages \in Seq(Names) /\ Len(RealStages) = 11
    /\ RealStages[1] = "check" /\ RealStages[2] = "ffprobe" /\ RealStages[3] = "input_meta"
    /\ RealStages[4] = "ffmpeg_extract_audio" /\ RealStages[5] = "mlx_whisper"
    /\ RealStages[6] = "load" /\ RealStages[7] = "txt" /\ RealStages[8] = "json"
    /\ RealStages[9] = "srt" /\ RealStages[10] = "quality" /\ RealStages[11] = "report"
<1>1. RealStages = << "check", "ffprobe", "input_meta", "ffmpeg_extract_audio", "mlx_whisper",
                      "load", "txt", "json", "srt", "quality", "report" >>
  BY DEF RealStages
<1> QED
  BY <1>1 DEF Names

\* run_real_media_smoke makes its input itself and goes on as the real one.
LEMMA SmokeStagesAre ==
    /\ Stages.smoke \in Seq(Names) /\ Len(Stages.smoke) = 12
    /\ Stages.smoke[1] = "say" /\ Stages.smoke[2] = "ffmpeg_generate"
    /\ Stages.smoke[3] = "ffprobe" /\ Stages.smoke[4] = "input_meta"
    /\ Stages.smoke[5] = "ffmpeg_extract_audio" /\ Stages.smoke[6] = "mlx_whisper"
    /\ Stages.smoke[7] = "load" /\ Stages.smoke[8] = "txt" /\ Stages.smoke[9] = "json"
    /\ Stages.smoke[10] = "srt" /\ Stages.smoke[11] = "quality" /\ Stages.smoke[12] = "report"
<1>1. /\ << "say", "ffmpeg_generate" >> \in Seq(Names) /\ Len(<< "say", "ffmpeg_generate" >>) = 2
      /\ << "say", "ffmpeg_generate" >>[1] = "say"
      /\ << "say", "ffmpeg_generate" >>[2] = "ffmpeg_generate"
  BY DEF Names
<1>2. PICK S \in Seq(Names) : S = << "say", "ffmpeg_generate" >>
  BY <1>1
<1>3. PICK R \in Seq(Names) : R = RealStages
  BY RealStagesAre
<1>4. Len(R) = 11
  BY <1>3, RealStagesAre
<1>5. R # << >>
  <2>1. ASSUME R = << >> PROVE Len(R) = 0
    BY <2>1
  <2> QED
    BY <1>4, <2>1
<1>6. PICK T : T = Tail(R)
  OBVIOUS
<1>7. /\ T \in Seq(Names) /\ Len(T) = Len(R) - 1
      /\ \A j \in 1 .. Len(R) - 1 : T[j] = R[j + 1]
  BY <1>5, <1>6, TailIs
<1>8. Len(T) = 10
  BY <1>4, <1>7
<1>9. Len(S) = 2
  BY <1>1, <1>2
<1>10. Stages.smoke = S \o T
  BY <1>2, <1>3, <1>6 DEF Stages
<1>11. /\ Stages.smoke \in Seq(Names) /\ Len(Stages.smoke) = Len(S) + Len(T)
       /\ \A j \in 1 .. Len(S) : Stages.smoke[j] = S[j]
       /\ \A j \in Len(S) + 1 .. Len(S) + Len(T) : Stages.smoke[j] = T[j - Len(S)]
  <2>1. PICK C : C = S \o T
    OBVIOUS
  <2>2. T \in Seq(Names)
    BY <1>7
  <2>3. /\ C \in Seq(Names) /\ Len(C) = Len(S) + Len(T)
        /\ \A j \in 1 .. Len(S) : C[j] = S[j]
        /\ \A j \in Len(S) + 1 .. Len(S) + Len(T) : C[j] = T[j - Len(S)]
    BY <2>1, <2>2, Concat
  <2>4. Stages.smoke = C
    BY <1>10, <2>1
  <2> QED
    BY <2>3, <2>4
<1>12. /\ Stages.smoke \in Seq(Names) /\ Len(Stages.smoke) = 12
       /\ Stages.smoke[1] = "say" /\ Stages.smoke[2] = "ffmpeg_generate"
  BY <1>1, <1>2, <1>8, <1>9, <1>11
<1>13. ASSUME NEW n \in 3 .. 12 PROVE Stages.smoke[n] = RealStages[n - 1]
  <2>1. n \in Len(S) + 1 .. Len(S) + Len(T) /\ n - Len(S) = n - 2
    BY <1>8, <1>9
  <2>2. Stages.smoke[n] = T[n - 2]
    BY <2>1, <1>11
  <2>3. n - 2 \in 1 .. Len(R) - 1 /\ (n - 2) + 1 = n - 1
    BY <1>4
  <2> QED
    BY <2>2, <2>3, <1>3, <1>7
<1>14. \A n \in 3 .. 12 : Stages.smoke[n] = RealStages[n - 1]
  BY <1>13
<1>15. /\ Stages.smoke[3] = RealStages[2] /\ Stages.smoke[4] = RealStages[3]
       /\ Stages.smoke[5] = RealStages[4] /\ Stages.smoke[6] = RealStages[5]
       /\ Stages.smoke[7] = RealStages[6] /\ Stages.smoke[8] = RealStages[7]
       /\ Stages.smoke[9] = RealStages[8] /\ Stages.smoke[10] = RealStages[9]
       /\ Stages.smoke[11] = RealStages[10] /\ Stages.smoke[12] = RealStages[11]
  BY <1>14
<1> QED
  BY <1>12, <1>15, RealStagesAre

\* The lists as a whole.
LEMMA StagesAre ==
    ASSUME NEW m \in Pipelines
    PROVE  /\ Stages[m] \in Seq(Names) /\ Len(Stages[m]) \in Nat \ {0}
           /\ \A n \in 1 .. Len(Stages[m]) : Stages[m][n] \in Names
<1>1. Stages.real = RealStages
  BY DEF Stages
<1>2. Stages[m] \in Seq(Names) /\ Len(Stages[m]) \in { 8, 11, 12 }
  <2>1. CASE m = "mock"
    BY <2>1, MockStagesAre
  <2>2. CASE m = "real"
    BY <1>1, <2>2, RealStagesAre
  <2>3. CASE m = "smoke"
    BY <2>3, SmokeStagesAre
  <2> QED
    BY <2>1, <2>2, <2>3 DEF Pipelines
<1>3. PICK S \in Seq(Names) : S = Stages[m]
  BY <1>2
<1>4. \A n \in 1 .. Len(S) : S[n] \in Names
  OBVIOUS
<1> QED
  BY <1>2, <1>3, <1>4

\* Which stage comes before which: what the code has just done when it comes to
\* a stage ...
Follows(m, s, t) ==
    /\ t \notin { "check", "say" }
    /\ m = "mock" => t \notin Tools \cup { "load" }
    /\ t = "audio" => m = "mock"
    /\ s # "report" /\ (s = "quality" => t = "report")
    /\ t = "json" => s = "txt"
    /\ t = "srt" => s = "json"
    /\ t = "quality" => s = "srt"
    /\ t = "report" => s = "quality"
    /\ m # "mock" /\ t = "input_meta" => s = "ffprobe"
    /\ m # "mock" /\ t = "txt" => s = "load"

\* ... and which stages lie behind it.
Needs(m, t) ==
    CASE t = "ffmpeg_generate"      -> { "say" }
      [] t \in { "ffprobe", "ffmpeg_extract_audio" } /\ m = "smoke" -> { "ffmpeg_generate" }
      [] t = "mlx_whisper"          -> { "ffmpeg_extract_audio" }
      [] t = "load"                 -> { "mlx_whisper" }
      [] t = "quality" /\ m # "mock" -> { "input_meta", "ffmpeg_extract_audio" }
      [] OTHER                      -> {}

Ordered(m, S, L) ==
    /\ \A n \in 1 .. L : n < L => Follows(m, S[n], S[n + 1])
    /\ \A n \in 1 .. L : \A s \in Needs(m, S[n]) : \E j \in 1 .. L : j < n /\ S[j] = s
    /\ \E n \in 1 .. L : S[n] = "quality"
    /\ S[1] = IF m = "smoke" THEN "say" ELSE "check"
    /\ S[L] = "report"
-----------------------------------------------------------------------------
\* The deterministic pipeline writes all it checks before it checks it.
LEMMA MockOrder == Ordered("mock", Stages.mock, 8)
<1>1. /\ Follows("mock", "check", "input_meta")
      /\ Follows("mock", "input_meta", "audio")
      /\ Follows("mock", "audio", "txt")
      /\ Follows("mock", "txt", "json")
      /\ Follows("mock", "json", "srt")
      /\ Follows("mock", "srt", "quality")
      /\ Follows("mock", "quality", "report")
  BY DEF Follows, Tools, Product
<1>2. ASSUME NEW n \in 1 .. 8, n < 8 PROVE Follows("mock", Stages.mock[n], Stages.mock[n + 1])
  <2>1. n = 1 \/ n = 2 \/ n = 3 \/ n = 4 \/ n = 5 \/ n = 6 \/ n = 7
    BY <1>2
  <2> QED
    BY <2>1, <1>1, MockStagesAre, SMTT(60)
<1>3. \A t \in { "check", "input_meta", "audio", "txt", "json", "srt", "quality", "report" }
        : Needs("mock", t) = {}
  BY DEF Needs
<1>4. ASSUME NEW n \in 1 .. 8 PROVE Needs("mock", Stages.mock[n]) = {}
  <2>1. n = 1 \/ n = 2 \/ n = 3 \/ n = 4 \/ n = 5 \/ n = 6 \/ n = 7 \/ n = 8
    OBVIOUS
  <2> QED
    BY <2>1, <1>3, MockStagesAre
<1>5. Stages.mock[1] = "check" /\ Stages.mock[7] = "quality" /\ Stages.mock[8] = "report"
  BY MockStagesAre
<1> QED
  BY <1>2, <1>4, <1>5 DEF Ordered

\* The real pipeline has measured, extracted, transcribed and written before it checks.
LEMMA RealOrder == Ordered("real", RealStages, 11)
<1>1. /\ Follows("real", "check", "ffprobe")
      /\ Follows("real", "ffprobe", "input_meta")
      /\ Follows("real", "input_meta", "ffmpeg_extract_audio")
      /\ Follows("real", "ffmpeg_extract_audio", "mlx_whisper")
      /\ Follows("real", "mlx_whisper", "load")
      /\ Follows("real", "load", "txt")
      /\ Follows("real", "txt", "json")
      /\ Follows("real", "json", "srt")
      /\ Follows("real", "srt", "quality")
      /\ Follows("real", "quality", "report")
  BY DEF Follows, Tools, Product
<1>2. ASSUME NEW n \in 1 .. 11, n < 11 PROVE Follows("real", RealStages[n], RealStages[n + 1])
  <2>1. n = 1 \/ n = 2 \/ n = 3 \/ n = 4 \/ n = 5 \/ n = 6 \/ n = 7 \/ n = 8 \/ n = 9 \/ n = 10
    BY <1>2
  <2> QED
    BY <2>1, <1>1, RealStagesAre, SMTT(60)
<1>3. \A t \in { "check", "ffprobe", "input_meta", "ffmpeg_extract_audio", "txt", "json", "srt", "report" }
        : Needs("real", t) = {}
  BY DEF Needs
<1>4. ASSUME NEW s \in Needs("real", RealStages[5]) PROVE \E j \in 1 .. 11 : j < 5 /\ RealStages[j] = s
  <2>1. s \in { "ffmpeg_extract_audio" }
    BY <1>4, RealStagesAre DEF Needs, Supported
  <2> QED
    BY <2>1, RealStagesAre
<1>5. ASSUME NEW s \in Needs("real", RealStages[6]) PROVE \E j \in 1 .. 11 : j < 6 /\ RealStages[j] = s
  <2>1. s \in { "mlx_whisper" }
    BY <1>5, RealStagesAre DEF Needs, Supported
  <2> QED
    BY <2>1, RealStagesAre
<1>6. ASSUME NEW s \in Needs("real", RealStages[10]) PROVE \E j \in 1 .. 11 : j < 10 /\ RealStages[j] = s
  <2>1. s \in { "input_meta", "ffmpeg_extract_audio" }
    BY <1>6, RealStagesAre DEF Needs
  <2> QED
    BY <2>1, RealStagesAre
<1>7. ASSUME NEW n \in 1 .. 11, NEW s \in Needs("real", RealStages[n])
      PROVE  \E j \in 1 .. 11 : j < n /\ RealStages[j] = s
  <2>1. CASE n \in { 5, 6, 10 }
    BY <1>7, <2>1, <1>4, <1>5, <1>6
  <2>2. CASE n \notin { 5, 6, 10 }
    <3>1. n = 1 \/ n = 2 \/ n = 3 \/ n = 4 \/ n = 7 \/ n = 8 \/ n = 9 \/ n = 11
      BY <1>7, <2>2
    <3> QED
      BY <1>7, <3>1, <1>3, RealStagesAre
  <2> QED
    BY <2>1, <2>2
<1> QED
  BY <1>2, <1>7, RealStagesAre DEF Ordered

\* And so does the smoke run, which makes its input first.
LEMMA SmokeOrder == Ordered("smoke", Stages.smoke, 12)
<1>1. /\ Follows("smoke", "say", "ffmpeg_generate")
      /\ Follows("smoke", "ffmpeg_generate", "ffprobe")
      /\ Follows("smoke", "ffprobe", "input_meta")
      /\ Follows("smoke", "input_meta", "ffmpeg_extract_audio")
      /\ Follows("smoke", "ffmpeg_extract_audio", "mlx_whisper")
      /\ Follows("smoke", "mlx_whisper", "load")
      /\ Follows("smoke", "load", "txt")
      /\ Follows("smoke", "txt", "json")
      /\ Follows("smoke", "json", "srt")
      /\ Follows("smoke", "srt", "quality")
      /\ Follows("smoke", "quality", "report")
  BY DEF Follows, Tools, Product
<1>2. ASSUME NEW n \in 1 .. 12, n < 12 PROVE Follows("smoke", Stages.smoke[n], Stages.smoke[n + 1])
  <2>1. CASE n = 1 \/ n = 2 \/ n = 3 \/ n = 4
    BY <1>2, <2>1, <1>1, SmokeStagesAre, SMTT(30)
  <2>2. CASE n = 5 \/ n = 6 \/ n = 7 \/ n = 8
    BY <1>2, <2>2, <1>1, SmokeStagesAre, SMTT(30)
  <2>3. CASE n = 9 \/ n = 10 \/ n = 11
    BY <1>2, <2>3, <1>1, SmokeStagesAre, SMTT(30)
  <2> QED
    BY <1>2, <2>1, <2>2, <2>3
<1>3. \A t \in { "say", "input_meta", "txt", "json", "srt", "report" }
        : Needs("smoke", t) = {}
  BY DEF Needs
<1>4. ASSUME NEW s \in Needs("smoke", Stages.smoke[2]) PROVE \E j \in 1 .. 12 : j < 2 /\ Stages.smoke[j] = s
  <2>1. s \in { "say" }
    BY <1>4, SmokeStagesAre DEF Needs, Supported
  <2> QED
    BY <2>1, SmokeStagesAre
<1>5. ASSUME NEW s \in Needs("smoke", Stages.smoke[3]) PROVE \E j \in 1 .. 12 : j < 3 /\ Stages.smoke[j] = s
  <2>1. s \in { "ffmpeg_generate" }
    BY <1>5, SmokeStagesAre DEF Needs, Supported
  <2> QED
    BY <2>1, SmokeStagesAre
<1>6. ASSUME NEW s \in Needs("smoke", Stages.smoke[5]) PROVE \E j \in 1 .. 12 : j < 5 /\ Stages.smoke[j] = s
  <2>1. s \in { "ffmpeg_generate" }
    BY <1>6, SmokeStagesAre DEF Needs, Supported
  <2> QED
    BY <2>1, SmokeStagesAre
<1>7. ASSUME NEW s \in Needs("smoke", Stages.smoke[6]) PROVE \E j \in 1 .. 12 : j < 6 /\ Stages.smoke[j] = s
  <2>1. s \in { "ffmpeg_extract_audio" }
    BY <1>7, SmokeStagesAre DEF Needs, Supported
  <2> QED
    BY <2>1, SmokeStagesAre
<1>8. ASSUME NEW s \in Needs("smoke", Stages.smoke[7]) PROVE \E j \in 1 .. 12 : j < 7 /\ Stages.smoke[j] = s
  <2>1. s \in { "mlx_whisper" }
    BY <1>8, SmokeStagesAre DEF Needs, Supported
  <2> QED
    BY <2>1, SmokeStagesAre
<1>9. ASSUME NEW s \in Needs("smoke", Stages.smoke[11]) PROVE \E j \in 1 .. 12 : j < 11 /\ Stages.smoke[j] = s
  <2>1. s \in { "input_meta", "ffmpeg_extract_audio" }
    BY <1>9, SmokeStagesAre DEF Needs
  <2> QED
    BY <2>1, SmokeStagesAre, SMTT(30)
<1>10. ASSUME NEW n \in 1 .. 12, NEW s \in Needs("smoke", Stages.smoke[n])
      PROVE  \E j \in 1 .. 12 : j < n /\ Stages.smoke[j] = s
  <2>1. CASE n \in { 2, 3, 5, 6, 7, 11 }
    BY <1>10, <2>1, <1>4, <1>5, <1>6, <1>7, <1>8, <1>9
  <2>2. CASE n \notin { 2, 3, 5, 6, 7, 11 }
    <3>1. n = 1 \/ n = 4 \/ n = 8 \/ n = 9 \/ n = 10 \/ n = 12
      BY <1>10, <2>2
    <3> QED
      BY <1>10, <3>1, <1>3, SmokeStagesAre
  <2> QED
    BY <2>1, <2>2
<1> QED
  BY <1>2, <1>10, SmokeStagesAre DEF Ordered

\* The order of the stages, for every pipeline.
LEMMA StageOrder ==
    ASSUME NEW m \in Pipelines
    PROVE  Ordered(m, Stages[m], Len(Stages[m]))
<1>1. CASE m = "mock"
  <2>1. Len(Stages.mock) = 8
    BY MockStagesAre
  <2>2. Ordered("mock", Stages.mock, Len(Stages.mock))
    BY <2>1, MockOrder
  <2> QED
    BY <1>1, <2>2
<1>2. CASE m = "real"
  <2>1. Len(RealStages) = 11 /\ Stages.real = RealStages
    BY RealStagesAre DEF Stages
  <2>2. Ordered("real", Stages.real, Len(Stages.real))
    BY <2>1, RealOrder
  <2> QED
    BY <1>2, <2>2
<1>3. CASE m = "smoke"
  <2>1. Len(Stages.smoke) = 12
    BY SmokeStagesAre
  <2>2. Ordered("smoke", Stages.smoke, Len(Stages.smoke))
    BY <2>1, SmokeOrder
  <2> QED
    BY <1>3, <2>2
<1> QED
  BY <1>1, <1>2, <1>3 DEF Pipelines
-----------------------------------------------------------------------------
(***************************************************************************)
(* Types.                                                                  *)
(***************************************************************************)
QualityReport ==
    [ of : 0 .. MaxAttempts, status : { "absent", "passed", "failed" }, failing : SUBSET Files ]
InRange(p) == p.at \in 1 .. Len(Stages[p.mode]) + 1

\* A worker waits only where it runs a tool.
AtTool == \A a \in Attempts : attempt[a].state \in { "tool", "hung", "orphan" } => Stage(a) \in Tools

TypeInv == TypeOK /\ AtTool

\* An attempt runs one of the pipelines, at a place in its list or behind it.
LEMMA ModeIs ==
    ASSUME TypeOK, NEW a \in Attempts
    PROVE  /\ attempt[a] \in Attempt /\ attempt[a].mode \in Pipelines /\ InRange(attempt[a])
           /\ Len(Stages[attempt[a].mode]) \in Nat \ {0}
<1>1. attempt[a] \in Attempt /\ InRange(attempt[a])
  BY DEF TypeOK, InRange
<1>2. attempt[a].mode \in Modes
  BY <1>1 DEF Attempt
<1>3. attempt[a].mode \in Pipelines
  BY <1>2, PipelineAssumption DEF Pipelines
<1> QED
  BY <1>1, <1>3, StagesAre

\* The stage an attempt is at, and its place in the list.
LEMMA StageIs ==
    ASSUME TypeOK, NEW a \in Attempts
    PROVE  /\ Stage(a) \in Names \cup { "end" }
           /\ Stage(a) = "end" <=> attempt[a].at > Len(Stages[attempt[a].mode])
           /\ Stage(a) # "end" =>
                /\ attempt[a].at \in 1 .. Len(Stages[attempt[a].mode])
                /\ Stage(a) = Stages[attempt[a].mode][attempt[a].at]
<1> DEFINE p == attempt[a]
           S == Stages[p.mode]
<1>1. p.mode \in Pipelines /\ p.at \in 1 .. Len(S) + 1 /\ Len(S) \in Nat
  BY ModeIs DEF InRange
<1>2. \A n \in 1 .. Len(S) : S[n] \in Names
  BY <1>1, StagesAre
<1>3. CASE p.at > Len(S)
  BY <1>1, <1>3 DEF Stage
<1>4. CASE ~(p.at > Len(S))
  <2>1. p.at \in 1 .. Len(S)
    BY <1>1, <1>4
  <2>2. Stage(a) = S[p.at]
    BY <1>4 DEF Stage
  <2>3. Stage(a) # "end"
    BY <1>2, <2>1, <2>2 DEF Names
  <2> QED
    BY <1>2, <1>4, <2>1, <2>2, <2>3
<1> QED
  BY <1>3, <1>4

Becomes(a, p) ==
    /\ p \in Attempt /\ InRange(p)
    /\ attempt' = [attempt EXCEPT ![a] = p]

\* One attempt moves, and stays an attempt.
LEMMA BecomesType ==
    ASSUME TypeOK, NEW a \in Attempts, NEW p, Becomes(a, p)
    PROVE  /\ attempt' \in [Attempts -> Attempt]
           /\ \A b \in Attempts : attempt'[b].at \in 1 .. Len(Stages[attempt'[b].mode]) + 1
           /\ attempt'[a] = p
           /\ \A b \in Attempts : b # a => attempt'[b] = attempt[b]
<1>1. attempt \in [Attempts -> Attempt]
  BY DEF TypeOK
<1>2. /\ attempt' \in [Attempts -> Attempt] /\ attempt'[a] = p
      /\ \A b \in Attempts : b # a => attempt'[b] = attempt[b]
  BY <1>1 DEF Becomes
<1>3. ASSUME NEW b \in Attempts PROVE InRange(attempt'[b])
  BY <1>2, ModeIs DEF Becomes
<1> QED
  BY <1>2, <1>3 DEF InRange

\* The next stage.
LEMMA OnwardIs ==
    ASSUME TypeOK, NEW a \in Attempts, Stage(a) # "end", NEW held \in Content, Onward(a, held)
    PROVE  \E p \in Attempt :
             /\ Becomes(a, p) /\ p.state = "go" /\ p.held = held
             /\ p.at = attempt[a].at + 1 /\ p.mode = attempt[a].mode
             /\ p.requested = attempt[a].requested /\ p.passed = attempt[a].passed
<1>1. PICK q \in Attempt : /\ q = attempt[a] /\ InRange(q) /\ q.at \in 1 .. Len(Stages[q.mode])
                           /\ Len(Stages[q.mode]) \in Nat
  BY ModeIs, StageIs
<1>2. PICK n \in Nat : n = q.at + 1
  BY <1>1
<1>3. PICK p : p = [q EXCEPT !.state = "go", !.at = n, !.held = held]
  OBVIOUS
<1>4. /\ p \in Attempt /\ p.state = "go" /\ p.held = held /\ p.at = n
      /\ p.mode = q.mode /\ p.requested = q.requested /\ p.passed = q.passed
  BY <1>3 DEF Attempt, Active
<1>5. attempt' = [attempt EXCEPT ![a] = p]
  BY <1>1, <1>2, <1>3 DEF Onward, TypeOK
<1>6. InRange(p)
  BY <1>1, <1>2, <1>4 DEF InRange
<1> QED
  BY <1>1, <1>2, <1>4, <1>5, <1>6 DEF Becomes

\* The end.
LEMMA EndIs ==
    ASSUME TypeOK, NEW a \in Attempts, NEW state \in Ended, End(a, state)
    PROVE  \E p \in Attempt :
             /\ Becomes(a, p) /\ p.state = state /\ p.at = 1 /\ p.mode = attempt[a].mode
             /\ p.requested = attempt[a].requested
<1>1. PICK q \in Attempt : q = attempt[a] /\ Len(Stages[q.mode]) \in Nat \ {0}
  BY ModeIs
<1>2. Absent \in Content
  BY DEF Content
<1>3. PICK p : p = [q EXCEPT !.state = state, !.at = 1, !.held = Absent, !.passed = FALSE]
  OBVIOUS
<1>4. /\ p \in Attempt /\ p.state = state /\ p.at = 1
      /\ p.mode = q.mode /\ p.requested = q.requested
  BY <1>2, <1>3 DEF Attempt
<1>5. attempt' = [attempt EXCEPT ![a] = p]
  BY <1>1, <1>3 DEF End, TypeOK
<1>6. InRange(p)
  BY <1>1, <1>4 DEF InRange
<1> QED
  BY <1>1, <1>4, <1>5, <1>6 DEF Becomes

\* A change of state and of what is held, at the same stage.
Stays(a, state, held) ==
    attempt' = [attempt EXCEPT ![a] = [attempt[a] EXCEPT !.state = state, !.held = held]]

\* The record after such a change.
LEMMA StaysIs ==
    ASSUME TypeOK, NEW a \in Attempts, NEW state \in { "orphan" } \cup Active \cup Ended,
           NEW held \in Content,
           Stays(a, state, held)
    PROVE  \E p \in Attempt :
             /\ Becomes(a, p) /\ p.state = state /\ p.held = held /\ p.at = attempt[a].at
             /\ p.mode = attempt[a].mode /\ p.requested = attempt[a].requested
             /\ p.passed = attempt[a].passed
<1>1. PICK q \in Attempt : q = attempt[a] /\ InRange(q)
  BY ModeIs
<1>2. PICK p : p = [q EXCEPT !.state = state, !.held = held]
  OBVIOUS
<1>3. /\ p \in Attempt /\ p.state = state /\ p.held = held /\ p.at = q.at
      /\ p.mode = q.mode /\ p.requested = q.requested /\ p.passed = q.passed
  BY <1>2 DEF Attempt
<1>4. InRange(p)
  BY <1>1, <1>3 DEF InRange
<1> QED
  BY <1>1, <1>2, <1>3, <1>4 DEF Becomes, Stays
-----------------------------------------------------------------------------
\* What is written into a file.
LEMMA OneFile ==
    ASSUME NEW fs \in [Files -> Content], NEW f, NEW c \in Content, NEW gs,
           gs = [fs EXCEPT ![f] = c]
    PROVE  /\ gs \in [Files -> Content]
           /\ f \in Files => gs[f] = c
           /\ \A g \in Files : g # f => gs[g] = fs[g]
OBVIOUS

\* A write that is cut short leaves well-formed files.
LEMMA TornIs ==
    ASSUME TypeOK, NEW a \in Attempts, NEW f \in Files, Torn(a, f)
    PROVE  files' \in [Files -> Content]
<1>1. [of |-> a, data |-> "part"] \in Content
  BY DEF Content
<1> QED
  BY <1>1, OneFile DEF Torn, TypeOK

\* What the tools produce.
LEMMA ToolIs ==
    ASSUME NEW t \in Tools
    PROVE  /\ t \in { "say", "ffmpeg_generate", "ffprobe", "ffmpeg_extract_audio", "mlx_whisper" }
           /\ Product[t] \in Files \cup { "stdout" }
           /\ Results[t] \subseteq { "none", "blank", "full" }
           /\ t = "say"                  => Product[t] = "speech"
           /\ t = "ffmpeg_generate"      => Product[t] = "video"
           /\ t = "ffprobe"              => Product[t] = "stdout" /\ Results[t] = { "none", "full" }
           /\ t = "ffmpeg_extract_audio" => Product[t] = "audio" /\ Results[t] = { "none", "full" }
           /\ t = "mlx_whisper"          => Product[t] = "raw" /\ Results[t] = { "full", "blank" }
BY DEF Tools, Product, Results, Files, Supported

\* What is not missing has an author.
LEMMA ContentIs ==
    /\ Absent \in Content
    /\ \A a \in Attempts : \A d \in { "none", "part", "blank", "full" } : [of |-> a, data |-> d] \in Content
    /\ \A c \in Content : c.data = "absent" \/ c.of \in Attempts
BY DEF Content, Absent

\* A tool changes its product and nothing else.
LEMMA ProducesIs ==
    ASSUME TypeOK, NEW a \in Attempts, Stage(a) \in Tools, HasInput(a),
           NEW d \in { "none", "part", "blank", "full" }
    PROVE  /\ Produces(a, d) \in [Files -> Content]
           /\ [of |-> attempt[a].held.of, data |-> d] \in Content
           /\ \A g \in Files : Produces(a, d)[g] =
                IF g = Product[Stage(a)] THEN [of |-> attempt[a].held.of, data |-> d] ELSE files[g]
<1>1. PICK c : c = [of |-> attempt[a].held.of, data |-> d]
  OBVIOUS
<1>2. PICK f : f = Product[Stage(a)]
  OBVIOUS
<1>3. c \in Content
  <2>1. attempt[a].held \in Content
    BY ModeIs DEF Attempt
  <2>2. attempt[a].held.of \in Attempts
    BY <2>1, ContentIs DEF HasInput
  <2> QED
    BY <1>1, <2>2, ContentIs
<1>4. CASE f = "stdout"
  <2>1. Produces(a, d) = files /\ f \notin Files
    BY <1>2, <1>4 DEF Produces, Files, Supported
  <2> QED
    BY <1>1, <1>2, <1>3, <2>1 DEF TypeOK
<1>5. CASE f # "stdout"
  <2>1. Produces(a, d) = [files EXCEPT ![f] = c]
    BY <1>1, <1>2, <1>5 DEF Produces
  <2>2. /\ Produces(a, d) \in [Files -> Content]
        /\ \A g \in Files : Produces(a, d)[g] = IF g = f THEN c ELSE files[g]
    BY <1>3, <2>1 DEF TypeOK
  <2> QED
    BY <1>1, <1>2, <1>3, <2>2
<1> QED
  BY <1>4, <1>5

\* The logs take text of this attempt, or stay; no other file changes.
LEMMA LoggedIs ==
    ASSUME NEW fs \in [Files -> Content], NEW a \in Attempts, NEW text, NEW gs, gs = Logged(fs, a, text)
    PROVE  /\ gs \in [Files -> Content]
           /\ \A g \in Files : g # "logs" => gs[g] = fs[g]
           /\ gs["logs"] = [of |-> a, data |-> "full"] \/ gs["logs"] = fs["logs"]
           /\ text => gs["logs"] = [of |-> a, data |-> "full"]
<1>1. [of |-> a, data |-> "full"] \in Content /\ "logs" \in Files
  BY ContentIs DEF Files
<1> QED
  BY <1>1, OneFile DEF Logged

\* All that can become of the files when a tool ends, well or not: never does
\* one write what the job publishes.
LEMMA WhateverIs ==
    ASSUME TypeOK, NEW a \in Attempts, Stage(a) \in Tools, NEW fs \in Whatever(a)
    PROVE  fs \in [Files -> Content] /\ \A o \in Supported : fs[o] = files[o]
<1>1. files \in [Files -> Content]
  BY DEF TypeOK
<1>2. CASE fs = files
  BY <1>1, <1>2
<1>3. CASE fs # files
  <2>1. HasInput(a) /\ \E d \in Results[Stage(a)] \cup {"part"} : fs = Produces(a, d)
    BY <1>3 DEF Whatever, Writes
  <2>2. PICK d \in { "none", "part", "blank", "full" } : fs = Produces(a, d)
    BY <2>1, ToolIs
  <2>3. Product[Stage(a)] \notin Supported /\ Supported \subseteq Files
    BY ToolIs DEF Supported, Files
  <2> QED
    BY <2>1, <2>2, <2>3, ProducesIs
<1> QED
  BY <1>2, <1>3

\* What a stopped tool leaves is among it.
LEMMA SpoiltIs ==
    ASSUME NEW a, NEW fs \in Spoilt(a)
    PROVE  fs \in Whatever(a)
BY DEF Spoilt, Whatever, Writes

\* A tool reads a file or the submitted video.
LEMMA InputIs ==
    ASSUME TypeOK, NEW a \in Attempts
    PROVE  Input(a) \in Content
<1>1. [of |-> a, data |-> "full"] \in Content
  BY ContentIs
<1>2. files \in [Files -> Content] /\ { "audio", "speech", "video" } \subseteq Files
  BY DEF TypeOK, Files
<1> QED
  BY <1>1, <1>2 DEF Input

\* Types of the next state, from what becomes of one attempt.
LEMMA TypeFrom ==
    ASSUME TypeInv, NEW a \in Attempts, NEW p, Becomes(a, p),
           files' \in [Files -> Content], quality' \in QualityReport, misled' \subseteq Attempts,
           p.state \in { "tool", "hung", "orphan" } =>
               Stage(a) \in Tools /\ p.at = attempt[a].at /\ p.mode = attempt[a].mode
    PROVE  TypeInv'
<1>1. TypeOK'
  BY BecomesType DEF TypeInv, TypeOK, QualityReport
<1>2. ASSUME NEW b \in Attempts, attempt'[b].state \in { "tool", "hung", "orphan" }
      PROVE  Stage(b)' \in Tools
  <2>1. CASE b = a
    BY <1>2, <2>1, BecomesType DEF TypeInv, Stage
  <2>2. CASE b # a
    BY <1>2, <2>2, BecomesType DEF TypeInv, AtTool, Stage
  <2> QED
    BY <2>1, <2>2
<1> QED
  BY <1>1, <1>2 DEF TypeInv, AtTool

\* Types are kept when an attempt goes on,
LEMMA OnwardType ==
    ASSUME TypeInv, NEW a \in Attempts, Stage(a) # "end", NEW held \in Content, Onward(a, held),
           files' \in [Files -> Content], quality' = quality, misled' \subseteq Attempts
    PROVE  TypeInv'
BY OnwardIs, TypeFrom DEF TypeInv, TypeOK, QualityReport

\* when it ends,
LEMMA EndType ==
    ASSUME TypeInv, NEW a \in Attempts, NEW state \in Ended, End(a, state),
           files' \in [Files -> Content], quality' \in QualityReport, misled' \subseteq Attempts
    PROVE  TypeInv'
BY EndIs, TypeFrom DEF TypeInv, Ended

\* and when it waits, or is left by its worker, at a tool.
LEMMA StaysType ==
    ASSUME TypeInv, NEW a \in Attempts, NEW state \in { "orphan" } \cup Active \cup Ended,
           NEW held \in Content, Stays(a, state, held)
    PROVE  /\ state \in { "tool", "hung", "orphan" } => Stage(a) \in Tools
           /\ files' = files /\ quality' = quality /\ misled' = misled
           => TypeInv'
<1>1. TypeOK
  BY DEF TypeInv
<1>2. PICK p \in Attempt :
        /\ Becomes(a, p) /\ p.state = state /\ p.held = held /\ p.at = attempt[a].at
        /\ p.mode = attempt[a].mode /\ p.requested = attempt[a].requested
        /\ p.passed = attempt[a].passed
  BY <1>1, StaysIs
<1> SUFFICES ASSUME state \in { "tool", "hung", "orphan" } => Stage(a) \in Tools,
                    files' = files, quality' = quality, misled' = misled
             PROVE  TypeInv'
  OBVIOUS
<1> QED
  BY <1>1, <1>2, TypeFrom DEF TypeOK, QualityReport

\* A change of state alone, or with what is held.
LEMMA StateOnly ==
    ASSUME TypeOK, NEW a \in Attempts, NEW state,
           attempt' = [attempt EXCEPT ![a].state = state]
    PROVE  /\ attempt[a].held \in Content
           /\ Stays(a, state, attempt[a].held)
<1>1. PICK q \in Attempt : q = attempt[a]
  BY ModeIs
<1>2. [q EXCEPT !.state = state] = [q EXCEPT !.state = state, !.held = q.held] /\ q.held \in Content
  BY DEF Attempt
<1>3. attempt' = [attempt EXCEPT ![a] = [q EXCEPT !.state = state]]
  BY <1>1 DEF TypeOK
<1> QED
  BY <1>1, <1>2, <1>3 DEF Stays
-----------------------------------------------------------------------------
\* Every step keeps the types.
LEMMA NextType == TypeInv /\ [Next]_vars => TypeInv'
<1> SUFFICES ASSUME TypeInv, [Next]_vars PROVE TypeInv'
  OBVIOUS
<1>0. TypeOK /\ files \in [Files -> Content] /\ quality \in QualityReport /\ misled \subseteq Attempts
  BY DEF TypeInv, TypeOK, QualityReport
<1>1. ASSUME NEW a \in Attempts, Start(a) PROVE TypeInv'
  <2>1. "go" \in { "orphan" } \cup Active \cup Ended
    BY DEF Active
  <2>2. /\ attempt[a].held \in Content
        /\ Stays(a, "go", attempt[a].held)
    BY <1>0, <1>1, StateOnly DEF Start
  <2> QED
    BY <1>1, <2>1, <2>2, StaysType DEF Start
<1>2. ASSUME NEW a \in Attempts, Check(a) PROVE TypeInv'
  <2>1. [of |-> a, data |-> "full"] \in Content /\ Stage(a) # "end"
    BY <1>2, ContentIs DEF Check, At
  <2>2. CASE Onward(a, [of |-> a, data |-> "full"])
    BY <1>0, <1>2, <2>1, <2>2, OnwardType DEF Check
  <2>3. ASSUME NEW state \in { "fail", "rescue" }, End(a, state) PROVE TypeInv'
    BY <1>0, <1>2, <2>3, EndType DEF Check, Ended
  <2> QED
    BY <1>2, <2>2, <2>3 DEF Check
<1>3. ASSUME NEW a \in Attempts, Spawn(a) PROVE TypeInv'
  <2>1. PICK state \in { "tool", "hung", "rescue" } :
          attempt' = [attempt EXCEPT ![a].state = state, ![a].held = Input(a)]
    BY <1>3 DEF Spawn
  <2>2. Stays(a, state, Input(a))
    BY <1>0, <2>1 DEF TypeOK, Stays
  <2>3. Input(a) \in Content /\ Stage(a) \in Tools
    BY <1>0, <1>3, InputIs DEF Spawn, At
  <2>4. state \in { "orphan" } \cup Active \cup Ended
    BY DEF Active, Ended
  <2> QED
    BY <1>3, <2>2, <2>3, <2>4, StaysType DEF Spawn
<1>4. ASSUME NEW a \in Attempts, ToolExits(a) PROVE TypeInv'
  <2>1. Stage(a) \in Tools /\ Stage(a) # "end" /\ attempt[a].held \in Content
    BY <1>0, <1>4, ToolIs, ModeIs DEF ToolExits, At, Attempt
  <2>2. CASE ToolSucceeds(a)
    <3>1. PICK d \in Results[Stage(a)], text \in BOOLEAN :
            /\ files' = Logged(Produces(a, d), a, text \/ (Stage(a) = "ffprobe" /\ d = "full"))
            /\ Onward(a, [of |-> attempt[a].held.of, data |-> d])
      BY <2>2 DEF ToolSucceeds
    <3>2. HasInput(a) /\ quality' = quality /\ misled' = misled
      BY <2>2 DEF ToolSucceeds
    <3>3. d \in { "none", "part", "blank", "full" }
      BY <2>1, ToolIs
    <3>4. /\ Produces(a, d) \in [Files -> Content]
          /\ [of |-> attempt[a].held.of, data |-> d] \in Content
      BY <1>0, <2>1, <3>2, <3>3, ProducesIs
    <3>5. files' \in [Files -> Content]
      BY <3>1, <3>4, LoggedIs
    <3> QED
      BY <1>0, <2>1, <3>1, <3>2, <3>4, <3>5, OnwardType
  <2>3. CASE ToolDoesNothing(a)
    <3>1. files' \in [Files -> Content] /\ misled' \subseteq Attempts
      BY <1>0, <2>3, LoggedIs DEF ToolDoesNothing
    <3> QED
      BY <2>1, <2>3, <3>1, OnwardType DEF ToolDoesNothing
  <2>4. CASE /\ \E fs \in Whatever(a), text \in BOOLEAN : files' = Logged(fs, a, text)
             /\ End(a, "rescue") /\ UNCHANGED << quality, misled >>
    <3>1. files' \in [Files -> Content]
      BY <1>0, <2>1, <2>4, WhateverIs, LoggedIs
    <3> QED
      BY <1>0, <2>4, <3>1, EndType DEF Ended
  <2> QED
    BY <1>4, <2>2, <2>3, <2>4 DEF ToolExits
<1>5. ASSUME NEW a \in Attempts, Timeout(a) PROVE TypeInv'
  <2>1. Stage(a) \in Tools /\ quality' = quality /\ misled' = misled /\ End(a, "rescue")
    BY <1>5 DEF Timeout, TypeInv, AtTool
  <2>2. PICK fs \in Spoilt(a), text \in BOOLEAN : files' = Logged(fs, a, text)
    BY <1>5 DEF Timeout
  <2>3. files' \in [Files -> Content]
    BY <1>0, <2>1, <2>2, SpoiltIs, WhateverIs, LoggedIs
  <2> QED
    BY <1>0, <2>1, <2>3, EndType DEF Ended
<1>6. ASSUME NEW a \in Attempts, Load(a) PROVE TypeInv'
  <2>1. files["raw"] \in Content /\ Stage(a) # "end"
    BY <1>0, <1>6 DEF Files, Load, At
  <2>2. Onward(a, files["raw"]) \/ End(a, "rescue")
    BY <1>6 DEF Load
  <2> QED
    BY <1>0, <1>6, <2>1, <2>2, OnwardType, EndType DEF Load, Ended
<1>7. ASSUME NEW a \in Attempts, Write(a) PROVE TypeInv'
  <2>1. /\ attempt[a].held \in Content /\ Stage(a) \in Files /\ Stage(a) # "end"
        /\ quality' = quality /\ misled' = misled
    BY <1>0, <1>7, ModeIs DEF Attempt, Write, At, Files, Supported
  <2>2. CASE Onward(a, attempt[a].held) /\ UNCHANGED files
    BY <1>0, <2>1, <2>2, OnwardType
  <2>3. CASE files' = [files EXCEPT ![Stage(a)] = attempt[a].held] /\ Onward(a, attempt[a].held)
    BY <1>0, <2>1, <2>3, OneFile, OnwardType
  <2>4. CASE Torn(a, Stage(a)) /\ End(a, "rescue")
    BY <1>0, <2>1, <2>4, TornIs, EndType DEF Ended
  <2> QED
    BY <1>7, <2>2, <2>3, <2>4 DEF Write
<1>8. ASSUME NEW a \in Attempts, Verdict(a) PROVE TypeInv'
  <2>1. PICK state \in { "complete", "rescue" } : End(a, state)
    BY <1>8 DEF Verdict
  <2> QED
    BY <1>0, <1>8, <2>1, EndType DEF Verdict, Ended
<1>9. ASSUME NEW a \in Attempts, QualityGate(a) PROVE TypeInv'
  <2> DEFINE failing == { f \in Gated[attempt[a].mode] : ~Found(attempt[a].mode, f) }
             status  == Status(attempt[a].mode, failing)
  <2>1. Stage(a) # "end" /\ files' = files /\ misled' = misled
    BY <1>9 DEF QualityGate, At
  <2>2. CASE /\ quality' = [of |-> a, status |-> status, failing |-> failing]
             /\ attempt' = [attempt EXCEPT ![a].at = @ + 1, ![a].passed = (status = "passed")]
    <3>1. Gated[attempt[a].mode] \subseteq Files
      BY <1>0, ModeIs DEF Gated, Files, Supported, Pipelines
    <3>2. quality' \in QualityReport
      BY <2>2, <3>1, PipelineAssumption DEF QualityReport, Status, Attempts
    <3>3. PICK q \in Attempt : /\ q = attempt[a] /\ InRange(q) /\ Len(Stages[q.mode]) \in Nat
                               /\ q.at \in 1 .. Len(Stages[q.mode])
      BY <1>0, <2>1, ModeIs, StageIs
    <3>4. PICK n \in Nat : n = q.at + 1
      BY <3>3
    <3>4a. PICK e \in BOOLEAN : e = (status = "passed")
      OBVIOUS
    <3>5. PICK p : p = [q EXCEPT !.at = n, !.passed = e]
      OBVIOUS
    <3>6. p \in Attempt /\ p.at = n /\ p.mode = q.mode /\ p.state = q.state
      BY <3>5 DEF Attempt
    <3>7. attempt' = [attempt EXCEPT ![a] = p]
      BY <1>0, <2>2, <3>3, <3>4, <3>4a, <3>5 DEF TypeOK
    <3>8. Becomes(a, p)
      BY <3>3, <3>4, <3>6, <3>7 DEF Becomes, InRange
    <3>9. p.state = "go"
      BY <1>9, <3>3, <3>6 DEF QualityGate, At
    <3> QED
      BY <1>0, <2>1, <3>2, <3>8, <3>9, TypeFrom
  <2>3. CASE quality' \in { quality, NoReport } /\ End(a, "rescue")
    <3>1. quality' \in QualityReport
      BY <1>0, <2>3, PipelineAssumption DEF NoReport, QualityReport
    <3> QED
      BY <1>0, <2>1, <2>3, <3>1, EndType DEF Ended
  <2> QED
    BY <1>9, <2>2, <2>3 DEF QualityGate
<1>10. ASSUME NEW a \in Attempts, Kill(a) PROVE TypeInv'
  <2>1. CASE attempt[a].state = "go" /\ End(a, "killed")
    <3>1. files' \in [Files -> Content]
      <4>1. CASE Stage(a) \in Files
        <5>1. Torn(a, Stage(a))
          BY <1>10, <2>1, <4>1 DEF Kill
        <5> QED
          BY <1>0, <4>1, <5>1, TornIs
      <4>2. CASE Stage(a) \notin Files
        BY <1>0, <1>10, <2>1, <4>2 DEF Kill
      <4> QED
        BY <4>1, <4>2
    <3> QED
      BY <1>0, <1>10, <2>1, <3>1, EndType DEF Kill, Ended
  <2>2. CASE /\ attempt[a].state \in { "tool", "hung" }
             /\ attempt' = [attempt EXCEPT ![a].state = "orphan"]
             /\ UNCHANGED files
    <3>1. /\ attempt[a].held \in Content
          /\ Stays(a, "orphan", attempt[a].held)
      BY <1>0, <2>2, StateOnly
    <3>2. Stage(a) \in Tools
      BY <2>2 DEF TypeInv, AtTool
    <3>3. "orphan" \in { "orphan" } \cup Active \cup Ended
      OBVIOUS
    <3> QED
      BY <1>10, <2>2, <3>1, <3>2, <3>3, StaysType DEF Kill
  <2> QED
    BY <1>10, <2>1, <2>2 DEF Kill
<1>11. ASSUME NEW a \in Attempts, OrphanWrites(a) PROVE TypeInv'
  <2>1. /\ Stage(a) \in Tools /\ quality' = quality /\ files' \in Whatever(a)
        /\ misled' \subseteq Attempts
    BY <1>0, <1>11 DEF OrphanWrites, TypeInv, AtTool, Begun
  <2>2. files' \in [Files -> Content]
    BY <1>0, <2>1, WhateverIs
  <2>3. CASE End(a, "killed")
    BY <1>0, <2>1, <2>2, <2>3, EndType DEF Ended
  <2>4. CASE UNCHANGED attempt
    <3>1. TypeOK'
      BY <1>0, <2>1, <2>2, <2>4 DEF TypeOK, QualityReport
    <3>2. AtTool'
      BY <2>4 DEF TypeInv, AtTool, Stage
    <3> QED
      BY <3>1, <3>2 DEF TypeInv
  <2> QED
    BY <1>11, <2>3, <2>4 DEF OrphanWrites
<1>12. CASE UNCHANGED vars
  BY <1>12 DEF TypeInv, TypeOK, AtTool, Stage, vars
<1> QED
  BY <1>1, <1>2, <1>3, <1>4, <1>5, <1>6, <1>7, <1>8, <1>9, <1>10, <1>11, <1>12 DEF Next, Step

\* They hold at the start.
LEMMA InitType == Init => TypeInv
<1> SUFFICES ASSUME Init PROVE TypeInv
  OBVIOUS
<1>1. Absent \in Content
  BY ContentIs
<1>2. files \in [Files -> Content] /\ quality \in QualityReport /\ misled \subseteq Attempts
  BY <1>1, PipelineAssumption DEF Init, NoReport, QualityReport
<1>3. attempt \in [Attempts -> Attempt]
  <2>1. ASSUME NEW x \in [ state : {"idle"}, mode : Modes, requested : Requests,
                           at : {1}, held : {Absent}, passed : {FALSE} ]
        PROVE  x \in Attempt
    <3>1. /\ x.mode \in Modes /\ x.requested \in Requests
          /\ x = [ state |-> "idle", mode |-> x.mode, requested |-> x.requested,
                    at |-> 1, held |-> Absent, passed |-> FALSE ]
      OBVIOUS
    <3>2. [ state |-> "idle", mode |-> x.mode, requested |-> x.requested,
            at |-> 1, held |-> Absent, passed |-> FALSE ] \in Attempt
      BY <1>1, <3>1 DEF Attempt
    <3> QED
      BY <3>1, <3>2
  <2> QED
    BY <2>1 DEF Init
<1>4. ASSUME NEW a \in Attempts
      PROVE  attempt[a].at = 1 /\ attempt[a].state = "idle" /\ attempt[a].mode \in Pipelines
  BY <1>4, PipelineAssumption DEF Init, Pipelines
<1>5. \A a \in Attempts : attempt[a].at \in 1 .. Len(Stages[attempt[a].mode]) + 1
  BY <1>4, StagesAre
<1> QED
  BY <1>2, <1>3, <1>4, <1>5 DEF TypeInv, TypeOK, AtTool, QualityReport

\* The directories, the report and the attempts stay well-formed, whichever of
\* the pipelines run, and however many attempts are under way at once.
THEOREM TypeCorrect == Spec => []TypeOK
<1>1. TypeInv => TypeOK
  BY DEF TypeInv
<1> QED
  BY <1>1, InitType, NextType, PTL DEF Spec
-----------------------------------------------------------------------------
(***************************************************************************)
(* One worker at a time: what a stage leaves behind stays until the        *)
(* attempt ends, unless a tool that outlived an earlier worker writes; and *)
(* such a tool never writes what is published.                             *)
(***************************************************************************)
Whole(x, f) == files[f].of = x /\ files[f].data \in { "full", "blank" }

\* What is not missing is of this attempt.
Mine(a, c) == c.data # "absent" => c.of = a

\* What ffprobe printed is nothing, or all of it, and then the logs have it too.
Measured(a, c) ==
    /\ c.of = a /\ c.data \in { "none", "full" }
    /\ c.data = "full" => files["logs"] = [of |-> a, data |-> "full"]

\* The mock leaves out what was not asked for.
Published(a, f) == attempt[a].mode = "mock" => f \in attempt[a].requested

\* What each stage of an attempt that is not misled has left behind when it is over.
LeftOwn(a, stage) ==
    /\ stage = "say"             => Mine(a, files["speech"])
    /\ stage = "ffmpeg_generate" => Mine(a, files["video"])
    /\ stage = "input_meta" /\ attempt[a].mode # "mock" => Measured(a, files["input_meta"])
    /\ stage = "ffmpeg_extract_audio" =>
         Mine(a, files["audio"]) /\ files["audio"].data \in { "absent", "none", "full" }
    /\ stage = "mlx_whisper" =>
         Mine(a, files["raw"]) /\ files["raw"].data \in { "absent", "full", "blank" }
Left(a, stage) ==
    /\ stage = "check" => attempt[a].requested \subseteq Supported
    /\ a \notin misled => LeftOwn(a, stage)

\* An attempt is past the stages before the one it is at.
Past(a) ==
    \A n \in 1 .. Len(Stages[attempt[a].mode]) :
        n < attempt[a].at => Left(a, Stages[attempt[a].mode][n])

\* The outputs that are written before a stage, from what is in memory then.
Behind(stage) ==
    CASE stage = "json" -> { "txt" }
      [] stage = "srt"  -> { "txt", "json" }
      [] stage \in { "quality", "report", "end" } -> Supported
      [] OTHER -> {}
Sound(a, c) == c.of \in Attempts /\ c.data \in { "full", "blank" } /\ (a \notin misled => c.of = a)

\* What an attempt holds in memory at its stage, and has written of it.
Carried(a) ==
    LET p == attempt[a] IN
    /\ p.mode = "mock" /\ Stage(a) # "check" => p.held = [of |-> a, data |-> "full"]
    /\ p.state # "go" /\ a \notin misled => Mine(a, p.held)
    /\ p.mode # "mock" /\ Stage(a) = "input_meta" /\ a \notin misled => Measured(a, p.held)
    /\ Stage(a) \in Supported \cup { "quality", "report", "end" } => Sound(a, p.held)
    /\ \A o \in Behind(Stage(a)) : Published(a, o) => files[o] = p.held
    /\ p.passed =>
         /\ Stage(a) \in { "report", "end" } /\ quality.of = a /\ quality.status = "passed"
         /\ p.mode # "mock" /\ a \notin misled => NonEmpty("input_meta") /\ NonEmpty("audio")

\* One worker at a time is at work, next to the tools of those that were killed.
InTurn == \A a \in Attempts : \A b \in Attempts :
            b < a /\ attempt[a].state # "idle" => attempt[b].state \in Ended \cup {"orphan"}

\* One attempt began last, or none did.
HasLast == \E a \in Begun \cup {0} : \A b \in Begun : b <= a

\* What Init gives an attempt, for as long as it needs it.
Given ==
    \A a \in Attempts :
        /\ attempt[a].mode = "smoke" => attempt[a].requested = Supported
        /\ attempt[a].state = "idle" => attempt[a].at = 1 /\ ~attempt[a].passed /\ a \notin misled

\* What a completed attempt stands for.
Fresh(a) ==
    LET p == attempt[a] IN
    /\ p.requested \subseteq Supported
    /\ \E x \in Attempts :
         /\ a \notin misled => x = a
         /\ \A f \in Supported : Published(a, f) => Whole(x, f)
    /\ p.mode # "mock" /\ a \notin misled => \A f \in { "input_meta", "audio", "logs" } : Whole(a, f)
    /\ quality.of = a /\ quality.status = "passed"

\* What is known of an attempt: at work, and when it completed as the latest.
Own(a) ==
    /\ attempt[a].state \in Active => Past(a) /\ Carried(a)
    /\ attempt[a].state = "complete" /\ Latest(a) => Fresh(a)

IInv == TypeInv /\ InTurn /\ HasLast /\ Given /\ \A a \in Attempts : Own(a)
-----------------------------------------------------------------------------
\* How the record of an attempt moves.
LEMMA OnwardMoves ==
    ASSUME TypeOK, NEW a \in Attempts, Stage(a) # "end", NEW held \in Content, Onward(a, held)
    PROVE  /\ attempt'[a].state = "go" /\ attempt'[a].held = held
           /\ attempt'[a].at = attempt[a].at + 1 /\ attempt'[a].mode = attempt[a].mode
           /\ attempt'[a].requested = attempt[a].requested
           /\ attempt'[a].passed = attempt[a].passed
           /\ \A b \in Attempts : b # a => attempt'[b] = attempt[b]
BY OnwardIs, BecomesType

\* The end of an attempt: what the job asked for and the pipeline stay.
LEMMA EndMoves ==
    ASSUME TypeOK, NEW a \in Attempts, NEW state \in Ended, End(a, state)
    PROVE  /\ attempt'[a].state = state /\ attempt'[a].mode = attempt[a].mode
           /\ attempt'[a].requested = attempt[a].requested
           /\ \A b \in Attempts : b # a => attempt'[b] = attempt[b]
BY EndIs, BecomesType

\* A wait: the stage stays, too.
LEMMA StaysMoves ==
    ASSUME TypeOK, NEW a \in Attempts, NEW state \in { "orphan" } \cup Active \cup Ended,
           NEW held \in Content, Stays(a, state, held)
    PROVE  /\ attempt'[a].state = state /\ attempt'[a].held = held
           /\ attempt'[a].at = attempt[a].at /\ attempt'[a].mode = attempt[a].mode
           /\ attempt'[a].requested = attempt[a].requested
           /\ attempt'[a].passed = attempt[a].passed
           /\ \A b \in Attempts : b # a => attempt'[b] = attempt[b]
BY StaysIs, BecomesType

\* What every step of attempt a leaves alone.
Moved(a) ==
    /\ attempt'[a].state # "idle" /\ attempt'[a].mode = attempt[a].mode
    /\ attempt'[a].requested = attempt[a].requested
    /\ \A b \in Attempts : b # a => attempt'[b] = attempt[b]

\* Going on leaves the other attempts alone,
LEMMA OnwardMoved ==
    ASSUME TypeOK, NEW a \in Attempts, Stage(a) # "end", NEW held \in Content, Onward(a, held)
    PROVE  Moved(a)
BY OnwardMoves DEF Moved

\* so does the end,
LEMMA EndMoved ==
    ASSUME TypeOK, NEW a \in Attempts, NEW state \in Ended, End(a, state)
    PROVE  Moved(a)
BY EndMoves DEF Moved, Ended

\* and so does a wait.
LEMMA StaysMoved ==
    ASSUME TypeOK, NEW a \in Attempts, NEW state \in { "orphan" } \cup Active \cup Ended,
           NEW held \in Content, Stays(a, state, held)
    PROVE  Moved(a)
BY StaysMoves DEF Moved, Active, Ended

\* Spawn and the gate as changes of the record.
LEMMA SpawnIs ==
    ASSUME TypeOK, NEW a \in Attempts, Spawn(a)
    PROVE  /\ Input(a) \in Content /\ Stage(a) \in Tools /\ attempt[a].state = "go"
           /\ \E state \in { "tool", "hung", "rescue" } :
                state \in { "orphan" } \cup Active \cup Ended /\ Stays(a, state, Input(a))
<1>1. PICK state \in { "tool", "hung", "rescue" } :
        attempt' = [attempt EXCEPT ![a].state = state, ![a].held = Input(a)]
  BY DEF Spawn
<1>2. Stays(a, state, Input(a))
  BY <1>1 DEF TypeOK, Stays
<1>3. state \in { "orphan" } \cup Active \cup Ended
  BY DEF Active, Ended
<1> QED
  BY <1>2, <1>3, InputIs DEF Spawn, At

\* The report is written.
Gate(a) ==
    LET failing == { f \in Gated[attempt[a].mode] : ~Found(attempt[a].mode, f) }
        status  == Status(attempt[a].mode, failing)
    IN  /\ quality' = [of |-> a, status |-> status, failing |-> failing]
        /\ attempt' = [attempt EXCEPT ![a].at = @ + 1, ![a].passed = (status = "passed")]

\* The gate's verdict is about what lies there now, and is remembered.
LEMMA GateMoves ==
    ASSUME TypeOK, NEW a \in Attempts, QualityGate(a), Gate(a)
    PROVE  /\ Moved(a) /\ attempt'[a].state = attempt[a].state /\ attempt'[a].held = attempt[a].held
           /\ attempt'[a].at = attempt[a].at + 1
           /\ attempt'[a].passed = (quality'.status = "passed")
           /\ quality'.of = a
           /\ quality'.status = Status(attempt[a].mode, { f \in Gated[attempt[a].mode] : ~Found(attempt[a].mode, f) })
<1>1. PICK q \in Attempt : q = attempt[a]
  BY ModeIs
<1>2. PICK e : e = (quality'.status = "passed")
  OBVIOUS
<1>3. PICK n : n = q.at + 1
  OBVIOUS
<1>4. PICK p : p = [q EXCEPT !.at = n, !.passed = e]
  OBVIOUS
<1>5. /\ p.at = n /\ p.mode = q.mode /\ p.state = q.state /\ p.held = q.held
      /\ p.requested = q.requested /\ p.passed = e
  BY <1>4 DEF Attempt
<1>6. quality'.of = a /\ quality'.status = Status(attempt[a].mode, { f \in Gated[attempt[a].mode] : ~Found(attempt[a].mode, f) })
  BY DEF Gate
<1>7. attempt' = [attempt EXCEPT ![a] = p]
  BY <1>1, <1>2, <1>3, <1>4, <1>6 DEF Gate, TypeOK
<1>8. attempt'[a] = p /\ \A b \in Attempts : b # a => attempt'[b] = attempt[b]
  BY <1>7 DEF TypeOK
<1>9. attempt[a].state = "go"
  BY DEF QualityGate, At
<1> QED
  BY <1>1, <1>2, <1>3, <1>5, <1>6, <1>8, <1>9 DEF Moved
-----------------------------------------------------------------------------
\* What an attempt at a stage knows of the stages around it.
LEMMA Here ==
    ASSUME TypeOK, NEW a \in Attempts, NEW m, m = attempt[a].mode, NEW n, n = attempt[a].at,
           Stage(a) # "end"
    PROVE  /\ n \in 1 .. Len(Stages[m]) /\ Stage(a) = Stages[m][n] /\ Stage(a) \in Names
           /\ m = "mock" => Stage(a) \notin Tools \cup { "load" }
           /\ Stage(a) = "audio" => m = "mock"
           /\ Past(a) => \A s \in Needs(m, Stage(a)) : Left(a, s)
<1>1. /\ n \in 1 .. Len(Stages[m]) /\ Stage(a) = Stages[m][n] /\ Stage(a) \in Names
      /\ m \in Pipelines /\ Len(Stages[m]) \in Nat
  BY StageIs, ModeIs
<1>2. Ordered(m, Stages[m], Len(Stages[m]))
  BY <1>1, StageOrder
<1>3. ASSUME Past(a), NEW s \in Needs(m, Stage(a)) PROVE Left(a, s)
  <2>0. \A k \in 1 .. Len(Stages[m]) : \A x \in Needs(m, Stages[m][k]) :
          \E j \in 1 .. Len(Stages[m]) : j < k /\ Stages[m][j] = x
    BY <1>2 DEF Ordered
  <2>1. PICK j \in 1 .. Len(Stages[m]) : j < n /\ Stages[m][j] = s
    BY <1>1, <1>3, <2>0
  <2>2. j \in 1 .. Len(Stages[attempt[a].mode]) /\ j < attempt[a].at
    BY <2>1
  <2>3. Left(a, Stages[attempt[a].mode][j])
    BY <1>3, <2>2, Zenon DEF Past
  <2> QED
    BY <2>1, <2>3
<1>4. (m = "mock" => Stage(a) \notin Tools \cup { "load" }) /\ (Stage(a) = "audio" => m = "mock")
  <2>1. CASE n = 1
    BY <1>1, <1>2, <2>1 DEF Ordered, Tools, Product
  <2>2. CASE n # 1
    <3>1. n - 1 \in 1 .. Len(Stages[m]) /\ n - 1 < Len(Stages[m]) /\ (n - 1) + 1 = n
      BY <1>1, <2>2
    <3>2. Follows(m, Stages[m][n - 1], Stages[m][(n - 1) + 1])
      BY <1>2, <3>1 DEF Ordered
    <3> QED
      BY <1>1, <3>1, <3>2 DEF Follows
  <2> QED
    BY <2>1, <2>2
<1> QED
  BY <1>1, <1>3, <1>4

\* The next stage: a fact about the order of stages, or the end.
LEMMA NextStage ==
    ASSUME TypeOK, NEW a \in Attempts, NEW m, m = attempt[a].mode, Stage(a) # "end",
           attempt'[a].mode = m, attempt'[a].at = attempt[a].at + 1
    PROVE  \/ Stage(a)' = "end" /\ Stage(a) = "report"
           \/ Stage(a)' \in Names /\ Follows(m, Stage(a), Stage(a)')
<1>1. PICK n \in 1 .. Len(Stages[m]) : n = attempt[a].at /\ Stage(a) = Stages[m][n]
  BY Here
<1>2. m \in Pipelines /\ Len(Stages[m]) \in Nat
  BY ModeIs
<1>3. CASE n = Len(Stages[m])
  <2>1. Stages[m][Len(Stages[m])] = "report"
    BY <1>2, StageOrder DEF Ordered
  <2> QED
    BY <1>1, <1>2, <1>3, <2>1 DEF Stage
<1>4. CASE n # Len(Stages[m])
  <2>1. n < Len(Stages[m]) /\ n + 1 \in 1 .. Len(Stages[m]) /\ ~(n + 1 > Len(Stages[m]))
    BY <1>1, <1>2, <1>4
  <2>2. Stage(a)' = Stages[m][n + 1]
    BY <1>1, <2>1 DEF Stage
  <2>3. Follows(m, Stages[m][n], Stages[m][n + 1]) /\ Stages[m][n + 1] \in Names
    BY <1>2, <2>1, StageOrder, StagesAre DEF Ordered
  <2> QED
    BY <1>1, <2>2, <2>3
<1> QED
  BY <1>3, <1>4

\* Past the stage it was at, too.
LEMMA PastNext ==
    ASSUME TypeOK, NEW a \in Attempts, Past(a), NEW stage, stage = Stage(a), stage # "end",
           attempt'[a].mode = attempt[a].mode, attempt'[a].at = attempt[a].at + 1,
           \A s \in Names : Left(a, s) => Left(a, s)',
           Left(a, stage)'
    PROVE  Past(a)'
<1>1. PICK m : m = attempt[a].mode
  OBVIOUS
<1>2. PICK n \in 1 .. Len(Stages[m]) : n = attempt[a].at /\ stage = Stages[m][n]
  BY <1>1, Here
<1>3. m \in Pipelines /\ Len(Stages[m]) \in Nat
  BY <1>1, ModeIs
<1>4. ASSUME NEW k \in 1 .. Len(Stages[m]), k < n + 1 PROVE Left(a, Stages[m][k])'
  <2>1. CASE k = n
    BY <1>2, <2>1
  <2>2. CASE k # n
    <3>1. k < n
      BY <1>2, <1>4, <2>2
    <3>2. Left(a, Stages[m][k]) /\ Stages[m][k] \in Names
      BY <1>1, <1>2, <1>3, <3>1, StagesAre DEF Past
    <3> QED
      BY <3>2
  <2> QED
    BY <2>1, <2>2
<1> QED
  BY <1>1, <1>2, <1>4 DEF Past

\* What is left behind stays while the files do.
LEMMA LeftStays ==
    ASSUME NEW a \in Attempts, Moved(a), files' = files, misled \subseteq misled'
    PROVE  \A s \in Names : Left(a, s) => Left(a, s)'
BY DEF Moved, Left, LeftOwn, Mine, Measured

\* What it holds, and has written, at the next stage.
LEMMA CarriedOn ==
    ASSUME TypeOK, NEW a \in Attempts, NEW stage, stage = Stage(a), stage # "end", Moved(a),
           attempt'[a].at = attempt[a].at + 1, attempt'[a].state = "go", misled \subseteq misled',
           NEW c, c = attempt'[a].held,
           attempt[a].mode = "mock" => c = [of |-> a, data |-> "full"],
           attempt[a].mode # "mock" /\ stage = "ffprobe" /\ a \notin misled' => Measured(a, c)',
           attempt[a].mode # "mock" /\ stage \in { "load", "txt", "json", "srt", "quality", "report" } =>
               Sound(a, c)',
           \A o \in Behind(stage) : Published(a, o) => files'[o] = c,
           stage \in Supported /\ Published(a, stage) => files'[stage] = c,
           attempt'[a].passed =>
               /\ stage \in { "quality", "report" } /\ quality'.of = a /\ quality'.status = "passed"
               /\ attempt[a].mode # "mock" /\ a \notin misled' =>
                    NonEmpty("input_meta")' /\ NonEmpty("audio")'
    PROVE  Carried(a)'
<1>1. attempt'[a].mode = attempt[a].mode /\ attempt'[a].requested = attempt[a].requested
  BY DEF Moved
<1>2. PICK t : t = Stage(a)'
  OBVIOUS
<1>3. (t = "end" /\ stage = "report") \/ (t \in Names /\ Follows(attempt[a].mode, stage, t))
  BY <1>1, <1>2, NextStage
<1>4. attempt[a].mode # "mock" /\ t = "input_meta" /\ a \notin misled' => Measured(a, c)'
  BY <1>3 DEF Follows
<1>5. t \in Supported \cup { "quality", "report", "end" } => Sound(a, c)'
  <2>1. CASE attempt[a].mode = "mock"
    BY <2>1 DEF Sound
  <2>2. CASE attempt[a].mode # "mock"
    <3>1. CASE t = "txt"
      <4>1. stage = "load"
        BY <1>3, <2>2, <3>1 DEF Follows
      <4> QED
        BY <2>2, <4>1
    <3>2. CASE t \in { "json", "srt", "quality", "report", "end" }
      <4>1. \/ t = "json" /\ stage = "txt"
            \/ t = "srt" /\ stage = "json"
            \/ t = "quality" /\ stage = "srt"
            \/ t = "report" /\ stage = "quality"
            \/ t = "end" /\ stage = "report"
        <5>1. t # "end" => Follows(attempt[a].mode, stage, t)
          BY <1>3
        <5>2. CASE t = "end"
          BY <1>3, <5>2 DEF Names, Files, Supported
        <5> QED
          BY <3>2, <5>1, <5>2 DEF Follows
      <4> QED
        BY <2>2, <4>1
    <3> QED
      BY <3>1, <3>2 DEF Supported
  <2> QED
    BY <2>1, <2>2
<1>6. attempt'[a].passed => t \in { "report", "end" }
  BY <1>3 DEF Follows
<1>7. ASSUME NEW o \in Behind(t) PROVE o \in Behind(stage) \/ (o = stage /\ o \in Supported)
  <2>1. CASE t = "end" /\ stage = "report"
    BY <1>7, <2>1 DEF Behind
  <2>2. CASE t \in Names /\ Follows(attempt[a].mode, stage, t)
    <3>1. t \in { "json", "srt", "quality", "report" }
      BY <1>7, <2>2 DEF Behind, Names
    <3>2. CASE t = "json"
      BY <1>7, <2>2, <3>2 DEF Behind, Follows, Supported
    <3>3. CASE t = "srt"
      BY <1>7, <2>2, <3>3 DEF Behind, Follows, Supported
    <3>4. CASE t = "quality"
      BY <1>7, <2>2, <3>4 DEF Behind, Follows, Supported
    <3>5. CASE t = "report"
      BY <1>7, <2>2, <3>5 DEF Behind, Follows
    <3> QED
      BY <3>1, <3>2, <3>3, <3>4, <3>5
  <2> QED
    BY <1>3, <2>1, <2>2
<1>8. \A o \in Behind(t) : Published(a, o)' => files'[o] = c
  BY <1>1, <1>7 DEF Published
<1> QED
  BY <1>1, <1>2, <1>4, <1>5, <1>6, <1>8 DEF Carried

\* An attempt that ended without completing.
LEMMA OwnEnd ==
    ASSUME NEW a \in Attempts, attempt'[a].state \in { "fail", "rescue", "killed" }
    PROVE  Own(a)'
BY DEF Own, Active

\* An attempt that begins has nothing behind it and claims nothing.
LEMMA OwnStart ==
    ASSUME TypeInv, Given, NEW a \in Attempts, Start(a)
    PROVE  Moved(a) /\ Own(a)'
<1>1. "go" \in { "orphan" } \cup Active \cup Ended
  BY DEF Active
<1>2. TypeOK /\ attempt[a].held \in Content /\ Stays(a, "go", attempt[a].held)
  BY StateOnly DEF Start, TypeInv
<1>3. /\ attempt'[a].state = "go" /\ attempt'[a].at = attempt[a].at
      /\ attempt'[a].mode = attempt[a].mode /\ attempt'[a].passed = attempt[a].passed
  BY <1>1, <1>2, StaysMoves
<1>4. attempt[a].at = 1 /\ ~attempt[a].passed
  BY DEF Given, Start
<1>5. Past(a)'
  BY <1>3, <1>4 DEF Past
<1>6. Stage(a)' = IF attempt[a].mode = "smoke" THEN "say" ELSE "check"
  <2>1. /\ attempt[a].mode \in Pipelines /\ Len(Stages[attempt[a].mode]) \in Nat \ {0}
        /\ Ordered(attempt[a].mode, Stages[attempt[a].mode], Len(Stages[attempt[a].mode]))
    BY <1>2, ModeIs, StageOrder
  <2>2. ~(1 > Len(Stages[attempt[a].mode]))
    BY <2>1
  <2> QED
    BY <1>3, <1>4, <2>1, <2>2 DEF Stage, Ordered
<1>7. Carried(a)'
  BY <1>3, <1>4, <1>6 DEF Carried, Supported, Behind
<1> QED
  BY <1>1, <1>2, <1>3, <1>5, <1>7, StaysMoved DEF Own

\* Behind the first check all requested outputs are supported.
LEMMA OwnCheck ==
    ASSUME TypeInv, NEW a \in Attempts, Own(a), Check(a)
    PROVE  Moved(a) /\ Own(a)'
<1>1. TypeOK /\ Stage(a) = "check" /\ attempt[a].state = "go" /\ files' = files /\ misled' = misled
  BY DEF TypeInv, Check, At
<1>2. CASE attempt[a].requested \subseteq Supported /\ Onward(a, [of |-> a, data |-> "full"])
  <2>1. [of |-> a, data |-> "full"] \in Content /\ Stage(a) # "end"
    BY <1>1, ContentIs
  <2>2. /\ attempt'[a].state = "go" /\ attempt'[a].held = [of |-> a, data |-> "full"]
        /\ attempt'[a].at = attempt[a].at + 1 /\ attempt'[a].passed = attempt[a].passed
        /\ Moved(a)
    BY <1>1, <1>2, <2>1, OnwardMoves, OnwardMoved
  <2>3. Past(a) /\ Carried(a) /\ ~attempt[a].passed
    BY <1>1 DEF Own, Active, Carried
  <2>4. Left(a, "check")'
    BY <1>2, <2>2 DEF Left, LeftOwn, Moved
  <2>5. Past(a)'
    BY <1>1, <2>1, <2>2, <2>3, <2>4, LeftStays, PastNext DEF Moved
  <2>6. Behind(Stage(a)) = {} /\ Stage(a) \notin Supported
    BY <1>1 DEF Behind, Supported
  <2>7. Carried(a)'
    BY <1>1, <2>1, <2>2, <2>3, <2>6, CarriedOn
  <2> QED
    BY <2>2, <2>5, <2>7 DEF Own
<1>3. ASSUME NEW state \in { "fail", "rescue" }, End(a, state) PROVE Moved(a) /\ Own(a)'
  BY <1>1, <1>3, EndMoves, EndMoved, OwnEnd DEF Ended
<1> QED
  BY <1>2, <1>3 DEF Check

\* What a tool reads goes back to this attempt, or is missing.
LEMMA InputIsOwn ==
    ASSUME TypeOK, NEW a \in Attempts, Past(a), Stage(a) \in Tools, a \notin misled
    PROVE  Mine(a, Input(a))
<1>1. Stage(a) # "end" /\ \A s \in Needs(attempt[a].mode, Stage(a)) : Left(a, s)
  <2>1. Stage(a) # "end"
    BY ToolIs
  <2> QED
    BY <2>1, Here
<1>2. CASE Stage(a) = "mlx_whisper"
  <2>1. Left(a, "ffmpeg_extract_audio")
    BY <1>1, <1>2 DEF Needs
  <2> QED
    BY <1>2, <2>1 DEF Input, Left, LeftOwn
<1>3. CASE Stage(a) = "ffmpeg_generate"
  <2>1. Left(a, "say")
    BY <1>1, <1>3 DEF Needs
  <2> QED
    BY <1>3, <2>1 DEF Input, Left, LeftOwn
<1>4. CASE Stage(a) \in { "ffprobe", "ffmpeg_extract_audio" } /\ attempt[a].mode = "smoke"
  <2>1. Left(a, "ffmpeg_generate")
    BY <1>1, <1>4 DEF Needs
  <2> QED
    BY <1>4, <2>1 DEF Input, Left, LeftOwn
<1>5. CASE /\ Stage(a) \notin { "mlx_whisper", "ffmpeg_generate" }
           /\ ~(Stage(a) \in { "ffprobe", "ffmpeg_extract_audio" } /\ attempt[a].mode = "smoke")
  BY <1>5 DEF Input, Mine
<1> QED
  BY <1>2, <1>3, <1>4, <1>5

\* An attempt that stays at its stage is past the same ones.
LEMMA PastStays ==
    ASSUME TypeOK, NEW a \in Attempts, Past(a), Moved(a), attempt'[a].at = attempt[a].at,
           files' = files, misled \subseteq misled'
    PROVE  Past(a)' /\ Stage(a)' = Stage(a)
<1>1. PICK m \in Pipelines : m = attempt[a].mode /\ attempt'[a].mode = m
  BY ModeIs DEF Moved
<1>2. \A n \in 1 .. Len(Stages[m]) : Stages[m][n] \in Names
  BY StagesAre
<1> QED
  BY <1>1, <1>2, LeftStays DEF Past, Stage

\* A tool that starts holds input of this attempt.
LEMMA OwnSpawn ==
    ASSUME TypeInv, NEW a \in Attempts, Own(a), Spawn(a)
    PROVE  Moved(a) /\ Own(a)'
<1>1. TypeOK /\ Stage(a) \in Tools /\ attempt[a].state = "go" /\ Input(a) \in Content
      /\ files' = files /\ quality' = quality /\ misled' = misled
  BY SpawnIs DEF TypeInv, Spawn
<1>2. PICK state \in { "tool", "hung", "rescue" } :
        state \in { "orphan" } \cup Active \cup Ended /\ Stays(a, state, Input(a))
  BY <1>1, SpawnIs
<1>3. /\ attempt'[a].state = state /\ attempt'[a].held = Input(a)
      /\ attempt'[a].at = attempt[a].at /\ attempt'[a].mode = attempt[a].mode
      /\ attempt'[a].passed = attempt[a].passed /\ Moved(a)
  BY <1>1, <1>2, StaysMoves, StaysMoved
<1>4. Past(a) /\ Carried(a)
  BY <1>1 DEF Own, Active
<1>5. Past(a)' /\ Stage(a)' = Stage(a)
  BY <1>1, <1>3, <1>4, PastStays
<1>6. Carried(a)'
  <2>1. /\ Stage(a) \notin { "end", "report", "quality", "input_meta" } \cup Supported
        /\ attempt[a].mode # "mock"
    <3>1. Stage(a) \notin { "end", "report", "quality", "input_meta" } \cup Supported
      BY <1>1, ToolIs DEF Supported
    <3> QED
      BY <1>1, <3>1, Here
  <2>2. ~attempt[a].passed
    BY <1>4, <2>1 DEF Carried
  <2>3. a \notin misled => Mine(a, Input(a))
    BY <1>1, <1>4, InputIsOwn
  <2>4. Behind(Stage(a)) = {}
    BY <1>1, ToolIs DEF Behind
  <2> QED
    BY <1>1, <1>3, <1>5, <2>1, <2>2, <2>3, <2>4 DEF Carried, Mine
<1> QED
  BY <1>3, <1>5, <1>6 DEF Own

\* A tool ends well: nothing but its product and the logs change, and what
\* earlier stages left behind stays.
LEMMA LeftAfterTool ==
    ASSUME TypeOK, NEW a \in Attempts, Moved(a), NEW stage \in Tools, stage = Stage(a),
           NEW d \in Results[stage], HasInput(a), a \notin misled => attempt[a].held.of = a,
           NEW text \in BOOLEAN, files' = Logged(Produces(a, d), a, text), misled' = misled
    PROVE  /\ \A s \in Names : Left(a, s) => Left(a, s)'
           /\ Left(a, stage)'
           /\ text => files'["logs"] = [of |-> a, data |-> "full"]
<1>1. d \in { "none", "part", "blank", "full" } /\ stage # "check"
  BY ToolIs
<1>2. PICK f : f = Product[stage]
  OBVIOUS
<1>3. PICK fs : fs = Produces(a, d)
  OBVIOUS
<1>4. /\ fs \in [Files -> Content]
      /\ a \notin misled => \A g \in Files : fs[g] = IF g = f THEN [of |-> a, data |-> d] ELSE files[g]
  <2>1. /\ Produces(a, d) \in [Files -> Content]
        /\ \A g \in Files : Produces(a, d)[g] =
             IF g = Product[Stage(a)] THEN [of |-> attempt[a].held.of, data |-> d] ELSE files[g]
    BY <1>1, ProducesIs
  <2> QED
    BY <1>2, <1>3, <2>1
<1>5. /\ \A g \in Files : g # "logs" => files'[g] = fs[g]
      /\ files'["logs"] = [of |-> a, data |-> "full"] \/ files'["logs"] = fs["logs"]
      /\ text => files'["logs"] = [of |-> a, data |-> "full"]
  BY <1>3, <1>4, LoggedIs
<1>6. CASE a \in misled
  BY <1>1, <1>5, <1>6 DEF Left, Moved
<1>7. CASE a \notin misled
  <2>1. f \in { "speech", "video", "stdout", "audio", "raw" }
    BY <1>2, ToolIs
  <2>2. { "speech", "video", "audio", "raw", "input_meta", "logs" } \subseteq Files
    BY DEF Files
  <2>3. files'["logs"] = [of |-> a, data |-> "full"] \/ files'["logs"] = files["logs"]
    BY <1>4, <1>5, <1>7, <2>1, <2>2
  <2>4. files'["input_meta"] = files["input_meta"]
    BY <1>4, <1>5, <1>7, <2>1, <2>2
  <2>5. \A g \in { "speech", "video", "audio", "raw" } :
          files'[g] = IF g = f THEN [of |-> a, data |-> d] ELSE files[g]
    BY <1>4, <1>5, <1>7, <2>2
  <2>6. /\ f = "audio" => d \in { "none", "full" }
        /\ f = "raw" => d \in { "full", "blank" }
    BY <1>2, ToolIs
  <2>7. ASSUME NEW s \in Names, Left(a, s) PROVE Left(a, s)'
    <3>1. CASE s = "input_meta"
      BY <1>7, <2>3, <2>4, <2>7, <3>1 DEF Left, LeftOwn, Measured, Moved
    <3>2. CASE s \in { "say", "ffmpeg_generate", "ffmpeg_extract_audio", "mlx_whisper" }
      BY <1>7, <2>5, <2>6, <2>7, <3>2 DEF Left, LeftOwn, Mine
    <3>3. CASE s \notin { "input_meta", "say", "ffmpeg_generate", "ffmpeg_extract_audio", "mlx_whisper" }
      BY <2>7, <3>3 DEF Left, LeftOwn, Moved
    <3> QED
      BY <3>1, <3>2, <3>3
  <2>8. Left(a, stage)'
    <3>1. CASE stage = "ffprobe"
      BY <3>1 DEF Left, LeftOwn
    <3>2. CASE stage \in { "say", "ffmpeg_generate", "ffmpeg_extract_audio", "mlx_whisper" }
      BY <1>2, <2>5, <2>6, <3>2, ToolIs DEF Left, LeftOwn, Mine
    <3> QED
      BY <3>1, <3>2, ToolIs
  <2> QED
    BY <1>5, <2>7, <2>8
<1> QED
  BY <1>6, <1>7

\* A tool that wrote nothing: either what lies there is counted as another's,
\* or nothing lies there.
LEMMA LeftAfterNothing ==
    ASSUME TypeOK, NEW a \in Attempts, Moved(a), NEW stage \in Tools, stage = Stage(a),
           ToolDoesNothing(a)
    PROVE  /\ \A s \in Names : Left(a, s) => Left(a, s)'
           /\ Left(a, stage)'
<1>1. PICK f : f = Product[stage] /\ f # "stdout"
  BY DEF ToolDoesNothing
<1>2. stage # "check" /\ f \in Files
  BY <1>1, ToolIs
<1>3. PICK text \in BOOLEAN : files' = Logged(files, a, text)
  BY DEF ToolDoesNothing
<1>4. /\ \A g \in Files : g # "logs" => files'[g] = files[g]
      /\ files'["logs"] = [of |-> a, data |-> "full"] \/ files'["logs"] = files["logs"]
  BY <1>3, LoggedIs DEF TypeOK
<1>5. misled' = IF Exists(f) THEN misled \cup {a} ELSE misled
  BY <1>1 DEF ToolDoesNothing
<1>6. CASE a \in misled'
  BY <1>2, <1>6 DEF Left, Moved
<1>7. CASE a \notin misled'
  <2>1. a \notin misled /\ files[f].data = "absent"
    BY <1>5, <1>7 DEF Exists
  <2>2. \A g \in { "speech", "video", "audio", "raw", "input_meta" } : files'[g] = files[g]
    BY <1>4 DEF Files
  <2>3. ASSUME NEW s \in Names, Left(a, s) PROVE Left(a, s)'
    BY <1>4, <1>7, <2>1, <2>2, <2>3 DEF Left, LeftOwn, Mine, Measured, Moved
  <2>4. Left(a, stage)'
    <3>1. /\ stage = "say" => f = "speech"
          /\ stage = "ffmpeg_generate" => f = "video"
          /\ stage = "ffmpeg_extract_audio" => f = "audio"
          /\ stage = "mlx_whisper" => f = "raw"
          /\ stage \in { "say", "ffmpeg_generate", "ffmpeg_extract_audio", "mlx_whisper" }
      BY <1>1, ToolIs
    <3>2. files'[f].data = "absent"
      BY <2>1, <2>2, <3>1
    <3> QED
      BY <3>1, <3>2 DEF Left, LeftOwn, Mine
  <2> QED
    BY <2>3, <2>4
<1> QED
  BY <1>6, <1>7

\* A tool that ended well has left this attempt's product, or the attempt is
\* misled, or nothing is there.
LEMMA OwnToolExits ==
    ASSUME TypeInv, NEW a \in Attempts, Own(a), ToolExits(a)
    PROVE  Moved(a) /\ Own(a)'
<1>1. TypeOK /\ Stage(a) \in Tools /\ attempt[a].state = "tool" /\ attempt[a].held \in Content
  BY ModeIs DEF TypeInv, ToolExits, At, Attempt
<1>2. Past(a) /\ Carried(a)
  BY <1>1 DEF Own, Active
<1>3. /\ Stage(a) \notin { "end", "report", "quality", "input_meta", "load", "txt", "json", "srt" }
      /\ attempt[a].mode # "mock"
  <2>1. Stage(a) \notin { "end", "report", "quality", "input_meta", "load", "txt", "json", "srt" }
    BY <1>1, ToolIs
  <2> QED
    BY <1>1, <2>1, Here
<1>4. /\ ~attempt[a].passed /\ (a \notin misled => Mine(a, attempt[a].held))
      /\ Behind(Stage(a)) = {} /\ Stage(a) \notin Supported
  BY <1>1, <1>2, <1>3 DEF Carried, Behind, Supported
<1>5. PICK stage \in Tools : stage = Stage(a)
  BY <1>1
<1>6. CASE ToolSucceeds(a)
  <2>1. PICK d \in Results[Stage(a)], text \in BOOLEAN :
          /\ files' = Logged(Produces(a, d), a, text \/ (Stage(a) = "ffprobe" /\ d = "full"))
          /\ Onward(a, [of |-> attempt[a].held.of, data |-> d])
    BY <1>6 DEF ToolSucceeds
  <2>2. HasInput(a) /\ misled' = misled /\ (a \notin misled => attempt[a].held.of = a)
    BY <1>4, <1>6 DEF ToolSucceeds, HasInput, Mine
  <2>3. PICK t \in BOOLEAN : t = (text \/ (stage = "ffprobe" /\ d = "full"))
    BY <2>1
  <2>4. d \in { "none", "part", "blank", "full" } /\ (stage = "ffprobe" => d \in { "none", "full" })
    BY <1>5, ToolIs
  <2>5. PICK c : c = [of |-> attempt[a].held.of, data |-> d]
    OBVIOUS
  <2>6. c \in Content /\ Onward(a, c) /\ c.of = attempt[a].held.of /\ c.data = d
    BY <1>1, <2>1, <2>2, <2>4, <2>5, ProducesIs
  <2>7. /\ attempt'[a].state = "go" /\ attempt'[a].held = c
        /\ attempt'[a].at = attempt[a].at + 1 /\ attempt'[a].passed = attempt[a].passed
        /\ attempt'[a].mode = attempt[a].mode /\ Moved(a)
    BY <1>1, <1>3, <2>6, OnwardMoves, OnwardMoved
  <2>8. /\ \A s \in Names : Left(a, s) => Left(a, s)'
        /\ Left(a, stage)'
        /\ t => files'["logs"] = [of |-> a, data |-> "full"]
    <3>1. files' = Logged(Produces(a, d), a, t)
      BY <1>5, <2>1, <2>3
    <3>2. d \in Results[stage]
      BY <1>5
    <3> QED
      BY <1>1, <1>5, <2>2, <2>7, <3>1, <3>2, LeftAfterTool
  <2>9. Past(a)'
    BY <1>1, <1>2, <1>3, <1>5, <2>7, <2>8, PastNext
  <2>10. stage = "ffprobe" /\ a \notin misled' => Measured(a, c)'
    BY <2>2, <2>3, <2>4, <2>6, <2>8 DEF Measured
  <2>11. Carried(a)'
    BY <1>1, <1>3, <1>4, <1>5, <2>2, <2>7, <2>10, CarriedOn
  <2> QED
    BY <2>7, <2>9, <2>11 DEF Own
<1>7. CASE ToolDoesNothing(a)
  <2>1. PICK c \in Content : c = attempt[a].held
    BY <1>1
  <2>2. Onward(a, c) /\ misled \subseteq misled' /\ stage # "ffprobe"
    BY <1>5, <1>7, <2>1, ToolIs DEF ToolDoesNothing
  <2>3. /\ attempt'[a].state = "go" /\ attempt'[a].held = c
        /\ attempt'[a].at = attempt[a].at + 1 /\ attempt'[a].passed = attempt[a].passed
        /\ attempt'[a].mode = attempt[a].mode /\ Moved(a)
    BY <1>1, <1>3, <2>2, OnwardMoves, OnwardMoved
  <2>4. /\ \A s \in Names : Left(a, s) => Left(a, s)'
        /\ Left(a, stage)'
    BY <1>1, <1>5, <1>7, <2>3, LeftAfterNothing
  <2>5. Past(a)'
    BY <1>1, <1>2, <1>3, <1>5, <2>3, <2>4, PastNext
  <2>6. Carried(a)'
    BY <1>1, <1>3, <1>4, <1>5, <2>2, <2>3, CarriedOn
  <2> QED
    BY <2>3, <2>5, <2>6 DEF Own
<1>8. CASE End(a, "rescue")
  BY <1>1, <1>8, EndMoves, EndMoved, OwnEnd DEF Ended
<1> QED
  BY <1>6, <1>7, <1>8 DEF ToolExits

\* A time-out ends the attempt, and nothing is claimed of it.
LEMMA OwnTimeout ==
    ASSUME TypeInv, NEW a \in Attempts, Timeout(a)
    PROVE  Moved(a) /\ Own(a)'
BY EndMoves, EndMoved, OwnEnd DEF Timeout, TypeInv, Ended

\* What is loaded is a whole result of Whisper's, and this attempt's or a misled one's.
LEMMA OwnLoad ==
    ASSUME TypeInv, NEW a \in Attempts, Own(a), Load(a)
    PROVE  Moved(a) /\ Own(a)'
<1>1. /\ TypeOK /\ Stage(a) = "load" /\ attempt[a].state = "go" /\ files' = files
      /\ misled' = misled
  BY DEF TypeInv, Load, At
<1>2. Past(a) /\ Carried(a)
  BY <1>1 DEF Own, Active
<1>3. CASE files["raw"].data \in { "full", "blank" } /\ Onward(a, files["raw"])
  <2>1. PICK c : c = files["raw"]
    OBVIOUS
  <2>2. c \in Content /\ Stage(a) # "end"
    BY <1>1, <2>1 DEF TypeOK, Files
  <2>3. Left(a, "mlx_whisper") /\ attempt[a].mode # "mock"
    <3>1. "mlx_whisper" \in Needs(attempt[a].mode, Stage(a))
      BY <1>1 DEF Needs
    <3> QED
      BY <1>1, <1>2, <2>2, <3>1, Here
  <2>4. c.data \in { "full", "blank" } /\ c.of \in Attempts /\ (a \notin misled => c.of = a)
    BY <1>3, <2>1, <2>2, <2>3, ContentIs DEF Left, LeftOwn, Mine
  <2>5. /\ attempt'[a].state = "go" /\ attempt'[a].held = c
        /\ attempt'[a].at = attempt[a].at + 1 /\ attempt'[a].passed = attempt[a].passed
        /\ attempt'[a].mode = attempt[a].mode /\ Moved(a)
    BY <1>1, <1>3, <2>1, <2>2, OnwardMoves, OnwardMoved
  <2>6. ~attempt[a].passed
    BY <1>1, <1>2 DEF Carried
  <2>7. Left(a, "load")'
    BY DEF Left, LeftOwn
  <2>8. Past(a)'
    BY <1>1, <1>2, <2>5, <2>7, LeftStays, PastNext
  <2>9. Sound(a, c)' /\ Behind(Stage(a)) = {} /\ Stage(a) \notin Supported
    BY <1>1, <2>4 DEF Sound, Behind, Supported
  <2>10. Carried(a)'
    BY <1>1, <2>3, <2>5, <2>6, <2>9, CarriedOn
  <2> QED
    BY <2>5, <2>8, <2>10 DEF Own
<1>4. CASE End(a, "rescue")
  BY <1>1, <1>4, EndMoves, EndMoved, OwnEnd DEF Ended
<1> QED
  BY <1>3, <1>4 DEF Load

\* A file is written: what earlier stages left behind stays.
LEMMA LeftAfterWrite ==
    ASSUME TypeOK, NEW a \in Attempts, Moved(a), NEW f \in Files, f = Stage(a),
           NEW c \in Content, c = attempt[a].held, Carried(a), attempt[a].state = "go",
           files' = [files EXCEPT ![f] = c], misled' = misled
    PROVE  /\ \A s \in Names : Left(a, s) => Left(a, s)'
           /\ Left(a, f)'
           /\ \A g \in Files : files'[g] = IF g = f THEN c ELSE files[g]
<1>1. f \in { "input_meta", "audio", "txt", "json", "srt", "report" }
  <2>1. f \in Names
    BY StageIs DEF Files, Supported
  <2> QED
    BY <2>1 DEF Names, Files, Supported
<1>2. \A g \in Files : files'[g] = IF g = f THEN c ELSE files[g]
  BY DEF TypeOK
<1>3. \A g \in { "speech", "video", "audio", "raw", "input_meta", "logs" } :
        files'[g] = IF g = f THEN c ELSE files[g]
  BY <1>2 DEF Files
<1>4. f = "audio" => c = [of |-> a, data |-> "full"]
  <2>1. Stage(a) # "end"
    BY StageIs DEF Files, Supported
  <2>2. f = "audio" => attempt[a].mode = "mock"
    BY <2>1, Here
  <2> QED
    BY <2>2 DEF Carried
<1>5. f = "input_meta" /\ attempt[a].mode # "mock" /\ a \notin misled => Measured(a, c)
  BY DEF Carried
<1>6. files'["logs"] = files["logs"]
  BY <1>1, <1>3
<1>7. ASSUME NEW s \in Names, Left(a, s) PROVE Left(a, s)'
  <2>1. CASE s = "input_meta"
    <3>1. CASE f = "input_meta"
      BY <1>3, <1>5, <1>6, <2>1, <3>1 DEF Left, LeftOwn, Measured, Moved
    <3>2. CASE f # "input_meta"
      BY <1>3, <1>6, <1>7, <2>1, <3>2 DEF Left, LeftOwn, Measured, Moved
    <3> QED
      BY <3>1, <3>2
  <2>2. CASE s \in { "say", "ffmpeg_generate", "ffmpeg_extract_audio", "mlx_whisper" }
    BY <1>1, <1>3, <1>4, <1>7, <2>2 DEF Left, LeftOwn, Mine
  <2>3. CASE s \notin { "input_meta", "say", "ffmpeg_generate", "ffmpeg_extract_audio", "mlx_whisper" }
    BY <1>7, <2>3 DEF Left, LeftOwn, Moved
  <2> QED
    BY <2>1, <2>2, <2>3
<1>8. Left(a, f)'
  <2>1. CASE f = "input_meta"
    BY <1>3, <1>5, <1>6, <2>1 DEF Left, LeftOwn, Measured, Moved
  <2>2. CASE f # "input_meta"
    BY <1>1, <2>2 DEF Left, LeftOwn
  <2> QED
    BY <2>1, <2>2
<1> QED
  BY <1>2, <1>7, <1>8

\* What is written is what is held, and it is whole.
LEMMA OwnWrite ==
    ASSUME TypeInv, NEW a \in Attempts, Own(a), Write(a)
    PROVE  Moved(a) /\ Own(a)'
<1>1. /\ TypeOK /\ attempt[a].state = "go" /\ quality' = quality /\ misled' = misled
      /\ Past(a) /\ Carried(a)
  BY DEF TypeInv, Write, At, Own, Active
<1>2. PICK f \in Files : f = Stage(a)
  BY DEF Write, At
<1>3. PICK c \in Content : c = attempt[a].held
  BY <1>1, ModeIs DEF Attempt
<1>4. /\ f \in { "input_meta", "audio", "txt", "json", "srt", "report" }
      /\ Stage(a) # "end" /\ f \in Names
  BY <1>1, <1>2, StageIs DEF Names, Files, Supported
<1>5. attempt[a].passed => f = "report"
  BY <1>1, <1>2, <1>4 DEF Carried
<1>6. Behind(f) \subseteq Supported /\ f \notin Behind(f) /\ Supported \subseteq Files
  BY <1>4 DEF Behind, Supported, Files
<1>7. ASSUME Onward(a, c),
             \A s \in Names : Moved(a) /\ Left(a, s) => Left(a, s)',
             Moved(a) => Left(a, f)',
             \A g \in Files : g # f => files'[g] = files[g],
             f \in Supported /\ Published(a, f) => files'[f] = c
      PROVE  Moved(a) /\ Own(a)'
  <2>1. /\ attempt'[a].state = "go" /\ attempt'[a].held = c
        /\ attempt'[a].at = attempt[a].at + 1 /\ attempt'[a].passed = attempt[a].passed
        /\ attempt'[a].mode = attempt[a].mode /\ Moved(a)
    BY <1>1, <1>4, <1>7, OnwardMoves, OnwardMoved
  <2>2. Past(a)'
    BY <1>1, <1>2, <1>4, <1>7, <2>1, PastNext
  <2>3. attempt[a].mode = "mock" => c = [of |-> a, data |-> "full"]
    BY <1>1, <1>2, <1>3, <1>4 DEF Carried
  <2>4. f \in Supported \cup {"report"} => Sound(a, c)'
    BY <1>1, <1>2, <1>3 DEF Carried, Sound
  <2>5. \A o \in Behind(f) : Published(a, o) => files'[o] = c
    BY <1>1, <1>2, <1>3, <1>6, <1>7 DEF Carried
  <2>6. attempt[a].passed =>
          /\ quality'.of = a /\ quality'.status = "passed"
          /\ attempt[a].mode # "mock" /\ a \notin misled' => NonEmpty("input_meta")' /\ NonEmpty("audio")'
    <3>1. f = "report" => \A g \in { "input_meta", "audio" } : files'[g] = files[g]
      BY <1>7 DEF Files
    <3> QED
      BY <1>1, <1>5, <3>1 DEF Carried, NonEmpty
  <2>7. Carried(a)'
    BY <1>1, <1>2, <1>4, <1>5, <1>7, <2>1, <2>3, <2>4, <2>5, <2>6, CarriedOn DEF Supported
  <2> QED
    BY <2>1, <2>2, <2>7 DEF Own
<1>8. CASE attempt[a].mode = "mock" /\ f \in Supported \ attempt[a].requested /\ files' = files
           /\ Onward(a, c)
  <2>1. \A s \in Names : Moved(a) /\ Left(a, s) => Left(a, s)'
    BY <1>1, <1>8, LeftStays
  <2>2. Left(a, f)'
    BY <1>8 DEF Left, LeftOwn, Supported
  <2>3. ~Published(a, f)
    BY <1>8 DEF Published
  <2> QED
    BY <1>7, <1>8, <2>1, <2>2, <2>3
<1>9. CASE files' = [files EXCEPT ![f] = c] /\ Onward(a, c)
  <2>1. Moved(a)
    BY <1>1, <1>4, <1>9, OnwardMoved
  <2>2. /\ \A s \in Names : Left(a, s) => Left(a, s)'
        /\ Left(a, f)'
        /\ \A g \in Files : files'[g] = IF g = f THEN c ELSE files[g]
    BY <1>1, <1>2, <1>3, <1>9, <2>1, LeftAfterWrite
  <2> QED
    BY <1>7, <1>9, <2>2
<1>10. CASE End(a, "rescue")
  BY <1>1, <1>10, EndMoves, EndMoved, OwnEnd DEF Ended
<1> QED
  BY <1>2, <1>3, <1>8, <1>9, <1>10 DEF Write

\* The report passes only if nothing the attempt is judged by is missing.
LEMMA OwnGate ==
    ASSUME TypeInv, NEW a \in Attempts, Own(a), QualityGate(a)
    PROVE  Moved(a) /\ Own(a)'
<1>1. /\ TypeOK /\ Stage(a) = "quality" /\ attempt[a].state = "go" /\ files' = files
      /\ misled' = misled /\ Past(a) /\ Carried(a)
  BY DEF TypeInv, QualityGate, At, Own, Active
<1>2. CASE Gate(a)
  <2>1. /\ Moved(a) /\ attempt'[a].state = "go" /\ attempt'[a].held = attempt[a].held
        /\ attempt'[a].at = attempt[a].at + 1 /\ attempt'[a].mode = attempt[a].mode
        /\ attempt'[a].passed = (quality'.status = "passed") /\ quality'.of = a
        /\ quality'.status = Status(attempt[a].mode, { f \in Gated[attempt[a].mode] : ~Found(attempt[a].mode, f) })
    BY <1>1, <1>2, GateMoves DEF Moved
  <2>2. Left(a, "quality")'
    BY DEF Left, LeftOwn
  <2>3. Past(a)'
    BY <1>1, <2>1, <2>2, LeftStays, PastNext
  <2>4. ASSUME attempt'[a].passed, attempt[a].mode # "mock"
        PROVE  NonEmpty("input_meta")' /\ NonEmpty("audio")'
    <3>1. \A f \in Gated[attempt[a].mode] : NonEmpty(f)
      BY <2>1, <2>4 DEF Status, Found
    <3>2. { "input_meta", "audio" } \subseteq Gated[attempt[a].mode]
      <4>1. attempt[a].mode \in { "real", "smoke" }
        BY <1>1, <2>4, ModeIs DEF Pipelines
      <4> QED
        BY <4>1 DEF Gated
    <3> QED
      BY <1>1, <3>1, <3>2 DEF NonEmpty
  <2>5. attempt[a].mode = "mock" => attempt'[a].held = [of |-> a, data |-> "full"]
    BY <1>1, <2>1 DEF Carried
  <2>6. attempt'[a].passed => quality'.status = "passed"
    BY <2>1
  <2>7. Sound(a, attempt[a].held)' /\ Stage(a) \notin Supported
    <3>1. Sound(a, attempt[a].held)
      BY <1>1 DEF Carried
    <3> QED
      BY <1>1, <2>1, <3>1 DEF Sound, Supported
  <2>8. \A o \in Behind(Stage(a)) : Published(a, o) => files'[o] = attempt[a].held
    BY <1>1 DEF Carried
  <2>9. Carried(a)'
    <3>1. PICK c : c = attempt'[a].held
      OBVIOUS
    <3>2. Sound(a, c)' /\ c = attempt[a].held
      BY <2>1, <2>7, <3>1
    <3> QED
      BY <1>1, <2>1, <2>4, <2>5, <2>6, <2>7, <2>8, <3>1, <3>2, CarriedOn
  <2> QED
    BY <2>1, <2>3, <2>9 DEF Own
<1>3. CASE End(a, "rescue")
  BY <1>1, <1>3, EndMoves, EndMoved, OwnEnd DEF Ended
<1> QED
  BY <1>2, <1>3 DEF QualityGate, Gate

\* What lies behind an attempt that passed its gate and comes to its end.
LEMMA AtTheEnd ==
    ASSUME TypeOK, Given, NEW a \in Attempts, Past(a), Carried(a), Stage(a) = "end", attempt[a].passed
    PROVE  Fresh(a)
<1>1. PICK m \in Pipelines : m = attempt[a].mode /\ Len(Stages[m]) \in Nat \ {0}
  BY ModeIs
<1>2. PICK L \in Nat \ {0} : L = Len(Stages[m])
  BY <1>1
<1>3. /\ attempt[a].at > L /\ attempt[a].at \in Nat
      /\ \A n \in 1 .. L : n < attempt[a].at
  <2>1. attempt[a].at > L
    BY <1>1, <1>2, StageIs
  <2>2. attempt[a].at \in Nat
    BY ModeIs DEF Attempt
  <2> QED
    BY <2>1, <2>2
<1>4. \A n \in 1 .. L : Left(a, Stages[m][n])
  BY <1>1, <1>2, <1>3 DEF Past
<1>5. Ordered(m, Stages[m], L)
  BY <1>1, <1>2, StageOrder
<1>6. \A s \in Needs(m, "quality") : Left(a, s)
  <2>1. PICK n \in 1 .. L : Stages[m][n] = "quality"
    BY <1>5 DEF Ordered
  <2>2. ASSUME NEW s \in Needs(m, "quality") PROVE Left(a, s)
    <3>1. PICK j \in 1 .. L : Stages[m][j] = s
      BY <1>5, <2>1, <2>2 DEF Ordered
    <3> QED
      BY <1>4, <3>1
  <2> QED
    BY <2>2
<1>7. attempt[a].requested \subseteq Supported
  <2>1. CASE m = "smoke"
    BY <1>1, <2>1 DEF Given
  <2>2. CASE m # "smoke"
    <3>1. Stages[m][1] = "check" /\ 1 \in 1 .. L
      BY <1>2, <1>5, <2>2 DEF Ordered
    <3> QED
      BY <1>4, <3>1 DEF Left
  <2> QED
    BY <2>1, <2>2
<1>8. PICK x \in Attempts : /\ a \notin misled => x = a
                            /\ \A f \in Supported : Published(a, f) => Whole(x, f)
  <2>1. Sound(a, attempt[a].held)
    BY DEF Carried
  <2>2. \A f \in Supported : Published(a, f) => files[f] = attempt[a].held
    BY DEF Carried, Behind
  <2> QED
    BY <2>1, <2>2 DEF Sound, Whole
<1>9. ASSUME m # "mock", a \notin misled, NEW f \in { "input_meta", "audio", "logs" } PROVE Whole(a, f)
  <2>1. { "input_meta", "ffmpeg_extract_audio" } \subseteq Needs(m, "quality")
    BY <1>9 DEF Needs
  <2>2. Left(a, "input_meta") /\ Left(a, "ffmpeg_extract_audio")
    BY <1>6, <2>1
  <2>3. NonEmpty("input_meta") /\ NonEmpty("audio")
    BY <1>1, <1>9 DEF Carried
  <2>4. Whole(a, "audio")
    BY <1>9, <2>2, <2>3 DEF Left, LeftOwn, Mine, NonEmpty, Whole
  <2>5. Measured(a, files["input_meta"])
    BY <1>1, <1>9, <2>2 DEF Left, LeftOwn
  <2>6. files["input_meta"].data = "full" /\ files["input_meta"].of = a
    BY <2>3, <2>5 DEF Measured, NonEmpty
  <2>7. files["logs"] = [of |-> a, data |-> "full"]
    BY <2>5, <2>6 DEF Measured
  <2> QED
    BY <2>4, <2>6, <2>7 DEF Whole
<1>10. quality.of = a /\ quality.status = "passed"
  BY DEF Carried
<1> QED
  BY <1>1, <1>7, <1>8, <1>9, <1>10 DEF Fresh

\* Completion is reported on what is fresh.
LEMMA OwnVerdict ==
    ASSUME TypeInv, Given, NEW a \in Attempts, Own(a), Verdict(a)
    PROVE  Moved(a) /\ Own(a)'
<1>1. /\ TypeOK /\ Stage(a) = "end" /\ attempt[a].state = "go" /\ files' = files
      /\ quality' = quality /\ misled' = misled /\ Past(a) /\ Carried(a)
  BY DEF TypeInv, Verdict, At, Own, Active
<1>2. PICK state \in { "complete", "rescue" } :
        End(a, state) /\ (state = "complete" => attempt[a].passed)
  BY DEF Verdict
<1>3. state \in Ended
  BY DEF Ended
<1>4. attempt'[a].state = state /\ Moved(a)
  BY <1>1, <1>2, <1>3, EndMoves, EndMoved
<1>5. CASE state = "rescue"
  BY <1>4, <1>5, OwnEnd
<1>6. CASE state = "complete"
  <2>1. Fresh(a)
    BY <1>1, <1>2, <1>6, AtTheEnd
  <2>2. Fresh(a)'
    BY <1>1, <1>4, <2>1 DEF Fresh, Moved, Whole, Published
  <2>3. attempt'[a].state \notin Active
    BY <1>4, <1>6 DEF Active
  <2> QED
    BY <1>4, <2>2, <2>3 DEF Own
<1> QED
  BY <1>5, <1>6

\* Nothing is claimed of an attempt whose worker is killed.
LEMMA OwnKill ==
    ASSUME TypeInv, NEW a \in Attempts, Kill(a)
    PROVE  Moved(a) /\ Own(a)'
<1>1. TypeOK
  BY DEF TypeInv
<1>2. CASE End(a, "killed")
  BY <1>1, <1>2, EndMoves, EndMoved, OwnEnd DEF Ended
<1>3. CASE attempt' = [attempt EXCEPT ![a].state = "orphan"]
  <2>1. "orphan" \in { "orphan" } \cup Active \cup Ended
    OBVIOUS
  <2>2. attempt[a].held \in Content /\ Stays(a, "orphan", attempt[a].held)
    BY <1>1, <1>3, StateOnly
  <2>3. attempt'[a].state = "orphan" /\ Moved(a)
    BY <1>1, <2>1, <2>2, StaysMoves, StaysMoved
  <2> QED
    BY <2>3 DEF Own, Active
<1> QED
  BY <1>2, <1>3 DEF Kill
-----------------------------------------------------------------------------
(***************************************************************************)
(* The whole of it: workers one after the other do not disturb each other, *)
(* and the tools that killed ones leave do not touch what is published.    *)
(***************************************************************************)
\* A worker that moves is the only one, and everybody else who began is over.
LEMMA Alone ==
    ASSUME ~Overlap, TypeInv, InTurn, NEW a \in Attempts, Start(a) \/ Step(a) \/ Kill(a)
    PROVE  /\ attempt[a].state \notin Ended \cup {"orphan"}
           /\ \A b \in Attempts : b < a => attempt[b].state \in Ended \cup {"orphan"}
           /\ \A b \in Attempts : a < b => attempt[b].state = "idle"
<1>1. attempt[a].state \in { "idle" } \cup Active
  BY DEF Start, Step, Check, Spawn, ToolExits, Timeout, Load, Write, QualityGate, Verdict, Kill,
         At, Active
<1>2. attempt[a].state \notin Ended \cup {"orphan"}
  BY <1>1 DEF Active, Ended
<1>3. ASSUME NEW b \in Attempts, b < a PROVE attempt[b].state \in Ended \cup {"orphan"}
  <2>1. CASE attempt[a].state # "idle"
    BY <1>3, <2>1 DEF InTurn
  <2>2. CASE attempt[a].state = "idle"
    <3>1. Start(a)
      BY <2>2 DEF Step, Check, Spawn, ToolExits, Timeout, Load, Write, QualityGate, Verdict, Kill,
                  At, Active
    <3>2. b \in 1 .. a - 1
      BY <1>3, PipelineAssumption DEF Attempts
    <3> QED
      BY <3>1, <3>2 DEF Start
  <2> QED
    BY <2>1, <2>2
<1> QED
  BY <1>2, <1>3 DEF InTurn

\* Whatever a worker does, it keeps what is claimed of its attempt.
LEMMA StepOwn ==
    ASSUME TypeInv, Given, NEW a \in Attempts, Own(a), Start(a) \/ Step(a) \/ Kill(a)
    PROVE  Moved(a) /\ Own(a)'
BY OwnStart, OwnCheck, OwnSpawn, OwnToolExits, OwnTimeout, OwnLoad, OwnWrite, OwnGate, OwnVerdict,
   OwnKill DEF Step

\* And misleads nobody but itself, and that in the middle of its work.
LEMMA StepMisled ==
    ASSUME TypeInv, NEW a \in Attempts, Start(a) \/ Step(a) \/ Kill(a)
    PROVE  /\ misled \subseteq misled' /\ misled' \subseteq misled \cup {a}
           /\ misled' # misled => attempt'[a].state = "go"
           /\ Start(a) => misled' = misled
<1>1. CASE Start(a)
  BY <1>1 DEF Start
<1>2. CASE ToolExits(a) /\ ToolDoesNothing(a)
  <2>1. TypeOK /\ Stage(a) # "end" /\ attempt[a].held \in Content /\ Onward(a, attempt[a].held)
    BY <1>2, ModeIs, ToolIs DEF TypeInv, ToolExits, ToolDoesNothing, At, Attempt
  <2>2. attempt'[a].state = "go"
    BY <2>1, OnwardMoves
  <2>3. attempt[a].state # "idle"
    BY <1>2 DEF ToolExits, At
  <2> QED
    BY <1>2, <2>2, <2>3 DEF ToolDoesNothing, Start
<1>3. CASE (Step(a) \/ Kill(a)) /\ ~(ToolExits(a) /\ ToolDoesNothing(a))
  BY <1>3 DEF Step, Kill, Check, Spawn, ToolExits, ToolSucceeds, Timeout, Load, Write, QualityGate,
              Verdict, Start
<1> QED
  BY <1>1, <1>2, <1>3

\* What a tool that outlived its worker does, seen from the other attempts.
LEMMA OrphanIs ==
    ASSUME TypeInv, NEW a \in Attempts, OrphanWrites(a)
    PROVE  /\ attempt[a].state = "orphan" /\ attempt'[a].state \in { "orphan", "killed" }
           /\ Moved(a) /\ Own(a)'
           /\ \A o \in Supported : files'[o] = files[o]
           /\ quality' = quality /\ misled \subseteq misled' /\ misled' \subseteq misled \cup Begun
           /\ \A b \in Attempts : b > a /\ attempt[b].state # "idle" => files' = files \/ b \in misled'
<1>1. TypeOK /\ attempt[a].state = "orphan" /\ Stage(a) \in Tools
  BY DEF TypeInv, AtTool, OrphanWrites
<1>2. attempt'[a].state \in { "orphan", "killed" } /\ Moved(a) /\ Own(a)'
  <2>1. CASE End(a, "killed")
    BY <1>1, <2>1, EndMoves, EndMoved, OwnEnd DEF Ended
  <2>2. CASE UNCHANGED attempt
    BY <1>1, <2>2 DEF Moved, Own, Active
  <2> QED
    BY <2>1, <2>2 DEF OrphanWrites
<1>3. \A o \in Supported : files'[o] = files[o]
  BY <1>1, WhateverIs DEF OrphanWrites
<1> QED
  BY <1>1, <1>2, <1>3 DEF OrphanWrites, Begun

\* The attempts after an orphan lose only what a misled one has no claim to.
LEMMA OwnNextTo ==
    ASSUME TypeInv, NEW a \in Attempts, OrphanWrites(a), NEW b \in Attempts, b > a, Own(b)
    PROVE  Own(b)'
<1>1. /\ attempt'[b] = attempt[b]
      /\ \A o \in Supported : files'[o] = files[o]
      /\ quality' = quality /\ misled \subseteq misled'
      /\ \A c \in Attempts : c # a => attempt'[c] = attempt[c]
  <2>1. b # a
    BY PipelineAssumption DEF Attempts
  <2> QED
    BY <2>1, OrphanIs DEF Moved
<1>2. CASE attempt[b].state = "idle"
  BY <1>1, <1>2 DEF Own, Active
<1>3. CASE attempt[b].state # "idle" /\ (files' = files \/ b \in misled')
  <2>1. Stage(b)' = Stage(b)
    BY <1>1 DEF Stage
  <2>2. ASSUME NEW s, Left(b, s) PROVE Left(b, s)'
    BY <1>1, <1>3, <2>2 DEF Left, LeftOwn, Mine, Measured
  <2>3. Past(b) => Past(b)'
    BY <1>1, <2>2 DEF Past
  <2>4. ASSUME Carried(b) PROVE Carried(b)'
    <3>1. \A o \in Behind(Stage(b)) : o \in Supported
      BY DEF Behind, Supported
    <3>2. \A o \in Behind(Stage(b)) : Published(b, o)' => files'[o] = attempt'[b].held
      BY <1>1, <2>4, <3>1 DEF Carried, Published
    <3> QED
      BY <1>1, <1>3, <2>1, <2>4, <3>2 DEF Carried, Sound, Mine, Measured, NonEmpty
  <2>5. ASSUME Fresh(b) PROVE Fresh(b)'
    <3>1. PICK x \in Attempts : /\ b \notin misled => x = b
                                /\ \A f \in Supported : Published(b, f) => Whole(x, f)
      BY <2>5 DEF Fresh
    <3>2. /\ b \notin misled' => x = b
          /\ \A f \in Supported : Published(b, f)' => Whole(x, f)'
      BY <1>1, <3>1 DEF Published, Whole
    <3> QED
      BY <1>1, <1>3, <2>5, <3>2 DEF Fresh, Whole
  <2>6. Latest(b)' => Latest(b)
    <3>1. ASSUME NEW c \in Attempts, c > b PROVE attempt'[c] = attempt[c]
      <4>1. c # a
        BY <3>1, PipelineAssumption DEF Attempts
      <4> QED
        BY <1>1, <4>1
    <3> QED
      BY <3>1 DEF Latest
  <2> QED
    BY <1>1, <2>3, <2>4, <2>5, <2>6 DEF Own
<1> QED
  BY <1>2, <1>3, OrphanIs

\* The invariant holds at the start, where nothing has begun.
LEMMA InitIInv == Init => IInv
<1> SUFFICES ASSUME Init PROVE IInv
  OBVIOUS
<1>1. TypeInv
  BY InitType
<1>2. ASSUME NEW a \in Attempts
      PROVE  /\ attempt[a].state = "idle" /\ attempt[a].at = 1 /\ ~attempt[a].passed
             /\ attempt[a].mode = "smoke" => attempt[a].requested = Supported
             /\ a \notin misled
  BY DEF Init
<1>3. InTurn /\ Given
  BY <1>2 DEF InTurn, Given
<1>4. HasLast
  BY <1>2 DEF HasLast, Begun
<1>5. \A a \in Attempts : Own(a)
  BY <1>2 DEF Own, Active
<1> QED
  BY <1>1, <1>3, <1>4, <1>5 DEF IInv

\* A worker's step keeps it: the other attempts are over or have not begun.
LEMMA WorkIInv ==
    ASSUME ~Overlap, IInv, TypeInv', NEW a \in Attempts, Start(a) \/ Step(a) \/ Kill(a)
    PROVE  IInv'
<1>1. /\ attempt[a].state \notin Ended \cup {"orphan"}
      /\ \A b \in Attempts : b < a => attempt[b].state \in Ended \cup {"orphan"}
      /\ \A b \in Attempts : a < b => attempt[b].state = "idle"
  BY Alone DEF IInv
<1>2. Moved(a) /\ Own(a)'
  BY StepOwn DEF IInv
<1>3. misled' \subseteq misled \cup {a}
  BY StepMisled DEF IInv
<1>4. \A b \in Attempts : b \in Int
  BY PipelineAssumption DEF Attempts
<1>5. InTurn'
  <2>1. ASSUME NEW b \in Attempts, NEW c \in Attempts, c < b, attempt'[b].state # "idle"
        PROVE  attempt'[c].state \in Ended \cup {"orphan"}
    <3>1. ~(a < b)
      BY <1>1, <1>2, <1>4, <2>1 DEF Moved
    <3>2. c < a /\ c # a
      BY <1>4, <2>1, <3>1
    <3> QED
      BY <1>1, <1>2, <3>2 DEF Moved
  <2> QED
    BY <2>1 DEF InTurn
<1>6. HasLast'
  <2>1. a \in Begun'
    BY <1>2 DEF Begun, Moved
  <2>2. ASSUME NEW b \in Begun' PROVE b <= a
    <3>1. b \in Attempts /\ attempt'[b].state # "idle"
      BY <2>2 DEF Begun
    <3>2. ~(a < b)
      BY <1>1, <1>2, <1>4, <3>1 DEF Moved
    <3> QED
      BY <1>4, <3>1, <3>2
  <2> QED
    BY <2>1, <2>2 DEF HasLast
<1>7. Given'
  BY <1>2, <1>3 DEF IInv, Given, Moved
<1>8. ASSUME NEW b \in Attempts, b # a PROVE Own(b)'
  <2>1. attempt'[b] = attempt[b] /\ attempt'[a].state # "idle"
    BY <1>2, <1>8 DEF Moved
  <2>2. CASE b < a
    <3>1. a > b
      BY <1>4, <2>2
    <3>2. ~Latest(b)'
      BY <2>1, <3>1 DEF Latest
    <3> QED
      BY <1>1, <2>1, <2>2, <3>2 DEF Own, Active, Ended
  <2>3. CASE a < b
    BY <1>1, <2>1, <2>3 DEF Own, Active
  <2> QED
    BY <1>4, <1>8, <2>2, <2>3
<1>9. \A b \in Attempts : Own(b)'
  BY <1>2, <1>8
<1> QED
  BY <1>5, <1>6, <1>7, <1>9 DEF IInv

\* So does what a tool writes that outlived its worker.
LEMMA OrphanIInv ==
    ASSUME IInv, TypeInv', NEW a \in Attempts, OrphanWrites(a)
    PROVE  IInv'
<1>1. /\ attempt[a].state = "orphan" /\ attempt'[a].state \in { "orphan", "killed" }
      /\ Moved(a) /\ Own(a)' /\ misled' \subseteq misled \cup Begun
  BY OrphanIs DEF IInv
<1>2. \A b \in Attempts : b \in Int
  BY PipelineAssumption DEF Attempts
<1>3. \A b \in Attempts : attempt'[b].state = "idle" <=> attempt[b].state = "idle"
  BY <1>1 DEF Moved
<1>4. InTurn'
  <2>1. ASSUME NEW b \in Attempts, NEW c \in Attempts, c < b, attempt'[b].state # "idle"
        PROVE  attempt'[c].state \in Ended \cup {"orphan"}
    <3>1. CASE c = a
      BY <1>1, <3>1 DEF Ended
    <3>2. CASE c # a
      BY <1>1, <1>3, <2>1, <3>2 DEF IInv, InTurn, Moved
    <3> QED
      BY <3>1, <3>2
  <2> QED
    BY <2>1 DEF InTurn
<1>5. HasLast'
  <2>1. Begun' = Begun
    BY <1>3 DEF Begun
  <2> QED
    BY <2>1 DEF IInv, HasLast
<1>6. Given'
  <2>1. \A b \in Attempts : attempt[b].state = "idle" => b \notin Begun
    BY DEF Begun
  <2> QED
    BY <1>1, <1>3, <2>1 DEF IInv, Given, Moved
<1>7. ASSUME NEW b \in Attempts PROVE Own(b)'
  <2>1. CASE b < a
    <3>1. attempt[b].state \in Ended \cup {"orphan"} /\ attempt'[b] = attempt[b]
      BY <1>1, <1>2, <2>1 DEF IInv, InTurn, Moved
    <3>2. a > b
      BY <1>2, <2>1
    <3>3. ~Latest(b)'
      BY <1>1, <3>2 DEF Latest
    <3> QED
      BY <3>1, <3>3 DEF Own, Active, Ended
  <2>2. CASE b > a
    BY <2>2, OwnNextTo DEF IInv
  <2> QED
    BY <1>1, <1>2, <2>1, <2>2
<1> QED
  BY <1>4, <1>5, <1>6, <1>7 DEF IInv

\* It is inductive as long as one worker at a time is at work.
LEMMA NextIInv == ~Overlap => (IInv /\ [Next]_vars => IInv')
<1> SUFFICES ASSUME ~Overlap, IInv, [Next]_vars PROVE IInv'
  OBVIOUS
<1>1. TypeInv /\ TypeInv'
  BY NextType DEF IInv
<1>2. CASE UNCHANGED vars
  <2>1. files' = files /\ quality' = quality /\ attempt' = attempt /\ misled' = misled
    BY <1>2 DEF vars
  <2>2. InTurn' /\ HasLast' /\ Given'
    BY <2>1 DEF IInv, InTurn, HasLast, Begun, Given
  <2>3. ASSUME NEW a \in Attempts PROVE Own(a)'
    <3>1. Own(a)
      BY DEF IInv
    <3>2. \A s : Left(a, s) => Left(a, s)'
      BY <2>1 DEF Left, LeftOwn, Mine, Measured
    <3>3. Past(a) => Past(a)'
      BY <2>1, <3>2 DEF Past
    <3>4. Carried(a) => Carried(a)'
      BY <2>1 DEF Carried, Stage, Mine, Measured, Sound, Published, NonEmpty
    <3>5. (Fresh(a) => Fresh(a)') /\ (Latest(a)' => Latest(a))
      BY <2>1 DEF Fresh, Latest, Whole, Published
    <3> QED
      BY <2>1, <3>1, <3>3, <3>4, <3>5 DEF Own
  <2> QED
    BY <1>1, <2>2, <2>3 DEF IInv
<1>3. CASE Next
  BY <1>1, <1>3, WorkIInv, OrphanIInv DEF Next
<1> QED
  BY <1>2, <1>3

\* The invariant holds throughout.
LEMMA Invariant == ~Overlap => (Spec => []IInv)
<1> SUFFICES ASSUME ~Overlap PROVE Spec => []IInv
  OBVIOUS
<1>1. IInv /\ [Next]_vars => IInv'
  BY NextIInv
<1> QED
  BY <1>1, InitIInv, PTL DEF Spec

\* An attempt that reports completion has published its own results and nothing
\* that an earlier one left behind, however that one ended: by itself, by its
\* timeout, by a kill between any two writes.  For any number of attempts, as
\* long as one worker at a time is at work; excepted is an attempt next to which
\* an orphan wrote, or one of whose tools wrote nothing where something lay.
THEOREM CompletedStaysFresh == ~Overlap => (Spec => []CompletedIsFresh)
<1> SUFFICES ASSUME ~Overlap PROVE Spec => []CompletedIsFresh
  OBVIOUS
<1>1. IInv => CompletedIsFresh
  <2> SUFFICES ASSUME IInv, NEW a \in Attempts, attempt[a].state = "complete", Latest(a),
                      a \notin misled
               PROVE  /\ \A f \in Gated[attempt[a].mode] \cap
                              (IF attempt[a].mode = "mock" THEN attempt[a].requested ELSE Files) :
                           files[f].of = a /\ files[f].data \in { "full", "blank" }
                      /\ quality.of = a /\ quality.status = "passed"
    BY DEF CompletedIsFresh
  <2>1. Fresh(a)
    BY DEF IInv, Own
  <2>2. \A f \in Supported : Published(a, f) => Whole(a, f)
    BY <2>1 DEF Fresh
  <2>3. attempt[a].mode \in Pipelines
    BY ModeIs DEF IInv, TypeInv
  <2>4. CASE attempt[a].mode = "mock"
    BY <2>1, <2>2, <2>4 DEF Fresh, Whole, Published, Gated
  <2>5. CASE attempt[a].mode # "mock"
    <3>1. Gated[attempt[a].mode] = Supported \cup { "input_meta", "audio", "logs" }
      BY <2>3, <2>5 DEF Gated, Pipelines
    <3> QED
      BY <2>1, <2>2, <2>5, <3>1 DEF Fresh, Whole, Published
  <2> QED
    BY <2>4, <2>5
<1> QED
  BY <1>1, Invariant, PTL

\* Each output the job asked for is there when the step is completed, whole and
\* all of the same media, for any list of outputs the Controller accepted: also
\* when orphans write next to the attempt.
THEOREM RequestedArePublished == ~Overlap => (Spec => []RequestedPublished)
<1> SUFFICES ASSUME ~Overlap PROVE Spec => []RequestedPublished
  OBVIOUS
<1>1. IInv => RequestedPublished
  <2> SUFFICES ASSUME IInv, NEW a \in Attempts, attempt[a].state = "complete", Latest(a)
               PROVE  \E x \in Attempts : \A o \in attempt[a].requested :
                        o \in Files /\ files[o].of = x /\ files[o].data \in { "full", "blank" }
    BY DEF RequestedPublished
  <2>1. Fresh(a)
    BY DEF IInv, Own
  <2>2. PICK x \in Attempts : \A f \in Supported : Published(a, f) => Whole(x, f)
    BY <2>1 DEF Fresh
  <2>3. ASSUME NEW o \in attempt[a].requested PROVE o \in Files /\ Whole(x, o)
    BY <2>1, <2>2 DEF Fresh, Published, Files
  <2> QED
    BY <2>3 DEF Whole
<1> QED
  BY <1>1, Invariant, PTL

\* plan.md, acceptance criterion 21, for workers that follow one another: what a
\* completed attempt published stays as it is until a later one begins, while
\* the tools of any number of killed attempts still write into the directories.
\* No tool's product is among the outputs: an attempt publishes what it read.
THEOREM NothingPublishedLate == ~Overlap => (Spec => StaleAttemptPublishesNothing)
<1> SUFFICES ASSUME ~Overlap PROVE Spec => StaleAttemptPublishesNothing
  OBVIOUS
<1>1. IInv /\ [Next]_vars =>
        [\A a \in Attempts, o \in Supported :
           attempt[a].state = "complete" /\ (\A b \in Attempts : b > a => attempt'[b].state = "idle")
               => files'[o] = files[o]]_vars
  <2> SUFFICES ASSUME IInv, Next, NEW a \in Attempts, NEW o \in Supported,
                      attempt[a].state = "complete",
                      \A b \in Attempts : b > a => attempt'[b].state = "idle"
               PROVE  files'[o] = files[o]
    BY DEF vars
  <2>1. CASE \E c \in Attempts : OrphanWrites(c)
    BY <2>1, OrphanIs DEF IInv
  <2>2. ASSUME NEW c \in Attempts, Start(c) \/ Step(c) \/ Kill(c) PROVE FALSE
    <3>1. /\ attempt[c].state \notin Ended \cup {"orphan"}
          /\ \A b \in Attempts : c < b => attempt[b].state = "idle"
      BY <2>2, Alone DEF IInv
    <3>2. attempt'[c].state # "idle"
      BY <2>2, StepOwn DEF IInv, Moved
    <3>3. a # c /\ ~(c < a)
      BY <3>1 DEF Ended
    <3>4. c > a
      BY <3>3, PipelineAssumption DEF Attempts
    <3> QED
      BY <3>2, <3>4
  <2> QED
    BY <2>1, <2>2 DEF Next
<1> QED
  BY <1>1, Invariant, PTL DEF Spec, StaleAttemptPublishesNothing
-----------------------------------------------------------------------------
(***************************************************************************)
(* Pipeline implements Publication.                                        *)
(***************************************************************************)
\* All attempts serve the same job.
SameJob == \A a, b \in Attempts : attempt[a].requested = attempt[b].requested

\* The last of a set of attempts, or 0.
LastIn(S) == CHOOSE a \in S \cup {0} : \A b \in S : b <= a

\* There is only one.
LEMMA LastIs ==
    ASSUME NEW S, S \subseteq Attempts, NEW x \in S \cup {0}, \A b \in S : b <= x
    PROVE  LastIn(S) = x
<1>1. \A b \in S : b \in Int /\ b >= 1
  BY PipelineAssumption DEF Attempts
<1>2. ASSUME NEW y \in S \cup {0}, \A b \in S : b <= y PROVE y = x
  BY <1>1, <1>2
<1> QED
  BY <1>2 DEF LastIn

\* What a reader sees as long as the last attempt has not completed.
LEMMA NothingShown ==
    ASSUME ~Completed
    PROVE  [o \in attempt[1].requested |-> AuthorOf(o)] = Promise!Hidden
BY DEF AuthorOf, Promise!Hidden, Promise!Nobody

\* Before the first attempt there is nothing to rely on.
LEMMA PromiseInit == Init => Promise!Init /\ SameJob
<1> SUFFICES ASSUME Init PROVE Promise!Init /\ SameJob
  OBVIOUS
<1>1. \A a \in Attempts : attempt[a].state = "idle" /\ attempt[a].requested = attempt[1].requested
  BY DEF Init
<1>2. Begun = {}
  BY <1>1 DEF Begun
<1>3. LatestBegun = 0
  <2>1. LastIn(Begun) = 0
    BY <1>2, LastIs
  <2> QED
    BY <2>1 DEF LatestBegun, LastIn
<1>4. ~Completed /\ LatestBegun \notin misled
  BY <1>3 DEF Completed, Init
<1>5. SameJob
  BY <1>1 DEF SameJob
<1>6. Completed = FALSE /\ (LatestBegun \in misled) = FALSE
  BY <1>4 DEF Completed
<1> QED
  BY <1>3, <1>4, <1>5, <1>6, NothingShown DEF Promise!Init, Promise!Nobody

\* What a step does that a reader does not see: nothing, or something strays.
LEMMA NothingSeen ==
    ASSUME LatestBegun' = LatestBegun, Completed' = Completed,
           attempt'[1].requested = attempt[1].requested,
           [o \in attempt[1].requested |-> AuthorOf(o)]' = [o \in attempt[1].requested |-> AuthorOf(o)],
           misled \subseteq misled', LatestBegun' \in misled' => LatestBegun # 0
    PROVE  Promise!Next \/ UNCHANGED Promise!vars
<1>1. CASE LatestBegun' \in misled' /\ LatestBegun \notin misled
  <2>1. (LatestBegun \in misled)' = TRUE
    BY <1>1
  <2>2. Promise!Stray
    BY <1>1, <2>1 DEF Promise!Stray, Promise!Nobody
  <2> QED
    BY <2>2 DEF Promise!Next
<1>2. CASE ~(LatestBegun' \in misled' /\ LatestBegun \notin misled)
  <2>1. (LatestBegun \in misled)' = (LatestBegun \in misled)
    BY <1>2
  <2> QED
    BY <2>1, Zenon DEF Promise!vars
<1> QED
  BY <1>1, <1>2

\* The begin of an attempt, the return of a completed one, or nothing that a
\* reader could see.
LEMMA PromiseWork ==
    ASSUME ~Overlap, IInv, IInv', SameJob, NEW a \in Attempts, Start(a) \/ Step(a) \/ Kill(a)
    PROVE  /\ Promise!Next \/ UNCHANGED Promise!vars
           /\ SameJob'
<1>1. /\ attempt[a].state \notin Ended \cup {"orphan"}
      /\ \A b \in Attempts : b < a => attempt[b].state \in Ended \cup {"orphan"}
      /\ \A b \in Attempts : a < b => attempt[b].state = "idle"
  BY Alone DEF IInv
<1>2. /\ attempt'[a].state # "idle" /\ attempt'[a].requested = attempt[a].requested
      /\ \A b \in Attempts : b # a => attempt'[b] = attempt[b]
  BY StepOwn DEF IInv, Moved
<1>3. /\ misled \subseteq misled' /\ misled' \subseteq misled \cup {a}
      /\ misled' # misled => attempt'[a].state = "go"
      /\ Start(a) => misled' = misled
  BY StepMisled DEF IInv
<1>4. /\ a \in Int /\ a >= 1 /\ 1 \in Attempts
      /\ \A b \in Attempts : b \in Int
  BY PipelineAssumption DEF Attempts
<1>5. attempt'[1].requested = attempt[1].requested /\ SameJob'
  BY <1>2, <1>4 DEF SameJob
<1>6. LatestBegun' = a
  <2>1. Begun' \subseteq Attempts /\ a \in Begun' \cup {0}
    BY <1>2 DEF Begun
  <2>2. \A b \in Begun' : b <= a
    BY <1>1, <1>2, <1>4 DEF Begun
  <2>3. LastIn(Begun') = a
    BY <2>1, <2>2, LastIs
  <2> QED
    BY <2>3 DEF LatestBegun, LastIn
<1>7. CASE attempt[a].state = "idle"
  <2>1. Start(a)
    BY <1>7 DEF Step, Check, Spawn, ToolExits, Timeout, Load, Write, QualityGate, Verdict, Kill,
                At, Active
  <2>2. a > LatestBegun
    <3>1. PICK x \in Begun \cup {0} : \A b \in Begun : b <= x
      BY DEF IInv, HasLast
    <3>2. LatestBegun = x
      <4>1. Begun \subseteq Attempts
        BY DEF Begun
      <4>2. LastIn(Begun) = x
        BY <3>1, <4>1, LastIs
      <4> QED
        BY <4>2 DEF LatestBegun, LastIn
    <3>3. CASE x = 0
      BY <1>4, <3>2, <3>3
    <3>4. CASE x \in Begun
      <4>1. x \in Attempts /\ x # a /\ ~(a < x)
        BY <1>1, <1>7, <3>4 DEF Begun
      <4> QED
        BY <1>4, <3>2, <4>1
    <3> QED
      BY <3>1, <3>3, <3>4
  <2>3. attempt'[a].state = "go"
    BY <2>1 DEF Start, IInv, TypeInv, TypeOK
  <2>4. ~Completed'
    BY <1>6, <2>3 DEF Completed
  <2>5. [o \in attempt[1].requested |-> AuthorOf(o)]' = Promise!Hidden
    BY <1>5, <2>4 DEF AuthorOf, Promise!Hidden, Promise!Nobody
  <2>6. a \notin misled'
    BY <1>3, <1>7, <2>1 DEF IInv, Given
  <2>7. Completed' = FALSE /\ (LatestBegun \in misled)' = FALSE
    BY <1>6, <2>4, <2>6 DEF Completed
  <2>8. Promise!Begin(a)
    BY <1>5, <1>6, <2>2, <2>5, <2>7 DEF Promise!Begin
  <2> QED
    BY <1>5, <2>8 DEF Promise!Next
<1>8. CASE attempt[a].state # "idle"
  <2>1. LatestBegun = a
    <3>1. Begun \subseteq Attempts /\ a \in Begun \cup {0}
      BY <1>8 DEF Begun
    <3>2. \A b \in Begun : b <= a
      BY <1>1, <1>4 DEF Begun
    <3>3. LastIn(Begun) = a
      BY <3>1, <3>2, LastIs
    <3> QED
      BY <3>3 DEF LatestBegun, LastIn
  <2>2. ~Completed
    BY <1>1, <2>1 DEF Completed, Ended
  <2>3. CASE attempt'[a].state = "complete"
    <3>1. Completed' /\ misled' = misled
      BY <1>3, <1>4, <1>6, <2>3 DEF Completed
    <3>2. Latest(a)'
      BY <1>1, <1>2, <1>4 DEF Latest
    <3>3. Fresh(a)'
      BY <2>3, <3>2 DEF IInv, Own
    <3>4. PICK x \in Attempts : /\ a \notin misled' => x = a
                                /\ \A f \in Supported : Published(a, f)' => Whole(x, f)'
      BY <3>3 DEF Fresh
    <3>5. ASSUME NEW o \in attempt[1].requested PROVE AuthorOf(o)' = x
      <4>1. o \in attempt'[a].requested
        BY <1>2, <1>4, <3>5 DEF SameJob
      <4>2. o \in Supported /\ Whole(x, o)'
        BY <3>3, <3>4, <4>1 DEF Fresh, Published
      <4> QED
        BY <3>1, <4>2 DEF AuthorOf, Whole, Files
    <3>6. [o \in attempt[1].requested |-> AuthorOf(o)]' = [o \in attempt[1].requested |-> x]
      BY <1>5, <3>5
    <3>7. x \in IF LatestBegun \in misled THEN Attempts ELSE { LatestBegun }
      BY <2>1, <3>1, <3>4
    <3>8. Completed' = TRUE
      BY <3>1 DEF Completed
    <3>9. LatestBegun # 0 /\ LatestBegun' = LatestBegun
          /\ (LatestBegun \in misled)' = (LatestBegun \in misled)
      BY <1>4, <1>6, <2>1, <3>1
    <3>10. Promise!Publish
      BY <1>5, <2>2, <3>6, <3>7, <3>8, <3>9 DEF Promise!Publish, Promise!Nobody
    <3> QED
      BY <1>5, <3>10 DEF Promise!Next
  <2>4. CASE attempt'[a].state # "complete"
    <3>1. ~Completed'
      BY <1>6, <2>4 DEF Completed
    <3>2. [o \in attempt[1].requested |-> AuthorOf(o)]' = [o \in attempt[1].requested |-> AuthorOf(o)]
      BY <1>5, <2>2, <3>1 DEF AuthorOf
    <3>3. LatestBegun' = LatestBegun /\ LatestBegun # 0
      BY <1>4, <1>6, <2>1
    <3>4. Completed' = Completed
      BY <2>2, <3>1 DEF Completed
    <3> QED
      BY <1>3, <1>5, <3>2, <3>3, <3>4, NothingSeen
  <2> QED
    BY <2>3, <2>4
<1> QED
  BY <1>7, <1>8

\* A tool that outlived its worker shows a reader nothing new.
LEMMA PromiseOrphan ==
    ASSUME IInv, IInv', SameJob, NEW a \in Attempts, OrphanWrites(a)
    PROVE  /\ Promise!Next \/ UNCHANGED Promise!vars
           /\ SameJob'
<1>1. /\ attempt[a].state = "orphan" /\ attempt'[a].state \in { "orphan", "killed" }
      /\ attempt'[a].requested = attempt[a].requested
      /\ \A b \in Attempts : b # a => attempt'[b] = attempt[b]
      /\ \A o \in Supported : files'[o] = files[o]
      /\ misled \subseteq misled'
  BY OrphanIs DEF IInv, Moved
<1>2. 1 \in Attempts /\ \A b \in Attempts : b \in Int /\ b >= 1
  BY PipelineAssumption DEF Attempts
<1>3. attempt'[1].requested = attempt[1].requested /\ SameJob'
  BY <1>1, <1>2 DEF SameJob
<1>4. Begun' = Begun /\ Begun \subseteq Attempts
  BY <1>1 DEF Begun
<1>5. LatestBegun' = LatestBegun
  BY <1>4 DEF LatestBegun
<1>6. PICK x \in Begun \cup {0} : x = LatestBegun /\ \A b \in Begun : b <= x
  <2>1. PICK x \in Begun \cup {0} : \A b \in Begun : b <= x
    BY DEF IInv, HasLast
  <2>2. LastIn(Begun) = x
    BY <1>4, <2>1, LastIs
  <2> QED
    BY <2>1, <2>2 DEF LatestBegun, LastIn
<1>7. Completed' = Completed
  <2>1. CASE x = 0
    BY <1>5, <1>6, <2>1 DEF Completed
  <2>2. CASE x = a
    BY <1>1, <1>5, <1>6, <2>2 DEF Completed
  <2>3. CASE x # 0 /\ x # a
    <3>1. attempt'[x] = attempt[x]
      BY <1>1, <1>4, <1>6, <2>3
    <3> QED
      BY <1>5, <1>6, <3>1 DEF Completed
  <2> QED
    BY <2>1, <2>2, <2>3
<1>8. ASSUME NEW o \in attempt[1].requested PROVE AuthorOf(o)' = AuthorOf(o)
  <2>1. CASE ~Completed
    BY <1>7, <2>1 DEF AuthorOf
  <2>2. CASE Completed
    <3>1. x \in Attempts /\ attempt[x].state = "complete"
      BY <1>4, <1>6, <2>2 DEF Completed
    <3>2. Latest(x)
      BY <1>2, <1>6, <3>1 DEF Latest, Begun
    <3>3. Fresh(x) /\ o \in attempt[x].requested
      BY <1>2, <1>8, <3>1, <3>2 DEF IInv, Own, SameJob
    <3>4. files'[o] = files[o]
      BY <1>1, <3>3 DEF Fresh
    <3> QED
      BY <1>7, <2>2, <3>4 DEF AuthorOf
  <2> QED
    BY <2>1, <2>2
<1>9. [o \in attempt[1].requested |-> AuthorOf(o)]' = [o \in attempt[1].requested |-> AuthorOf(o)]
  BY <1>3, <1>8
<1>10. LatestBegun' \in misled' => LatestBegun # 0
  BY <1>2, <1>5 DEF IInv, TypeInv, TypeOK
<1> QED
  BY <1>1, <1>3, <1>5, <1>7, <1>9, <1>10, NothingSeen

\* To a reader who waits for completion the directories are Publication: with an
\* attempt's completion all requested outputs are there at once, whole and of
\* one attempt's media, its own unless something strayed under its hands, and
\* they stay until a later attempt begins.  For any number of attempts,
\* pipelines and requests, with all their failures, as long as one worker at a
\* time is at work on the job.
THEOREM PipelineKeepsPromise == ~Overlap => (Spec => OutputsPromised)
<1> SUFFICES ASSUME ~Overlap PROVE Spec => OutputsPromised
  OBVIOUS
<1>1. Init => Promise!Init /\ SameJob
  BY PromiseInit
<1>2. IInv /\ IInv' /\ SameJob /\ [Next]_vars => SameJob' /\ [Promise!Next]_(Promise!vars)
  <2> SUFFICES ASSUME IInv, IInv', SameJob, [Next]_vars
               PROVE  SameJob' /\ (Promise!Next \/ UNCHANGED Promise!vars)
    OBVIOUS
  <2>1. CASE Next
    BY <2>1, PromiseWork, PromiseOrphan DEF Next
  <2>2. CASE UNCHANGED vars
    BY <2>2 DEF vars, SameJob, Promise!vars, LatestBegun, Begun, Completed, AuthorOf
  <2> QED
    BY <2>1, <2>2
<1>3. Spec => []IInv
  BY Invariant
<1> QED
  BY <1>1, <1>2, <1>3, PTL DEF Spec, OutputsPromised, Promise!Spec
-----------------------------------------------------------------------------
(***************************************************************************)
(* The conversion of segments to cues, for any natural times and           *)
(* transcripts of any length.                                              *)
(***************************************************************************)
\* The only rounding: to the nearest millisecond, and never out of order.
LEMMA RoundNearest ==
    ASSUME NEW t \in Nat
    PROVE  Round(t) \in Nat /\ 10 * Round(t) <= t + 5 /\ t <= 10 * Round(t) + 5
BY SMT DEF Round

\* Rounding keeps the order of times.
LEMMA RoundMonotone ==
    ASSUME NEW t \in Nat, NEW u \in Nat, t <= u
    PROVE  Round(t) <= Round(u)
BY SMT DEF Round

\* One divmod by a unit loses nothing.
LEMMA DivModHour ==
    ASSUME NEW q \in Nat
    PROVE  /\ q \div 3600000 \in Nat /\ q % 3600000 \in Nat /\ q % 3600000 < 3600000
           /\ q = 3600000 * (q \div 3600000) + (q % 3600000)
BY SMT

\* Minutes and hours of a time in seconds.
LEMMA DivModMinute ==
    ASSUME NEW r \in Nat, r < 3600000
    PROVE  /\ r \div 60000 \in 0 .. 59 /\ r % 60000 \in Nat /\ r % 60000 < 60000
           /\ r = 60000 * (r \div 60000) + (r % 60000)
BY SMT

\* Seconds and milliseconds of a time.
LEMMA DivModSecond ==
    ASSUME NEW u \in Nat, u < 60000
    PROVE  /\ u \div 1000 \in 0 .. 59 /\ u % 1000 \in 0 .. 999
           /\ u = 1000 * (u \div 1000) + (u % 1000)
BY SMT

\* The fields are the digits of the rounded time.
LEMMA TimestampFields ==
    ASSUME NEW t \in Nat
    PROVE  /\ Timestamp(t).h \in Nat
           /\ WellFormed(Timestamp(t))
           /\ Millis(Timestamp(t)) = Round(t)
<1>1. PICK q \in Nat : q = Round(t)
  BY RoundNearest
<1>2. PICK r \in Nat : r = q % 3600000 /\ r < 3600000
  BY DivModHour, SMT
<1>3. PICK u \in Nat : u = r % 60000 /\ u < 60000
  BY <1>2, DivModMinute, SMT
<1>4. /\ Timestamp(t).h = q \div 3600000 /\ Timestamp(t).m = r \div 60000
      /\ Timestamp(t).s = u \div 1000 /\ Timestamp(t).ms = u % 1000
  BY <1>1, <1>2, <1>3, SMT DEF Timestamp
<1>5. q \div 3600000 \in Nat /\ q = 3600000 * (q \div 3600000) + r
  BY <1>2, DivModHour, SMT
<1>6. r \div 60000 \in 0 .. 59 /\ r = 60000 * (r \div 60000) + u
  BY <1>2, <1>3, DivModMinute, SMT
<1>7. u \div 1000 \in 0 .. 59 /\ u % 1000 \in 0 .. 999 /\ u = 1000 * (u \div 1000) + (u % 1000)
  BY <1>3, DivModSecond, SMT
<1> QED
  BY <1>1, <1>4, <1>5, <1>6, <1>7, SMT DEF WellFormed, Millis

\* Timestamps are ordered by their fields as by their milliseconds.
LEMMA TimestampMonotone ==
    ASSUME NEW t \in Nat, NEW u \in Nat, t <= u
    PROVE  NotAfter(Timestamp(t), Timestamp(u))
<1>1. Millis(Timestamp(t)) <= Millis(Timestamp(u))
  BY RoundMonotone, TimestampFields, SMT
<1> DEFINE x == Timestamp(t)
           y == Timestamp(u)
<1>2. /\ x.h \in Nat /\ x.m \in 0 .. 59 /\ x.s \in 0 .. 59 /\ x.ms \in 0 .. 999
      /\ y.h \in Nat /\ y.m \in 0 .. 59 /\ y.s \in 0 .. 59 /\ y.ms \in 0 .. 999
  BY TimestampFields, SMT DEF WellFormed
<1> HIDE DEF x, y
<1>3. 3600000 * x.h + 60000 * x.m + 1000 * x.s + x.ms
        <= 3600000 * y.h + 60000 * y.m + 1000 * y.s + y.ms
  BY <1>1, SMT DEF Millis, x, y
<1>4. NotAfter(x, y)
  <2>1. PICK a \in Nat : a = x.h
    BY <1>2
  <2>2. PICK b \in 0 .. 59 : b = x.m
    BY <1>2
  <2>3. PICK c \in 0 .. 59 : c = x.s
    BY <1>2
  <2>4. PICK d \in 0 .. 999 : d = x.ms
    BY <1>2
  <2>5. PICK e \in Nat : e = y.h
    BY <1>2
  <2>6. PICK f \in 0 .. 59 : f = y.m
    BY <1>2
  <2>7. PICK g \in 0 .. 59 : g = y.s
    BY <1>2
  <2>8. PICK h \in 0 .. 999 : h = y.ms
    BY <1>2
  <2>9. 3600000 * a + 60000 * b + 1000 * c + d <= 3600000 * e + 60000 * f + 1000 * g + h
    BY <1>3, <2>1, <2>2, <2>3, <2>4, <2>5, <2>6, <2>7, <2>8, SMT
  <2>10. \/ a < e
         \/ a = e /\ b < f
         \/ a = e /\ b = f /\ c < g
         \/ a = e /\ b = f /\ c = g /\ d <= h
    BY <2>9, SMT
  <2> QED
    BY <2>1, <2>2, <2>3, <2>4, <2>5, <2>6, <2>7, <2>8, <2>10, SMT DEF NotAfter
<1> QED
  BY <1>4, SMT DEF x, y
-----------------------------------------------------------------------------
\* The times of a segment are naturals.
LEMMA SegmentTimes ==
    ASSUME NEW segs \in Transcripts, NEW i \in DOMAIN segs
    PROVE  segs[i].start \in Nat /\ segs[i].end \in Nat
<1>1. PICK n \in 0 .. MaxLength : segs \in [1 .. n -> Segment]
  BY DEF Transcripts
<1>2. segs[i] \in Segment
  BY <1>1
<1> QED
  BY <1>2, SubtitlesAssumption DEF Segment

\* Every timestamp can be read and is within half a millisecond of its time,
\* for any set of times.
THEOREM TimestampsAreExact == TimestampsExact
<1>1. ASSUME NEW t \in Times
      PROVE  /\ WellFormed(Timestamp(t))
             /\ 10 * Millis(Timestamp(t)) <= t + 5 /\ t <= 10 * Millis(Timestamp(t)) + 5
  <2>1. t \in Nat
    BY <1>1, SubtitlesAssumption
  <2> QED
    BY <2>1, TimestampFields, RoundNearest, SMT
<1> QED
  BY <1>1, Zenon DEF TimestampsExact

\* Cues keep the order of the segments' times, for transcripts of any length
\* over any times.
THEOREM CuesInOrder == OrderKept
<1>1. ASSUME NEW segs \in Transcripts, NEW i \in DOMAIN segs, NEW j \in DOMAIN segs
      PROVE  LET cues == SegmentsToSrt(segs) IN
             /\ segs[i].start <= segs[i].end => NotAfter(cues[i].start, cues[i].end)
             /\ segs[i].end <= segs[j].start => NotAfter(cues[i].end, cues[j].start)
  <2>1. /\ segs[i].start \in Nat /\ segs[i].end \in Nat
        /\ segs[j].start \in Nat /\ segs[j].end \in Nat
    BY <1>1, SegmentTimes
  <2>2. segs[i].start <= segs[i].end
          => NotAfter(Timestamp(segs[i].start), Timestamp(segs[i].end))
    BY <2>1, TimestampMonotone
  <2>3. segs[i].end <= segs[j].start
          => NotAfter(Timestamp(segs[i].end), Timestamp(segs[j].start))
    BY <2>1, TimestampMonotone
  <2>4. /\ SegmentsToSrt(segs)[i].start = Timestamp(segs[i].start)
        /\ SegmentsToSrt(segs)[i].end = Timestamp(segs[i].end)
        /\ SegmentsToSrt(segs)[j].start = Timestamp(segs[j].start)
    BY DEF SegmentsToSrt
  <2> QED
    BY <2>2, <2>3, <2>4, Zenon
<1> QED
  BY <1>1, Zenon DEF OrderKept
=============================================================================
