----------------------------- MODULE MCPipeline -----------------------------
(* Pipeline and the conversion in its stage "srt": a job that asks for all   *)
(* outputs, for one of them, or for one more than there is; the times around *)
(* every carry (of a millisecond, a second, a minute and an hour), with      *)
(* halves to round up and down.                                              *)
EXTENDS Pipeline

MCRequests == { Supported, {"srt"}, {"srt", "vtt"} }
MCTimes == { 0, 5, 15, 9994, 9995, 9996, 10000, 599995, 600000, 35999994, 35999995, 36000005 }
=============================================================================
