---------------------------- MODULE MCScheduler ----------------------------
(* The scheduler of a Controller started with                                *)
(* `--node-priority <host of node 2>=25`.                                    *)
EXTENDS Dispatch

CONSTANTS ip8, ip9
MCKeys == {ip8, ip9}
MCValues == {-1, 0, 25}
MCKey  == << "id 1", "id 2" >>
MCHost == << ip8, ip9 >>

\* Two whisper steps, an ffmpeg step that avoids node 1, and a pipeline step too
\* long for a node on battery.
MCKind       == << "whisper", "pipeline", "whisper", "ffmpeg" >>
MCAvoid      == << {}, {}, {}, {1} >>
MCMinutes    == << 0, 21, 0, 0 >>
MCMaxWhisper == << 1, 2 >>
MCMaxFfmpeg  == << 1, 1 >>
MCOptions    == << Pair(ip9, 25) >>
MCShell      == << Pair(ip8, 25) >>
MCPriority   ==
    LET app == ControllerStart(MCOptions, MCShell).app
    IN  [n \in NodeIds |-> PriorityOf(app.priorities, MCKey[n], MCHost[n])]

\* A node at rest, one at every limit that still passes, one above a limit.
Rest == [ FreshMetrics EXCEPT !.disk = 100 ]
MCBodies ==
    { Rest,
      [ Rest EXCEPT !.cpu = 85, !.disk = 20, !.battery = TRUE,
                    !.jobs = 2, !.whisper = 1, !.ffmpeg = 1 ],
      [ Rest EXCEPT !.cpu = 86 ] }
=============================================================================
