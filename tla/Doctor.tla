------------------------------- MODULE Doctor -------------------------------
(***************************************************************************)
(* How machines become workers: `mediaorchard doctor worker-bootstrap      *)
(* --execute` (worker/bootstrap.py) and `doctor worker` (worker/           *)
(* preflight.py) over their targets, one command at a time.  Every stage   *)
(* runs on the target: it may fail for reasons of its own, or never answer *)
(* and be given up after --timeout-seconds.                                *)
(***************************************************************************)
EXTENDS Naturals, Sequences

CONSTANTS
    Targets,    \* the --target options, in their order
    Remote,     \* the targets reached by ssh
    Source,     \* the package: "spec", "wheel" (copied by hand), "copy" (--copy-wheel too)
    WhisperPython,  \* --whisper-python: the "system" python3, or that of bootstrap's "venv"
    Marker,     \* --shared-root-marker: "off", "read", "value" (with its value)
    Found,      \* of a machine: the states it may be in before the first command
    MayUnmount  \* a mount may go away again

Hosts == { Targets[i] : i \in 1 .. Len(Targets) }

\* `targets or ["local"]`: there is one at least.
ASSUME DoctorAssumption ==
    /\ Len(Targets) \in Nat \ {0}
    /\ Remote \subseteq Hosts /\ Source \in { "spec", "wheel", "copy" }
    /\ WhisperPython \in { "system", "venv" }
    /\ Marker \in { "off", "read", "value" } /\ MayUnmount \in BOOLEAN

VARIABLES
    host,    \* the machines
    cmd,     \* the command in progress
    orphan,  \* scripts that go on after their ssh was killed: their next stage, or 0
    layout,  \* history: hosts on which the shared-root layout was made
    seen,    \* history: hosts that had the share when the doctor in progress read its marker
    harmed   \* history: hosts an orphan did damage to since the command began

vars == << host, cmd, orphan, layout, seen, harmed >>
-----------------------------------------------------------------------------
\* At the path of the shared root lies the mounted share, or else `dir`, a
\* directory of the machine's own, in which `stray` is a foreign marker file.
\* ffmpeg and ffprobe may be there for a script, which puts Homebrew in front of
\* ssh's PATH, or for a login shell, and mlx_whisper for the system's python3.
Package == { "mediaorchard", "mlx_whisper" }
Equipment == { "script tools", "login tools", "system whisper" }
Host == [ has : SUBSET Equipment, writable : BOOLEAN, mount : BOOLEAN, dir : BOOLEAN, stray : BOOLEAN,
          wheel : { "none", "part", "full" }, venv : { "none", "part", "full" },
          pip : SUBSET Package ]

CopyStages == IF Source = "copy" THEN << "mkdir", "scp" >> ELSE << >>
WheelStages == IF Source = "spec" THEN << >> ELSE << "test_f" >>

\* Mutant: the virtual environment before the layout.
ScriptVenvFirst ==
    << "python", "venv", "pip", "layout" >> \o WheelStages
    \o << "install", "ffmpeg", "ffprobe", "import", "help" >>

\* build_bootstrap_script: the commands whose failure or effect matters.
Script ==
    << "python", "layout", "venv", "pip" >> \o WheelStages
    \o << "install", "ffmpeg", "ffprobe", "import", "help" >>

\* run_worker_preflight.
Checks == << "python", "ffmpeg", "ffprobe", "mlx_whisper", "shared_root" >>
          \o IF Marker = "off" THEN << >> ELSE << "marker" >>

Stages == [ none |-> << >>, bootstrap |-> CopyStages \o Script, doctor |-> Checks ]

TypeOK ==
    /\ host \in [Hosts -> Host]
    /\ cmd \in [ kind : DOMAIN Stages, i : 1 .. Len(Targets) + 1, at : Nat, stuck : BOOLEAN,
                 ok : BOOLEAN, failed : SUBSET Hosts, exit : { "none", "running", "0", "1" } ]
    /\ cmd.kind # "none" => cmd.at \in 1 .. Len(Stages[cmd.kind])
    /\ orphan \in [Hosts -> 0 .. Len(Script)]
    /\ layout \subseteq Hosts /\ seen \subseteq Hosts /\ harmed \subseteq Hosts

\* Machines nobody prepared yet, and machines in use.
New == [ has : SUBSET Equipment, writable : {FALSE}, mount : BOOLEAN, dir : {TRUE}, stray : BOOLEAN,
         wheel : {"none"}, venv : {"none"}, pip : {{}} ]
  \cup [ has : SUBSET Equipment, writable : BOOLEAN, mount : {FALSE}, dir : {FALSE}, stray : {FALSE},
         wheel : {"none"}, venv : {"none"}, pip : {{}} ]
Ready == [ has : SUBSET Equipment, writable : {FALSE}, mount : BOOLEAN, dir : {TRUE}, stray : BOOLEAN,
           wheel : {"full"}, venv : {"full"}, pip : {Package} ]

ASSUME FoundAssumption == \A h \in Hosts : Found[h] \subseteq New \cup Ready

Init ==
    /\ host \in [Hosts -> New \cup Ready]
    /\ \A h \in Hosts : host[h] \in Found[h]
    /\ cmd = [ kind |-> "none", i |-> 1, at |-> 1, stuck |-> FALSE, ok |-> TRUE,
               failed |-> {}, exit |-> "none" ]
    /\ orphan = [h \in Hosts |-> 0]
    /\ layout = { h \in Hosts : host[h].venv = "full" }
    /\ seen = {} /\ harmed = {}
-----------------------------------------------------------------------------
\* What a stage of the script needs of machine x.  What is left of a damaged
\* environment may do.
Possible(x, stage) ==
    CASE stage = "layout"  -> x.mount \/ x.dir \/ x.writable
      [] stage = "pip"     -> x.venv # "none"
      [] stage = "test_f"  -> x.wheel # "none"
      [] stage = "install" -> x.venv # "none" /\ (Source # "spec" => x.wheel = "full")
      [] stage = "import"  -> "mlx_whisper" \in x.pip
      [] stage = "help"    -> "mediaorchard" \in x.pip
      [] stage \in { "ffmpeg", "ffprobe" } -> "script tools" \in x.has
      [] OTHER             -> TRUE

\* The machine after a stage that succeeded.
Done(x, stage) ==
    CASE stage = "layout" /\ ~x.mount -> [x EXCEPT !.dir = TRUE]
      [] stage = "venv"    -> [x EXCEPT !.venv = "full"]
      [] stage = "scp"     -> [x EXCEPT !.wheel = "full"]
      [] stage = "install" -> [x EXCEPT !.pip = Package]
      [] OTHER             -> x

\* And what one may have made of it that failed, or is cut short: pip removes
\* what it replaces, itself included, before it puts the new in its place.
Cut(x, stage) == { x } \cup
    CASE stage = "layout" /\ x.writable /\ ~x.mount  -> { [x EXCEPT !.dir = TRUE] }
      [] stage = "venv"                              -> { [x EXCEPT !.venv = "part"] }
      [] stage = "pip" /\ x.venv # "none"            -> { [x EXCEPT !.venv = "part"] }
      [] stage = "install" /\ x.venv # "none"        -> { [x EXCEPT !.pip = p] : p \in SUBSET Package }
      [] stage = "scp"                               -> { [x EXCEPT !.wheel = "part"] }
      [] OTHER                                       -> {}

Succeeds(h, stage) ==
    /\ Possible(host[h], stage)
    /\ host' = [host EXCEPT ![h] = Done(@, stage)]
    /\ layout' = IF stage = "layout" THEN layout \cup {h} ELSE layout
Fails(h, stage) ==
    /\ \E x \in Cut(host[h], stage) : host' = [host EXCEPT ![h] = x]
    /\ UNCHANGED layout

\* Whether the python of the worker's Whisper finds mlx_whisper.
FindsWhisper(x) == IF WhisperPython = "venv" THEN "mlx_whisper" \in x.pip ELSE "system whisper" \in x.has

\* Mutant: the marker is read, and its value not compared.
PassesUncompared(x, check) ==
    CASE check \in { "ffmpeg", "ffprobe" } -> "login tools" \in x.has
      [] check = "mlx_whisper"             -> FindsWhisper(x)
      [] check = "shared_root"             -> x.mount \/ x.dir
      [] check = "marker"                  -> x.mount \/ x.stray
      [] OTHER                             -> TRUE

\* What a check of the preflight finds on machine x.
Passes(x, check) ==
    CASE check \in { "ffmpeg", "ffprobe" } -> "login tools" \in x.has
      [] check = "mlx_whisper"             -> FindsWhisper(x)
      [] check = "shared_root"             -> x.mount \/ x.dir
      [] check = "marker"                  -> x.mount \/ (x.stray /\ Marker = "read")
      [] OTHER                             -> TRUE
-----------------------------------------------------------------------------
Running(kind) == cmd.kind = kind /\ cmd.exit = "running"
Target == Targets[cmd.i]
Stage == Stages[cmd.kind][cmd.at]

Begin(kind) ==
    /\ cmd.exit # "running"
    /\ cmd' = [ kind |-> kind, i |-> 1, at |-> 1, stuck |-> FALSE, ok |-> TRUE,
                failed |-> {}, exit |-> "running" ]
    /\ seen' = {} /\ harmed' = {}
    /\ UNCHANGED << host, orphan, layout >>

\* Mutant: one good target will do.
ExitCodeAny(failed) == IF failed # Hosts THEN "0" ELSE "1"

\* Zero if all results are ok.
ExitCode(failed) == IF failed = {} THEN "0" ELSE "1"

\* The result of a target; the last one ends the command.
Result(ok) ==
    LET failed == IF ok THEN cmd.failed ELSE cmd.failed \cup {Target}
    IN  cmd' = [cmd EXCEPT !.i = @ + 1, !.at = 1, !.stuck = FALSE, !.ok = TRUE, !.failed = failed,
                  !.exit = IF cmd.i < Len(Targets) THEN "running" ELSE ExitCode(failed)]

\* Mutant: one stage too many.
ProceedPast(ok) ==
    IF cmd.at <= Len(Stages[cmd.kind]) THEN cmd' = [cmd EXCEPT !.at = @ + 1, !.stuck = FALSE, !.ok = ok]
                                       ELSE Result(ok)

\* A stage came out well: the next one, or the result.
Proceed(ok) ==
    IF cmd.at < Len(Stages[cmd.kind]) THEN cmd' = [cmd EXCEPT !.at = @ + 1, !.stuck = FALSE, !.ok = ok]
                                      ELSE Result(ok)

\* Mutant: without `set -e` the exit code is that of the last command.
FailGoingOn == Proceed(cmd.at < Len(Stages[cmd.kind]))

\* `set -e` ends the script; a failed copy is not followed by it.
Fail == Result(FALSE)

BootstrapStage ==
    /\ Running("bootstrap") /\ ~cmd.stuck
    /\ \/ Succeeds(Target, Stage) /\ Proceed(TRUE)
       \/ Fails(Target, Stage) /\ Fail
    /\ UNCHANGED << orphan, seen, harmed >>

\* Every check is made, whatever the others found; one may fail on its way.
DoctorCheck ==
    /\ Running("doctor") /\ ~cmd.stuck
    /\ \E ok \in { FALSE, Passes(host[Target], Stage) } : Proceed(cmd.ok /\ ok)
    /\ seen' = IF Stage = "marker" /\ host[Target].mount THEN seen \cup {Target} ELSE seen
    /\ UNCHANGED << host, orphan, layout, harmed >>

\* The target does not answer any more.
Hang ==
    /\ cmd.exit = "running"
    /\ cmd' = [cmd EXCEPT !.stuck = TRUE]
    /\ UNCHANGED << host, orphan, layout, seen, harmed >>

\* Mutant: subprocess.run without a timeout.
NoTimeout == FALSE

\* run_command kills ssh, scp or bash and makes a failed result of it, whatever
\* became of the stage.  The script of a remote target goes on there by itself
\* (bound: one per host).
Timeout ==
    LET stage == cmd.at - Len(CopyStages) IN
    /\ cmd.exit = "running" /\ cmd.stuck
    /\ IF cmd.kind = "bootstrap"
       THEN /\ Fail
            /\ Fails(Target, Stage) \/ Succeeds(Target, Stage)
            /\ orphan' = IF Target \in Remote /\ stage > 0 /\ orphan[Target] = 0
                           THEN [orphan EXCEPT ![Target] = stage] ELSE orphan
       ELSE Proceed(FALSE) /\ UNCHANGED << host, layout, orphan >>
    /\ UNCHANGED << seen, harmed >>

\* A script nobody waits for: its stage comes out well, is under way, or ends it.
\* Neither of the commands notices.
OrphanStage(h) ==
    LET stage == Script[orphan[h]] IN
    /\ orphan[h] # 0
    /\ \/ /\ Succeeds(h, stage)
          /\ orphan' = [orphan EXCEPT ![h] = (@ + 1) % (Len(Script) + 1)]
          /\ UNCHANGED harmed
       \/ /\ Fails(h, stage)
          /\ orphan' \in { orphan, [orphan EXCEPT ![h] = 0] }
          /\ harmed' = IF host' = host THEN harmed ELSE harmed \cup {h}
    /\ UNCHANGED << cmd, seen >>

\* The share comes and goes, and wheels are copied by hand.
Mount(h) ==
    /\ host[h].dir
    /\ host[h].mount => MayUnmount
    /\ host' = [host EXCEPT ![h].mount = ~@]
    /\ UNCHANGED << cmd, orphan, layout, seen, harmed >>
CopyByHand(h) ==
    /\ Source # "spec"
    /\ host' = [host EXCEPT ![h].wheel = "full"]
    /\ UNCHANGED << cmd, orphan, layout, seen, harmed >>
-----------------------------------------------------------------------------
CommandStep == BootstrapStage \/ DoctorCheck \/ Timeout

Next ==
    \/ \E kind \in { "bootstrap", "doctor" } : Begin(kind)
    \/ CommandStep \/ Hang
    \/ \E h \in Hosts : OrphanStage(h) \/ Mount(h) \/ CopyByHand(h)

\* The operator's process goes on; that a target answers is not assumed.
Spec == Init /\ [][Next]_vars /\ WF_vars(CommandStep)
-----------------------------------------------------------------------------
\* A target that bootstrap printed PASS for has the environment, the whole
\* package, Whisper and the tools on the script's PATH, and had the layout, also
\* after the targets that follow it, and with scripts of earlier commands still
\* at work on it: unless one of these did damage there while the command ran.
BootstrapPassMeansReady ==
    cmd.kind = "bootstrap" =>
        \A i \in 1 .. cmd.i - 1 : Targets[i] \notin cmd.failed =>
            LET x == host[Targets[i]] IN
            /\ "script tools" \in x.has /\ Targets[i] \in layout
            /\ Targets[i] \notin harmed => x.venv = "full" /\ x.pip = Package

\* findings.md: mount or permission failures fail fast instead of leaving a
\* partially installed Worker venv.  No environment without a layout before it,
\* whatever is cut short, and whatever orphans do.
NoVenvWithoutLayout == \A h \in Hosts : host[h].venv # "none" => h \in layout

\* README, doctor worker with a marker value: exit code 0 only if every target
\* had the share itself at that path, not a directory of its own, and has the
\* tools and, unless an orphan took them away meanwhile, the packages.
DoctorPassMeansShared ==
    cmd.kind = "doctor" /\ cmd.exit = "0" /\ Marker = "value" =>
        \A h \in Hosts :
            /\ h \in seen /\ "login tools" \in host[h].has
            /\ h \notin harmed => FindsWhisper(host[h])

\* A command ends although a target never answers.
CommandEnds == cmd.exit = "running" ~> cmd.exit # "running"
=============================================================================
