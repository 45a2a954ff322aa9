--------------------------- MODULE Rollout_proofs ---------------------------
(***************************************************************************)
(* The safety properties of Doctor and Rollout, for any targets, any       *)
(* package source and marker option, any state the machines are found in,  *)
(* and any jobs.                                                           *)
(***************************************************************************)
EXTENDS Rollout, Integers, TLAPS

\* The stages of both commands.
Names == { "mkdir", "scp", "python", "layout", "venv", "pip", "test_f", "install", "ffmpeg",
           "ffprobe", "import", "help", "mlx_whisper", "shared_root", "marker" }
-----------------------------------------------------------------------------
(***************************************************************************)
(* The lists of stages.                                                    *)
(***************************************************************************)
LEMMA Concat ==
    ASSUME NEW S \in Seq(Names), NEW T \in Seq(Names), NEW C, C = S \o T
    PROVE  /\ C \in Seq(Names) /\ Len(C) = Len(S) + Len(T)
           /\ Len(S) \in Nat /\ Len(T) \in Nat
           /\ \A j \in 1 .. Len(S) : C[j] = S[j]
           /\ \A j \in Len(S) + 1 .. Len(S) + Len(T) : C[j] = T[j - Len(S)]
OBVIOUS

\* The stages of the wheel copy.
LEMMA CopyStagesAre ==
    /\ CopyStages \in Seq(Names) /\ Len(CopyStages) \in Nat
    /\ \A j \in 1 .. Len(CopyStages) : CopyStages[j] \in { "mkdir", "scp" }
<1>1. CASE Source = "copy"
  <2>1. CopyStages = << "mkdir", "scp" >>
    BY <1>1 DEF CopyStages
  <2> QED
    BY <2>1 DEF Names
<1>2. CASE Source # "copy"
  <2>1. CopyStages = << >>
    BY <1>2 DEF CopyStages
  <2> QED
    BY <2>1 DEF Names
<1> QED
  BY <1>1, <1>2

Begins == << "python", "layout", "venv", "pip" >>
Ends   == << "install", "ffmpeg", "ffprobe", "import", "help" >>

\* The stages of the bootstrap script.
LEMMA ScriptIs ==
    /\ Script \in Seq(Names) /\ Len(Script) \in { 9, 10 }
    /\ Script[1] = "python" /\ Script[2] = "layout" /\ Script[3] = "venv"
    /\ \E j \in 1 .. Len(Script) : Script[j] = "install"
    /\ \E j \in 1 .. Len(Script) : Script[j] = "ffmpeg"
<1>1. /\ Begins \in Seq(Names) /\ Ends \in Seq(Names) /\ Len(Begins) = 4 /\ Len(Ends) = 5
      /\ Begins[1] = "python" /\ Begins[2] = "layout" /\ Begins[3] = "venv"
      /\ Ends[1] = "install" /\ Ends[2] = "ffmpeg"
  BY DEF Begins, Ends, Names
<1>2. WheelStages \in Seq(Names) /\ Len(WheelStages) \in { 0, 1 }
  <2>1. CASE Source = "spec"
    <3>1. WheelStages = << >>
      BY <2>1 DEF WheelStages
    <3> QED
      BY <3>1 DEF Names
  <2>2. CASE Source # "spec"
    <3>1. WheelStages = << "test_f" >>
      BY <2>2 DEF WheelStages
    <3> QED
      BY <3>1 DEF Names
  <2> QED
    BY <2>1, <2>2
<1>3. PICK A : A = Begins \o WheelStages
  OBVIOUS
<1>4. PICK w \in { 0, 1 } : w = Len(WheelStages)
  BY <1>2
<1>5. Script = A \o Ends
  BY <1>3 DEF Script, Begins, Ends
<1>6. A \in Seq(Names) /\ Len(A) = 4 + w /\ \A j \in 1 .. 4 : A[j] = Begins[j]
  <2>1. /\ A \in Seq(Names) /\ Len(A) = Len(Begins) + Len(WheelStages)
        /\ \A j \in 1 .. Len(Begins) : A[j] = Begins[j]
    BY <1>1, <1>2, <1>3, Concat
  <2> QED
    BY <1>1, <1>4, <2>1
<1>7. /\ Script \in Seq(Names) /\ Len(Script) = Len(A) + Len(Ends)
      /\ \A j \in 1 .. Len(A) : Script[j] = A[j]
      /\ \A j \in Len(A) + 1 .. Len(A) + Len(Ends) : Script[j] = Ends[j - Len(A)]
  BY <1>1, <1>5, <1>6, Concat
<1>8. Script[1] = "python" /\ Script[2] = "layout" /\ Script[3] = "venv"
  BY <1>1, <1>6, <1>7
<1>9. Script[5 + w] = "install" /\ Script[6 + w] = "ffmpeg"
  BY <1>1, <1>6, <1>7
<1>10. 5 + w \in 1 .. Len(Script) /\ 6 + w \in 1 .. Len(Script) /\ Len(Script) \in { 9, 10 }
  BY <1>1, <1>6, <1>7
<1> QED
  BY <1>7, <1>8, <1>9, <1>10

\* The checks of run_worker_preflight.
LEMMA ChecksAre ==
    /\ Checks \in Seq(Names) /\ Len(Checks) \in { 5, 6 }
    /\ Checks[2] = "ffmpeg" /\ Checks[4] = "mlx_whisper"
    /\ Marker = "value" => Len(Checks) = 6 /\ Checks[6] = "marker"
<1> DEFINE A == << "python", "ffmpeg", "ffprobe", "mlx_whisper", "shared_root" >>
           B == IF Marker = "off" THEN << >> ELSE << "marker" >>
<1>1. A \in Seq(Names) /\ Len(A) = 5 /\ A[2] = "ffmpeg" /\ A[4] = "mlx_whisper"
  BY DEF Names
<1>2. B \in Seq(Names) /\ Len(B) \in { 0, 1 } /\ (Marker = "value" => Len(B) = 1 /\ B[1] = "marker")
  <2>1. CASE Marker = "off"
    BY <2>1
  <2>2. CASE Marker # "off"
    <3>1. B = << "marker" >>
      BY <2>2
    <3> HIDE DEF B
    <3> QED
      BY <2>2, <3>1 DEF Names
  <2> QED
    BY <2>1, <2>2
<1>3. Checks = A \o B
  BY DEF Checks
<1> HIDE DEF A, B
<1>4. A \in Seq(Names) /\ B \in Seq(Names)
  BY <1>1, <1>2
<1>5. /\ Checks \in Seq(Names) /\ Len(Checks) = Len(A) + Len(B)
      /\ \A j \in 1 .. Len(A) : Checks[j] = A[j]
      /\ \A j \in Len(A) + 1 .. Len(A) + Len(B) : Checks[j] = B[j - Len(A)]
  BY <1>3, <1>4, Concat
<1>6. Checks[2] = "ffmpeg" /\ Checks[4] = "mlx_whisper"
  BY <1>1, <1>5
<1>7. ASSUME Marker = "value"
      PROVE  Len(Checks) = 6 /\ Checks[6] = "marker"
  <2>1. Len(B) = 1 /\ B[1] = "marker" /\ Len(A) = 5
    BY <1>1, <1>2, <1>7
  <2>2. 6 \in Len(A) + 1 .. Len(A) + Len(B) /\ 6 - Len(A) = 1
    BY <2>1
  <2>3. Checks[6] = B[6 - Len(A)]
    BY <1>5, <2>2
  <2> QED
    BY <1>5, <2>1, <2>2, <2>3
<1>8. Len(Checks) \in { 5, 6 }
  BY <1>1, <1>2, <1>5
<1> QED
  BY <1>5, <1>6, <1>7, <1>8

\* The stage at k of bootstrap: of the copy, or of the script after it.
LEMMA BootstrapStages ==
    /\ Len(Stages.bootstrap) = Len(CopyStages) + Len(Script)
    /\ \A k \in 1 .. Len(Stages.bootstrap) :
         IF k <= Len(CopyStages) THEN Stages.bootstrap[k] \in { "mkdir", "scp" }
         ELSE /\ k - Len(CopyStages) \in 1 .. Len(Script)
              /\ Stages.bootstrap[k] = Script[k - Len(CopyStages)]
<1>1. Stages.bootstrap = CopyStages \o Script
  BY DEF Stages
<1>2. Len(Script) \in Nat
  BY ScriptIs
<1> QED
  BY <1>1, <1>2, CopyStagesAre, ScriptIs, Concat

\* The stages of both commands, and where each stands.
LEMMA StagesAre ==
    /\ DOMAIN Stages = { "none", "bootstrap", "doctor" } /\ Stages.doctor = Checks
    /\ \A kind \in { "bootstrap", "doctor" } : Len(Stages[kind]) \in Nat \ {0}
<1>1. DOMAIN Stages = { "none", "bootstrap", "doctor" } /\ Stages.doctor = Checks
  BY DEF Stages
<1>2. Len(Stages.bootstrap) \in Nat \ {0}
  BY BootstrapStages, CopyStagesAre, ScriptIs
<1>3. Len(Stages.doctor) \in Nat \ {0}
  BY <1>1, ChecksAre
<1> QED
  BY <1>1, <1>2, <1>3
-----------------------------------------------------------------------------
(***************************************************************************)
(* The inductive invariant.  What a stage of the command brought about     *)
(* lasts, but for what an orphan did harm to; so who is past a stage may   *)
(* count on it.  An orphan may count on the layout only: the stages of the *)
(* command next to it undo its own.                                        *)
(***************************************************************************)
Lasting(h, stage) ==
    /\ stage = "layout"  => h \in layout
    /\ stage = "venv"    => h \in harmed \/ host[h].venv = "full"
    /\ stage = "install" => h \in harmed \/ host[h].pip = Package
    /\ stage = "ffmpeg"  => "script tools" \in host[h].has

\* The command is past its script's stages before k on h.
Past(h, k) == \A j \in 1 .. Len(Script) : j < k => Lasting(h, Script[j])

\* What a check of the preflight found and what is still so.
Sound(h, check) ==
    /\ check = "ffmpeg"      => "login tools" \in host[h].has
    /\ check = "mlx_whisper" => h \in harmed \/ FindsWhisper(host[h])
    /\ check = "marker" /\ Marker = "value" => h \in seen
Checked(h, k) == \A j \in 1 .. Len(Checks) : j < k => Sound(h, Checks[j])

CmdInv ==
    /\ cmd.exit = "running" => cmd.kind # "none" /\ cmd.i <= Len(Targets)
    /\ cmd.exit = "0" => cmd.failed = {} /\ cmd.i = Len(Targets) + 1

OrphanInv == \A h \in Hosts : orphan[h] > 2 => h \in layout

ScriptsInv ==
    /\ \A h \in Hosts : Running("bootstrap") /\ h = Target => Past(h, cmd.at - Len(CopyStages))
    /\ cmd.kind = "bootstrap" => \A i \in 1 .. cmd.i - 1 :
         Targets[i] \notin cmd.failed => Past(Targets[i], Len(Script) + 1)

ChecksInv ==
    /\ \A h \in Hosts : Running("doctor") /\ cmd.ok /\ h = Target => Checked(h, cmd.at)
    /\ cmd.kind = "doctor" => \A i \in 1 .. cmd.i - 1 :
         Targets[i] \notin cmd.failed => Checked(Targets[i], Len(Checks) + 1)

IInv == TypeOK /\ CmdInv /\ NoVenvWithoutLayout /\ OrphanInv /\ ScriptsInv /\ ChecksInv
-----------------------------------------------------------------------------
(***************************************************************************)
(* Machines.                                                               *)
(***************************************************************************)
\* What a stage that comes out well leaves of a machine's packages.
Better(x, y) ==
    /\ x.venv = "full" => y.venv = "full"
    /\ y.pip \in { x.pip, Package }

\* A stage that comes out well makes a machine better.
LEMMA DoneIs ==
    ASSUME NEW x \in Host, NEW stage
    PROVE  /\ Done(x, stage) \in Host /\ Better(x, Done(x, stage))
           /\ Done(x, stage).mount = x.mount /\ Done(x, stage).has = x.has
           /\ stage # "venv" => Done(x, stage).venv = x.venv
           /\ stage = "venv" => Done(x, stage).venv = "full"
           /\ stage = "install" => Done(x, stage).pip = Package
<1>1. CASE stage = "layout" /\ ~x.mount
  BY <1>1 DEF Done, Host, Better, Package
<1>2. CASE stage = "venv"
  BY <1>2 DEF Done, Host, Better, Package
<1>3. CASE stage = "scp"
  BY <1>3 DEF Done, Host, Better, Package
<1>4. CASE stage = "install"
  BY <1>4 DEF Done, Host, Better, Package
<1>5. CASE ~(stage = "layout" /\ ~x.mount) /\ stage \notin { "venv", "scp", "install" }
  BY <1>5 DEF Done, Better
<1> QED
  BY <1>1, <1>2, <1>3, <1>4, <1>5

\* One that is cut short may break the environment, but makes none.
LEMMA CutIs ==
    ASSUME NEW x \in Host, NEW stage, NEW y \in Cut(x, stage)
    PROVE  /\ y \in Host /\ y.mount = x.mount /\ y.has = x.has
           /\ stage # "venv" => (y.venv = "none" <=> x.venv = "none")
<1>1. CASE y = x
  BY <1>1
<1>2. CASE stage = "layout" /\ y = [x EXCEPT !.dir = TRUE]
  BY <1>2 DEF Host
<1>3. CASE stage = "venv" /\ y = [x EXCEPT !.venv = "part"]
  BY <1>3 DEF Host
<1>4. CASE stage = "pip" /\ x.venv # "none" /\ y = [x EXCEPT !.venv = "part"]
  BY <1>4 DEF Host
<1>5. ASSUME NEW p \in SUBSET Package, y = [x EXCEPT !.pip = p], stage = "install"
      PROVE  /\ y \in Host /\ y.mount = x.mount /\ y.has = x.has /\ y.venv = x.venv
  BY <1>5 DEF Host
<1>6. CASE stage = "scp" /\ y = [x EXCEPT !.wheel = "part"]
  BY <1>6 DEF Host
<1>7. \/ y = x
      \/ stage = "layout" /\ y = [x EXCEPT !.dir = TRUE]
      \/ stage = "venv" /\ y = [x EXCEPT !.venv = "part"]
      \/ stage = "pip" /\ x.venv # "none" /\ y = [x EXCEPT !.venv = "part"]
      \/ stage = "install" /\ \E p \in SUBSET Package : y = [x EXCEPT !.pip = p]
      \/ stage = "scp" /\ y = [x EXCEPT !.wheel = "part"]
  <2>1. CASE stage = "layout"
    BY <2>1 DEF Cut
  <2>2. CASE stage = "venv"
    BY <2>2 DEF Cut
  <2>3. CASE stage = "pip"
    BY <2>3 DEF Cut
  <2>4. CASE stage = "install"
    BY <2>4 DEF Cut
  <2>5. CASE stage = "scp"
    BY <2>5 DEF Cut
  <2>6. CASE stage \notin { "layout", "venv", "pip", "install", "scp" }
    BY <2>6 DEF Cut
  <2> QED
    BY <2>1, <2>2, <2>3, <2>4, <2>5, <2>6
<1> QED
  BY <1>1, <1>2, <1>3, <1>4, <1>5, <1>6, <1>7

\* A step of the machine h: the others stay as they are, its mount and its tools
\* do, and a layout may be new.
Moves(h, stage) ==
    /\ host' \in [Hosts -> Host]
    /\ layout' \in { layout, layout \cup {h} }
    /\ \A k \in Hosts :
         /\ host'[k].mount = host[k].mount /\ host'[k].has = host[k].has
         /\ k # h => host'[k] = host[k]
         /\ k # h \/ stage # "venv" => (host'[k].venv = "none" <=> host[k].venv = "none")

\* No damage to machine k but what is noted.
Noted(k) ==
    /\ harmed \subseteq harmed'
    /\ k \in harmed' \/ Better(host[k], host'[k])

\* A stage moves its own machine, one that comes out well to something better.
LEMMA StageMoves ==
    ASSUME TypeOK, NEW h \in Hosts, NEW stage, Succeeds(h, stage) \/ Fails(h, stage)
    PROVE  Moves(h, stage) /\ (Succeeds(h, stage) => Better(host[h], host'[h]))
<1>1. host[h] \in Host
  BY DEF TypeOK
<1>2. PICK x \in Host : /\ host' = [host EXCEPT ![h] = x]
                        /\ x.mount = host[h].mount /\ x.has = host[h].has
                        /\ stage # "venv" => (x.venv = "none" <=> host[h].venv = "none")
                        /\ Succeeds(h, stage) => x = Done(host[h], stage)
  <2>1. CASE Succeeds(h, stage)
    BY <1>1, <2>1, DoneIs DEF Succeeds
  <2>2. CASE Fails(h, stage) /\ ~Succeeds(h, stage)
    <3>1. PICK x \in Cut(host[h], stage) : host' = [host EXCEPT ![h] = x]
      BY <2>2 DEF Fails
    <3>2. /\ x \in Host /\ x.mount = host[h].mount /\ x.has = host[h].has
          /\ stage # "venv" => (x.venv = "none" <=> host[h].venv = "none")
      BY <1>1, CutIs
    <3> QED
      BY <2>2, <3>1, <3>2
  <2> QED
    BY <2>1, <2>2
<1>3. host'[h] = x /\ (\A k \in Hosts \ {h} : host'[k] = host[k]) /\ host' \in [Hosts -> Host]
  BY <1>2 DEF TypeOK
<1>4. layout' \in { layout, layout \cup {h} }
  BY DEF Succeeds, Fails
<1>5. Succeeds(h, stage) => Better(host[h], host'[h])
  BY <1>1, <1>2, <1>3, DoneIs
<1> QED
  BY <1>2, <1>3, <1>4, <1>5 DEF Moves

\* The machines that do not move have nothing to note.
LEMMA OthersNoted ==
    ASSUME NEW h \in Hosts, NEW stage, Moves(h, stage), harmed \subseteq harmed',
           NEW k \in Hosts, k # h \/ Better(host[h], host'[h])
    PROVE  Noted(k)
BY DEF Moves, Noted, Better

\* A stage that succeeded has brought about what lasts.
LEMMA SuccessLasts ==
    ASSUME TypeOK, NEW h \in Hosts, NEW stage, Succeeds(h, stage)
    PROVE  Lasting(h, stage)'
<1>1. host[h] \in Host /\ host'[h] = Done(host[h], stage)
  BY DEF TypeOK, Succeeds
<1>2. stage = "layout" => h \in layout'
  BY DEF Succeeds
<1>3. stage = "ffmpeg" => "script tools" \in host'[h].has
  <2>1. Possible(host[h], stage) /\ host'[h].has = host[h].has
    BY <1>1, DoneIs DEF Succeeds
  <2> QED
    BY <2>1 DEF Possible
<1>4. (stage = "venv" => host'[h].venv = "full") /\ (stage = "install" => host'[h].pip = Package)
  BY <1>1, DoneIs
<1> QED
  BY <1>2, <1>3, <1>4 DEF Lasting

\* What lasts is undone only where it is noted.
LEMMA LastingStays ==
    ASSUME NEW h \in Hosts, NEW stage, Moves(h, stage), NEW k \in Hosts, Noted(k), NEW s, Lasting(k, s)
    PROVE  Lasting(k, s)'
BY DEF Moves, Noted, Better, Lasting

\* So is what the command is past.
LEMMA PastStays ==
    ASSUME NEW h \in Hosts, NEW stage, Moves(h, stage), NEW k \in Hosts, Noted(k), NEW n, Past(k, n)
    PROVE  Past(k, n)'
BY LastingStays DEF Past

\* And what a check has found, mounts apart.
LEMMA CheckedStays ==
    ASSUME NEW h \in Hosts, NEW stage, Moves(h, stage), seen \subseteq seen',
           NEW k \in Hosts, Noted(k), NEW n, Checked(k, n)
    PROVE  Checked(k, n)'
<1>1. host'[k].has = host[k].has /\ (k \in harmed => k \in harmed')
  BY DEF Moves, Noted
<1>2. FindsWhisper(host[k]) => k \in harmed' \/ FindsWhisper(host'[k])
  BY <1>1 DEF Noted, Better, FindsWhisper, Package
<1> QED
  BY <1>1, <1>2 DEF Checked, Sound

\* Being past a stage, and the stage after it.
LEMMA PastNext ==
    ASSUME NEW h, NEW n \in 1 .. Len(Script), NEW m, m = n + 1, Past(h, n)', Lasting(h, Script[n])'
    PROVE  Past(h, m)'
<1>1. Len(Script) \in Nat
  BY ScriptIs
<1>2. \A j \in 1 .. Len(Script) : j < m => j < n \/ j = n
  BY <1>1
<1> QED
  BY <1>2 DEF Past

\* Being past a check, and the check after it.
LEMMA CheckedNext ==
    ASSUME NEW h, NEW n \in 1 .. Len(Checks), NEW m, m = n + 1, Checked(h, n)', Sound(h, Checks[n])'
    PROVE  Checked(h, m)'
<1>1. Len(Checks) \in Nat
  BY ChecksAre
<1>2. \A j \in 1 .. Len(Checks) : j < m => j < n \/ j = n
  BY <1>1
<1> QED
  BY <1>2 DEF Checked

\* Before its first stage a command is past nothing.
LEMMA NotYetPast ==
    ASSUME NEW h, NEW n \in Int, n <= 1
    PROVE  Past(h, n) /\ Past(h, n)' /\ Checked(h, n) /\ Checked(h, n)'
<1>1. Len(Script) \in Nat /\ Len(Checks) \in Nat
  BY ScriptIs, ChecksAre
<1> QED
  BY <1>1 DEF Past, Checked

\* The layout is the second stage, the environment a later one.
LEMMA LayoutBeforeVenv ==
    ASSUME NEW h \in Hosts, NEW n \in 1 .. Len(Script)
    PROVE  /\ Script[n] = "venv" => n > 2
           /\ n > 2 /\ Past(h, n) => h \in layout
<1>1. Len(Script) \in { 9, 10 } /\ (Script[n] = "venv" => n # 1 /\ n # 2)
  BY ScriptIs
<1>2. n > 2 /\ Past(h, n) => Lasting(h, Script[2])
  BY <1>1 DEF Past
<1> QED
  BY <1>1, <1>2, ScriptIs DEF Lasting

\* A machine that gets its environment after the layout keeps the order.
LEMMA VenvStays ==
    ASSUME TypeOK, NoVenvWithoutLayout, NEW h \in Hosts, NEW stage, Moves(h, stage),
           stage = "venv" => h \in layout
    PROVE  NoVenvWithoutLayout'
BY DEF NoVenvWithoutLayout, Moves
-----------------------------------------------------------------------------
(***************************************************************************)
(* Commands.                                                               *)
(***************************************************************************)
CmdType ==
    /\ cmd \in [ kind : DOMAIN Stages, i : 1 .. Len(Targets) + 1, at : Nat, stuck : BOOLEAN,
                 ok : BOOLEAN, failed : SUBSET Hosts, exit : { "none", "running", "0", "1" } ]
    /\ cmd.kind # "none" => cmd.at \in 1 .. Len(Stages[cmd.kind])

\* The parts of the type invariant.
LEMMA TypeParts ==
    TypeOK <=> /\ host \in [Hosts -> Host] /\ CmdType /\ orphan \in [Hosts -> 0 .. Len(Script)]
               /\ layout \subseteq Hosts /\ seen \subseteq Hosts /\ harmed \subseteq Hosts
BY DEF TypeOK, CmdType

\* The target of the command is a machine.
LEMMA TargetIs ==
    ASSUME CmdType, CmdInv, cmd.exit = "running"
    PROVE  Target \in Hosts /\ cmd.i \in 1 .. Len(Targets)
<1>1. Len(Targets) \in Nat
  BY DoctorAssumption
<1>2. cmd.i \in 1 .. Len(Targets)
  BY <1>1 DEF CmdType, CmdInv
<1> QED
  BY <1>2 DEF Target, Hosts

\* The result of a target, and what comes after it.
LEMMA ResultIs ==
    ASSUME CmdType, CmdInv, cmd.exit = "running", NEW ok \in BOOLEAN, Result(ok)
    PROVE  /\ CmdType' /\ CmdInv'
           /\ cmd'.kind = cmd.kind /\ cmd'.i = cmd.i + 1 /\ cmd'.at = 1
           /\ cmd'.failed = IF ok THEN cmd.failed ELSE cmd.failed \cup {Target}
<1> DEFINE failed == IF ok THEN cmd.failed ELSE cmd.failed \cup {Target}
           exit == IF cmd.i < Len(Targets) THEN "running" ELSE ExitCode(failed)
<1>1. Target \in Hosts /\ cmd.i \in 1 .. Len(Targets) /\ Len(Targets) \in Nat
  BY TargetIs, DoctorAssumption
<1>2. cmd' = [cmd EXCEPT !.i = @ + 1, !.at = 1, !.stuck = FALSE, !.ok = TRUE,
                         !.failed = failed, !.exit = exit]
  BY DEF Result
<1>3. failed \subseteq Hosts /\ exit \in { "none", "running", "0", "1" }
  BY <1>1 DEF CmdType, ExitCode
<1>4. exit = "0" => failed = {} /\ cmd.i = Len(Targets)
  BY <1>1 DEF ExitCode
<1>5. exit = "running" => cmd.i + 1 <= Len(Targets)
  BY <1>1 DEF ExitCode
<1> HIDE DEF failed, exit
<1>6. /\ cmd'.kind = cmd.kind /\ cmd'.i = cmd.i + 1 /\ cmd'.at = 1 /\ cmd'.failed = failed
      /\ cmd'.exit = exit /\ cmd'.stuck = FALSE /\ cmd'.ok = TRUE
  BY <1>2 DEF CmdType
<1>7. cmd' \in [ kind : DOMAIN Stages, i : 1 .. Len(Targets) + 1, at : Nat, stuck : BOOLEAN,
                 ok : BOOLEAN, failed : SUBSET Hosts, exit : { "none", "running", "0", "1" } ]
  <2>1. cmd.i + 1 \in 1 .. Len(Targets) + 1 /\ cmd.kind \in DOMAIN Stages
    BY <1>1 DEF CmdType
  <2>2. cmd' = [ kind |-> cmd.kind, i |-> cmd.i + 1, at |-> 1, stuck |-> FALSE, ok |-> TRUE,
                 failed |-> failed, exit |-> exit ]
    BY <1>2 DEF CmdType
  <2> QED
    BY <1>3, <2>1, <2>2
<1>8. cmd.kind # "none" => 1 \in 1 .. Len(Stages[cmd.kind])
  BY StagesAre DEF CmdType
<1>9. CmdType'
  BY <1>6, <1>7, <1>8 DEF CmdType
<1>10. CmdInv'
  BY <1>4, <1>5, <1>6 DEF CmdInv
<1> QED
  BY <1>6, <1>9, <1>10 DEF failed

\* The next stage of the same target, or its result after the last stage.
LEMMA ProceedIs ==
    ASSUME CmdType, CmdInv, cmd.exit = "running", NEW ok \in BOOLEAN, Proceed(ok)
    PROVE  /\ CmdType' /\ CmdInv' /\ cmd'.kind = cmd.kind
           /\ \/ /\ cmd'.i = cmd.i /\ cmd'.failed = cmd.failed /\ cmd'.at = cmd.at + 1
                 /\ cmd'.ok = ok /\ cmd'.exit = "running"
              \/ /\ cmd.at = Len(Stages[cmd.kind]) /\ cmd'.i = cmd.i + 1 /\ cmd'.at = 1
                 /\ cmd'.failed = IF ok THEN cmd.failed ELSE cmd.failed \cup {Target}
<1>1. cmd.kind \in { "bootstrap", "doctor" } /\ Len(Stages[cmd.kind]) \in Nat /\ cmd.at \in 1 .. Len(Stages[cmd.kind])
  BY StagesAre DEF CmdType, CmdInv
<1>2. CASE cmd.at < Len(Stages[cmd.kind])
  <2>1. cmd' = [cmd EXCEPT !.at = @ + 1, !.stuck = FALSE, !.ok = ok]
    BY <1>2 DEF Proceed
  <2>2. cmd.at + 1 \in 1 .. Len(Stages[cmd.kind])
    BY <1>1, <1>2
  <2>3. /\ cmd'.kind = cmd.kind /\ cmd'.i = cmd.i /\ cmd'.failed = cmd.failed
        /\ cmd'.at = cmd.at + 1 /\ cmd'.ok = ok /\ cmd'.exit = "running"
    BY <2>1 DEF CmdType
  <2>4. CmdType'
    <3>1. cmd' = [ kind |-> cmd.kind, i |-> cmd.i, at |-> cmd.at + 1, stuck |-> FALSE, ok |-> ok,
                   failed |-> cmd.failed, exit |-> cmd.exit ]
      BY <2>1 DEF CmdType
    <3>2. cmd' \in [ kind : DOMAIN Stages, i : 1 .. Len(Targets) + 1, at : Nat, stuck : BOOLEAN,
                     ok : BOOLEAN, failed : SUBSET Hosts, exit : { "none", "running", "0", "1" } ]
      BY <1>1, <2>2, <3>1 DEF CmdType
    <3> QED
      BY <2>2, <2>3, <3>2 DEF CmdType
  <2> QED
    BY <2>3, <2>4 DEF CmdInv
<1>3. CASE ~(cmd.at < Len(Stages[cmd.kind]))
  <2>1. Result(ok) /\ cmd.at = Len(Stages[cmd.kind])
    BY <1>1, <1>3 DEF Proceed
  <2> QED
    BY <2>1, ResultIs
<1> QED
  BY <1>2, <1>3

\* Results of before, and one more.
LEMMA EarlierResults ==
    ASSUME CmdType, CmdInv, cmd.exit = "running", NEW i \in 1 .. cmd.i
    PROVE  Targets[i] \in Hosts /\ (i \in 1 .. cmd.i - 1 \/ Targets[i] = Target)
<1>1. cmd.i \in 1 .. Len(Targets) /\ Len(Targets) \in Nat
  BY TargetIs, DoctorAssumption
<1>2. i \in 1 .. Len(Targets)
  BY <1>1
<1> QED
  BY <1>1, <1>2 DEF Target, Hosts

\* A bootstrap goes on, or gives up a target.
LEMMA BootstrapAt ==
    ASSUME TypeOK, CmdInv, Running("bootstrap"), NEW n, n = cmd.at - Len(CopyStages)
    PROVE  /\ n \in Int
           /\ n < 1 => Stage \in { "mkdir", "scp" }
           /\ n >= 1 => n \in 1 .. Len(Script) /\ Stage = Script[n]
           /\ cmd.at = Len(Stages[cmd.kind]) => n = Len(Script)
<1>1. /\ cmd.kind = "bootstrap" /\ cmd.at \in 1 .. Len(Stages.bootstrap)
      /\ Stage = Stages.bootstrap[cmd.at]
  BY DEF Running, TypeOK, Stage
<1>2. Len(CopyStages) \in Nat /\ Len(Script) \in Nat
  BY CopyStagesAre, ScriptIs
<1>3. Len(Stages.bootstrap) = Len(CopyStages) + Len(Script)
  BY BootstrapStages
<1>4. IF cmd.at <= Len(CopyStages) THEN Stage \in { "mkdir", "scp" }
      ELSE n \in 1 .. Len(Script) /\ Stage = Script[n]
  BY <1>1, BootstrapStages
<1> QED
  BY <1>1, <1>2, <1>3, <1>4

\* The command is at a stage of its script only after the layout, if that
\* stage makes the environment.
LEMMA CommandMoves ==
    ASSUME IInv, Running("bootstrap"), NEW h \in Hosts, h = Target, NEW stage, stage = Stage,
           Succeeds(h, stage) \/ Fails(h, stage)
    PROVE  /\ Moves(h, stage) /\ NoVenvWithoutLayout'
           /\ Succeeds(h, stage) => Better(host[h], host'[h])
<1> DEFINE n == cmd.at - Len(CopyStages)
<1>1. n \in Int /\ (n < 1 => Stage \in { "mkdir", "scp" }) /\ (n >= 1 => n \in 1 .. Len(Script) /\ Stage = Script[n])
  BY BootstrapAt DEF IInv
<1>2. Past(h, n)
  BY DEF IInv, ScriptsInv
<1> HIDE DEF n
<1>3. stage = "venv" => h \in layout
  BY <1>1, <1>2, LayoutBeforeVenv
<1>4. Moves(h, stage) /\ (Succeeds(h, stage) => Better(host[h], host'[h]))
  BY StageMoves DEF IInv
<1> QED
  BY <1>3, <1>4, VenvStays DEF IInv
-----------------------------------------------------------------------------
(***************************************************************************)
(* What is said of scripts and checks, as the command goes on.             *)
(***************************************************************************)
\* ScriptsInv and ChecksInv of the next state, from what is said of each host
\* and each place by itself.
LEMMA ScriptsFrom ==
    ASSUME \A h \in Hosts : Running("bootstrap")' /\ h = Target' =>
             \E n : n = cmd'.at - Len(CopyStages) /\ Past(h, n)',
           cmd'.kind = "bootstrap" => \A i \in 1 .. cmd'.i - 1 :
             Targets[i] \notin cmd'.failed => Past(Targets[i], Len(Script) + 1)'
    PROVE  ScriptsInv'
<1>1. \A h \in Hosts : Running("bootstrap")' /\ h = Target' => Past(h, cmd.at - Len(CopyStages))'
  BY DEF Past
<1> QED
  BY <1>1 DEF ScriptsInv

\* ChecksInv of the next state, place by place.
LEMMA ChecksFrom ==
    ASSUME \A h \in Hosts : Running("doctor")' /\ cmd'.ok /\ h = Target' =>
             \E n : n = cmd'.at /\ Checked(h, n)',
           cmd'.kind = "doctor" => \A i \in 1 .. cmd'.i - 1 :
             Targets[i] \notin cmd'.failed => Checked(Targets[i], Len(Checks) + 1)'
    PROVE  ChecksInv'
<1>1. \A h \in Hosts : Running("doctor")' /\ cmd'.ok /\ h = Target' => Checked(h, cmd.at)'
  BY DEF Checked
<1> QED
  BY <1>1 DEF ChecksInv

\* Machines that move while the command stands still.
LEMMA OthersKeep ==
    ASSUME IInv, NEW h \in Hosts, NEW stage, Moves(h, stage), \A k \in Hosts : Noted(k), seen' = seen,
           cmd'.kind = cmd.kind, cmd'.i = cmd.i, cmd'.at = cmd.at, cmd'.ok = cmd.ok,
           cmd'.failed = cmd.failed, cmd'.exit = cmd.exit
    PROVE  ScriptsInv' /\ ChecksInv' /\ CmdInv'
<1> USE DEF IInv
<1>0. TypeOK
  OBVIOUS
<1>1. Target' = Target /\ \A kind : Running(kind)' <=> Running(kind)
  BY DEF Target, Running
<1>2. \A i \in 1 .. cmd.i - 1 : Targets[i] \in Hosts
  <2>1. Len(Targets) \in Nat /\ cmd.i \in 1 .. Len(Targets) + 1
    BY DoctorAssumption DEF TypeOK
  <2> QED
    BY <2>1 DEF Hosts
<1>3. \A k \in Hosts : Running("bootstrap")' /\ k = Target' =>
        \E n : n = cmd'.at - Len(CopyStages) /\ Past(k, n)'
  <2> SUFFICES ASSUME NEW k \in Hosts, Running("bootstrap"), k = Target
               PROVE  \E n : n = cmd'.at - Len(CopyStages) /\ Past(k, n)'
    BY <1>1
  <2>1. PICK n : n = cmd.at - Len(CopyStages)
    OBVIOUS
  <2>2. Past(k, n)
    BY <2>1 DEF ScriptsInv
  <2>3. Past(k, n)'
    BY <1>0, <2>2, PastStays
  <2> QED
    BY <2>1, <2>3
<1>4. cmd'.kind = "bootstrap" => \A i \in 1 .. cmd'.i - 1 :
        Targets[i] \notin cmd'.failed => Past(Targets[i], Len(Script) + 1)'
  BY <1>0, <1>2, PastStays DEF ScriptsInv
<1>5. \A k \in Hosts : Running("doctor")' /\ cmd'.ok /\ k = Target' =>
        \E n : n = cmd'.at /\ Checked(k, n)'
  <2> SUFFICES ASSUME NEW k \in Hosts, Running("doctor"), cmd.ok, k = Target
               PROVE  \E n : n = cmd'.at /\ Checked(k, n)'
    BY <1>1
  <2>1. PICK n : n = cmd.at
    OBVIOUS
  <2>2. Checked(k, n)
    BY <2>1 DEF ChecksInv
  <2>3. Checked(k, n)'
    BY <1>0, <2>2, CheckedStays
  <2> QED
    BY <2>1, <2>3
<1>6. cmd'.kind = "doctor" => \A i \in 1 .. cmd'.i - 1 :
        Targets[i] \notin cmd'.failed => Checked(Targets[i], Len(Checks) + 1)'
  BY <1>0, <1>2, CheckedStays DEF ChecksInv
<1>7. CmdInv'
  BY DEF CmdInv
<1> QED
  BY <1>3, <1>4, <1>5, <1>6, <1>7, ScriptsFrom, ChecksFrom

\* The bootstrap goes on after a stage, which lasts if it came out well.
LEMMA BootstrapKeeps ==
    ASSUME IInv, Running("bootstrap"), NEW h \in Hosts, h = Target, NEW stage, stage = Stage,
           Moves(h, stage), harmed' = harmed, NEW ok \in BOOLEAN,
           ok => Better(host[h], host'[h]) /\ Lasting(h, stage)' /\ Proceed(TRUE),
           ~ok => Fail
    PROVE  CmdType' /\ CmdInv' /\ ScriptsInv' /\ ChecksInv'
<1> USE DEF IInv
<1>1. PICK n : n = cmd.at - Len(CopyStages)
  OBVIOUS
<1>2. /\ n \in Int
      /\ n >= 1 => n \in 1 .. Len(Script) /\ stage = Script[n]
      /\ cmd.at = Len(Stages[cmd.kind]) => n = Len(Script)
  BY <1>1, BootstrapAt
<1>3. TypeOK /\ CmdType /\ CmdInv /\ cmd.exit = "running" /\ cmd.kind = "bootstrap"
  BY TypeParts DEF Running
<1>4. Past(h, n) /\ (ok => Past(h, n)')
  <2>1. Past(h, n)
    BY <1>1 DEF ScriptsInv
  <2>2. ok => Noted(h)
    BY OthersNoted
  <2> QED
    BY <2>1, <2>2, PastStays
<1>5. ok => Past(h, n + 1)'
  <2>1. CASE n < 1
    BY <1>2, <2>1, NotYetPast
  <2>2. CASE n >= 1
    BY <1>2, <1>4, <2>2, PastNext
  <2> QED
    BY <1>2, <2>1, <2>2
<1>6. /\ CmdType' /\ CmdInv' /\ cmd'.kind = cmd.kind
      /\ \/ /\ ok /\ cmd'.i = cmd.i /\ cmd'.failed = cmd.failed /\ cmd'.at = cmd.at + 1
         \/ /\ ok => cmd.at = Len(Stages[cmd.kind])
            /\ cmd'.i = cmd.i + 1 /\ cmd'.at = 1
            /\ cmd'.failed = IF ok THEN cmd.failed ELSE cmd.failed \cup {Target}
  BY <1>3, ResultIs, ProceedIs DEF Fail
<1>7. \A k \in Hosts : Running("bootstrap")' /\ k = Target' =>
        \E m : m = cmd'.at - Len(CopyStages) /\ Past(k, m)'
  <2> SUFFICES ASSUME NEW k \in Hosts, k = Target'
               PROVE  \E m : m = cmd'.at - Len(CopyStages) /\ Past(k, m)'
    OBVIOUS
  <2>1. CASE ok /\ cmd'.i = cmd.i /\ cmd'.at = cmd.at + 1
    <3>1. k = h
      BY <2>1 DEF Target
    <3>2. cmd.at \in Int /\ Len(CopyStages) \in Int
      BY <1>3, CopyStagesAre DEF CmdType
    <3>3. n + 1 = cmd'.at - Len(CopyStages)
      BY <1>1, <2>1, <3>2
    <3> QED
      BY <1>5, <2>1, <3>1, <3>3
  <2>2. CASE cmd'.at = 1
    <3>1. 1 - Len(CopyStages) \in Int /\ 1 - Len(CopyStages) <= 1
      BY CopyStagesAre
    <3> QED
      BY <2>2, <3>1, NotYetPast
  <2> QED
    BY <1>6, <2>1, <2>2
<1>8. \A i \in 1 .. cmd'.i - 1 : Targets[i] \notin cmd'.failed => Past(Targets[i], Len(Script) + 1)'
  <2> SUFFICES ASSUME NEW i \in 1 .. cmd'.i - 1, Targets[i] \notin cmd'.failed
               PROVE  Past(Targets[i], Len(Script) + 1)'
    OBVIOUS
  <2>1. cmd.i \in Nat /\ Targets[i] \notin cmd.failed
    BY <1>3, <1>6, TargetIs DEF CmdType
  <2>2. i \in 1 .. cmd.i
    BY <1>6, <2>1
  <2>3. Targets[i] \in Hosts /\ (i \in 1 .. cmd.i - 1 \/ Targets[i] = h)
    BY <1>3, <2>2, EarlierResults
  <2>4. CASE i \in 1 .. cmd.i - 1
    <3>1. Past(Targets[i], Len(Script) + 1)
      BY <1>3, <2>1, <2>4 DEF ScriptsInv
    <3>2. Targets[i] # h \/ ok
      BY <1>6
    <3>3. Noted(Targets[i])
      BY <2>3, <3>2, OthersNoted
    <3> QED
      BY <2>3, <3>1, <3>3, PastStays
  <2>5. CASE i \notin 1 .. cmd.i - 1
    <3>1. Targets[i] = h /\ cmd'.i # cmd.i
      BY <2>3, <2>5
    <3>2. ok /\ cmd.at = Len(Stages[cmd.kind])
      BY <1>6, <3>1
    <3> QED
      BY <1>2, <1>5, <3>1, <3>2
  <2> QED
    BY <2>4, <2>5
<1>9. ScriptsInv'
  BY <1>7, <1>8, ScriptsFrom
<1>10. ChecksInv'
  BY <1>3, <1>6 DEF ChecksInv, Running
<1> QED
  BY <1>6, <1>9, <1>10

\* A command that stands still keeps what is said of it.
LEMMA StandStill ==
    ASSUME TypeOK, host' = host, layout' = layout, harmed' = harmed, NEW h \in Hosts
    PROVE  Moves(h, "none") /\ \A k \in Hosts : Noted(k)
BY DEF TypeOK, Moves, Noted, Better

\* The preflight goes on after a check; its result is good only if all were.
LEMMA DoctorKeeps ==
    ASSUME IInv, Running("doctor"), NEW h \in Hosts, h = Target, NEW check, check = Stage,
           host' = host, layout' = layout, harmed' = harmed, seen \subseteq seen',
           NEW ok \in BOOLEAN, ok => cmd.ok /\ Sound(h, check)', Proceed(ok)
    PROVE  CmdType' /\ CmdInv' /\ ScriptsInv' /\ ChecksInv'
<1> USE DEF IInv
<1>1. PICK n : n = cmd.at
  OBVIOUS
<1>2. TypeOK /\ CmdType /\ CmdInv /\ cmd.exit = "running" /\ cmd.kind = "doctor"
  BY TypeParts DEF Running
<1>3. n \in 1 .. Len(Checks) /\ check = Checks[n] /\ Len(Checks) \in Nat /\ Stages.doctor = Checks
  BY <1>1, <1>2, StagesAre, ChecksAre DEF CmdType, Stage
<1>4. Moves(h, "none") /\ \A k \in Hosts : Noted(k)
  BY <1>2, StandStill
<1>5. ok => Checked(h, n + 1)'
  <2> SUFFICES ASSUME ok PROVE Checked(h, n + 1)'
    OBVIOUS
  <2>1. Checked(h, n)
    BY <1>1 DEF ChecksInv
  <2>2. Checked(h, n)'
    BY <1>4, <2>1, CheckedStays
  <2> QED
    BY <1>3, <2>2, CheckedNext
<1>6. /\ CmdType' /\ CmdInv' /\ cmd'.kind = cmd.kind
      /\ \/ /\ cmd'.i = cmd.i /\ cmd'.failed = cmd.failed /\ cmd'.at = cmd.at + 1 /\ cmd'.ok = ok
         \/ /\ cmd.at = Len(Stages[cmd.kind]) /\ cmd'.i = cmd.i + 1 /\ cmd'.at = 1
            /\ cmd'.failed = IF ok THEN cmd.failed ELSE cmd.failed \cup {Target}
  BY <1>2, ProceedIs
<1>7. \A k \in Hosts : Running("doctor")' /\ cmd'.ok /\ k = Target' =>
        \E m : m = cmd'.at /\ Checked(k, m)'
  <2> SUFFICES ASSUME NEW k \in Hosts, cmd'.ok, k = Target'
               PROVE  \E m : m = cmd'.at /\ Checked(k, m)'
    OBVIOUS
  <2>1. CASE cmd'.i = cmd.i /\ cmd'.at = cmd.at + 1 /\ cmd'.ok = ok
    <3>1. k = h
      BY <2>1 DEF Target
    <3> QED
      BY <1>1, <1>5, <2>1, <3>1
  <2>2. CASE cmd'.at = 1
    BY <2>2, NotYetPast
  <2> QED
    BY <1>6, <2>1, <2>2
<1>8. \A i \in 1 .. cmd'.i - 1 : Targets[i] \notin cmd'.failed => Checked(Targets[i], Len(Checks) + 1)'
  <2> SUFFICES ASSUME NEW i \in 1 .. cmd'.i - 1, Targets[i] \notin cmd'.failed
               PROVE  Checked(Targets[i], Len(Checks) + 1)'
    OBVIOUS
  <2>1. cmd.i \in Nat /\ Targets[i] \notin cmd.failed
    BY <1>2, <1>6, TargetIs DEF CmdType
  <2>2. i \in 1 .. cmd.i
    BY <1>6, <2>1
  <2>3. Targets[i] \in Hosts /\ (i \in 1 .. cmd.i - 1 \/ Targets[i] = h)
    BY <1>2, <2>2, EarlierResults
  <2>4. CASE i \in 1 .. cmd.i - 1
    BY <1>2, <1>4, <2>1, <2>3, <2>4, CheckedStays DEF ChecksInv
  <2>5. CASE i \notin 1 .. cmd.i - 1
    <3>1. Targets[i] = h /\ cmd'.i # cmd.i
      BY <2>3, <2>5
    <3>2. ok /\ cmd.at = Len(Checks)
      BY <1>2, <1>3, <1>6, <3>1
    <3> QED
      BY <1>1, <1>5, <3>1, <3>2
  <2> QED
    BY <2>4, <2>5
<1>9. ChecksInv'
  BY <1>7, <1>8, ChecksFrom
<1>10. ScriptsInv'
  BY <1>2, <1>6, ScriptsFrom DEF Running
<1> QED
  BY <1>6, <1>9, <1>10
-----------------------------------------------------------------------------
(***************************************************************************)
(* Preservation, one lemma per action.                                     *)
(***************************************************************************)
\* Machines as they are found, and no command yet, satisfy the invariant.
THEOREM InitIInv == Init => IInv
<1> SUFFICES ASSUME Init PROVE IInv
  OBVIOUS
<1>1. Len(Targets) \in Nat \ {0} /\ Len(Script) \in Nat
  BY DoctorAssumption, ScriptIs
<1>2. host \in [Hosts -> Host]
  BY DEF Init, New, Ready, Host
<1>3. TypeOK
  BY <1>1, <1>2, StagesAre DEF Init, TypeOK
<1>4. CmdInv
  BY DEF Init, CmdInv
<1>5. NoVenvWithoutLayout
  <2>1. \A h \in Hosts : host[h].venv \in { "none", "full" }
    BY DEF Init, New, Ready
  <2> QED
    BY <2>1 DEF Init, NoVenvWithoutLayout
<1>6. OrphanInv
  BY DEF Init, OrphanInv
<1>7. ScriptsInv /\ ChecksInv
  BY DEF Init, ScriptsInv, ChecksInv, Running
<1> QED
  BY <1>3, <1>4, <1>5, <1>6, <1>7 DEF IInv

\* A command begins.
LEMMA BeginIInv ==
    ASSUME IInv, NEW kind \in { "bootstrap", "doctor" }, Begin(kind)
    PROVE  IInv'
<1> USE DEF IInv
<1>1. Len(Targets) \in Nat \ {0}
  BY DoctorAssumption
<1>2. /\ cmd' = [ kind |-> kind, i |-> 1, at |-> 1, stuck |-> FALSE, ok |-> TRUE,
                  failed |-> {}, exit |-> "running" ]
      /\ seen' = {} /\ harmed' = {} /\ host' = host /\ orphan' = orphan /\ layout' = layout
  BY DEF Begin
<1>3. TypeOK'
  <2>1. kind \in DOMAIN Stages /\ 1 \in 1 .. Len(Stages[kind])
    BY StagesAre
  <2>2. CmdType'
    BY <1>1, <1>2, <2>1 DEF CmdType
  <2> QED
    BY <1>2, <2>2, TypeParts DEF CmdType, TypeOK
<1>4. CmdInv'
  BY <1>1, <1>2 DEF CmdInv
<1>5. NoVenvWithoutLayout'
  BY <1>2 DEF NoVenvWithoutLayout
<1>6. OrphanInv'
  BY <1>2 DEF OrphanInv
<1>7. ScriptsInv'
  <2>1. 1 - Len(CopyStages) \in Int /\ 1 - Len(CopyStages) <= 1
    BY CopyStagesAre
  <2>2. \A h : Past(h, 1 - Len(CopyStages))'
    BY <2>1, NotYetPast
  <2> QED
    BY <1>2, <2>2, ScriptsFrom
<1>8. ChecksInv'
  <2>1. \A h : Checked(h, 1)'
    BY NotYetPast
  <2> QED
    BY <1>2, <2>1, ChecksFrom
<1> QED
  BY <1>3, <1>4, <1>5, <1>6, <1>7, <1>8

\* The type invariant of the next state, part by part.
LEMMA TypeFrom ==
    ASSUME host' \in [Hosts -> Host], CmdType', orphan' \in [Hosts -> 0 .. Len(Script)],
           layout' \subseteq Hosts, seen' \subseteq Hosts, harmed' \subseteq Hosts
    PROVE  TypeOK'
BY DEF TypeOK, CmdType

\* A stage of the bootstrap.
LEMMA BootstrapStageIInv == ASSUME IInv, BootstrapStage PROVE IInv'
<1> USE DEF IInv
<1>1. Running("bootstrap") /\ orphan' = orphan /\ seen' = seen /\ harmed' = harmed
  BY DEF BootstrapStage
<1>2. TypeOK /\ CmdType /\ CmdInv /\ cmd.exit = "running"
  BY <1>1, TypeParts DEF Running
<1>3. PICK h \in Hosts : h = Target
  BY <1>2, TargetIs
<1>4. PICK stage : stage = Stage
  OBVIOUS
<1>5. \/ Succeeds(h, stage) /\ Proceed(TRUE)
      \/ Fails(h, stage) /\ Fail
  BY <1>3, <1>4 DEF BootstrapStage
<1>6. Moves(h, stage) /\ NoVenvWithoutLayout' /\ (Succeeds(h, stage) => Better(host[h], host'[h]))
  BY <1>1, <1>3, <1>4, <1>5, CommandMoves
<1>7. OrphanInv'
  BY <1>1, <1>6 DEF OrphanInv, Moves
<1>8. CmdType' /\ CmdInv' /\ ScriptsInv' /\ ChecksInv'
  <2>1. CASE Succeeds(h, stage) /\ Proceed(TRUE)
    <3>1. Lasting(h, stage)'
      BY <1>2, <2>1, SuccessLasts
    <3> QED
      BY <1>1, <1>3, <1>4, <1>6, <2>1, <3>1, BootstrapKeeps
  <2>2. CASE Fails(h, stage) /\ Fail
    BY <1>1, <1>3, <1>4, <1>6, <2>2, BootstrapKeeps
  <2> QED
    BY <1>5, <2>1, <2>2
<1>9. TypeOK'
  BY <1>1, <1>2, <1>6, <1>8, TypeFrom DEF Moves, TypeOK
<1> QED
  BY <1>6, <1>7, <1>8, <1>9

\* A check of the preflight.
LEMMA DoctorCheckIInv == ASSUME IInv, DoctorCheck PROVE IInv'
<1> USE DEF IInv
<1>1. Running("doctor") /\ UNCHANGED << host, orphan, layout, harmed >>
  BY DEF DoctorCheck
<1>2. TypeOK /\ CmdType /\ CmdInv /\ cmd.exit = "running"
  BY <1>1, TypeParts DEF Running
<1>3. PICK h \in Hosts : h = Target
  BY <1>2, TargetIs
<1>4. PICK check : check = Stage
  OBVIOUS
<1>5. host[h] \in Host /\ cmd.ok \in BOOLEAN
  BY <1>2 DEF TypeOK, CmdType
<1>6. PICK passes \in { FALSE, Passes(host[h], check) } : Proceed(cmd.ok /\ passes)
  BY <1>3, <1>4 DEF DoctorCheck
<1>7. seen' = IF check = "marker" /\ host[h].mount THEN seen \cup {h} ELSE seen
  BY <1>3, <1>4 DEF DoctorCheck
<1>8. passes => Sound(h, check)'
  <2> SUFFICES ASSUME Passes(host[h], check) PROVE Sound(h, check)'
    BY <1>6
  <2>1. check = "ffmpeg" => "login tools" \in host'[h].has
    BY <1>1 DEF Passes
  <2>2. check = "mlx_whisper" => FindsWhisper(host'[h])
    BY <1>1 DEF Passes
  <2>3. check = "marker" /\ Marker = "value" => h \in seen'
    BY <1>7 DEF Passes
  <2> QED
    BY <2>1, <2>2, <2>3 DEF Sound
<1>9. PICK ok \in BOOLEAN : (ok <=> cmd.ok /\ passes) /\ Proceed(ok)
  <2>1. (cmd.ok /\ passes) \in BOOLEAN
    OBVIOUS
  <2> QED
    BY <1>6, <2>1
<1>10. CmdType' /\ CmdInv' /\ ScriptsInv' /\ ChecksInv'
  BY <1>1, <1>3, <1>4, <1>7, <1>8, <1>9, DoctorKeeps
<1>11. TypeOK'
  BY <1>1, <1>2, <1>7, <1>10, TypeFrom DEF TypeOK
<1>12. NoVenvWithoutLayout' /\ OrphanInv'
  BY <1>1 DEF NoVenvWithoutLayout, OrphanInv
<1> QED
  BY <1>10, <1>11, <1>12

\* A machine stops answering.
LEMMA HangIInv == ASSUME IInv, Hang PROVE IInv'
<1> USE DEF IInv
<1>1. /\ cmd' = [cmd EXCEPT !.stuck = TRUE]
      /\ host' = host /\ orphan' = orphan /\ layout' = layout /\ seen' = seen /\ harmed' = harmed
      /\ cmd.exit = "running"
  BY DEF Hang
<1>2. TypeOK /\ CmdType /\ CmdInv
  BY TypeParts
<1>3. /\ cmd'.kind = cmd.kind /\ cmd'.i = cmd.i /\ cmd'.at = cmd.at /\ cmd'.ok = cmd.ok
      /\ cmd'.failed = cmd.failed /\ cmd'.exit = cmd.exit
      /\ CmdType'
  BY <1>1, <1>2 DEF CmdType
<1>4. PICK h \in Hosts : h = Target
  BY <1>1, <1>2, TargetIs
<1>5. Moves(h, "none") /\ \A k \in Hosts : Noted(k)
  BY <1>1, <1>2, StandStill
<1>6. ScriptsInv' /\ ChecksInv' /\ CmdInv'
  BY <1>1, <1>3, <1>5, OthersKeep
<1>7. TypeOK' /\ NoVenvWithoutLayout' /\ OrphanInv'
  BY <1>1, <1>2, <1>3, TypeFrom DEF TypeOK, NoVenvWithoutLayout, OrphanInv
<1> QED
  BY <1>6, <1>7

\* run_command gives up, and a remote script goes on by itself.
LEMMA TimeoutIInv == ASSUME IInv, Timeout PROVE IInv'
<1> USE DEF IInv
<1>1. /\ cmd.exit = "running" /\ seen' = seen /\ harmed' = harmed
      /\ TypeOK /\ CmdType /\ CmdInv
  BY TypeParts DEF Timeout
<1>2. PICK h \in Hosts : h = Target
  BY <1>1, TargetIs
<1>3. PICK stage : stage = Stage
  OBVIOUS
<1>4. CASE cmd.kind = "bootstrap"
  <2>1. Running("bootstrap")
    BY <1>1, <1>4 DEF Running
  <2>2. PICK n : n = cmd.at - Len(CopyStages)
    OBVIOUS
  <2>3. /\ Fail
        /\ Succeeds(h, stage) \/ Fails(h, stage)
        /\ orphan' = IF h \in Remote /\ n > 0 /\ orphan[h] = 0
                       THEN [orphan EXCEPT ![h] = n] ELSE orphan
    BY <1>2, <1>3, <1>4, <2>2 DEF Timeout
  <2>4. Moves(h, stage) /\ NoVenvWithoutLayout'
    BY <1>2, <1>3, <2>1, <2>3, CommandMoves
  <2>5. n \in Int /\ (n >= 1 => n \in 1 .. Len(Script)) /\ Len(Script) \in Nat
    BY <1>1, <2>1, <2>2, BootstrapAt, ScriptIs
  <2>6. n > 2 => h \in layout
    <3>1. Past(h, n)
      BY <1>2, <2>1, <2>2 DEF ScriptsInv
    <3> QED
      BY <2>5, <3>1, LayoutBeforeVenv
  <2>7. \A k \in Hosts : orphan'[k] = orphan[k] \/ (k = h /\ orphan'[k] = n)
    BY <1>1, <2>3 DEF TypeOK
  <2>8. orphan' \in [Hosts -> 0 .. Len(Script)]
    BY <1>1, <2>3, <2>5 DEF TypeOK
  <2>9. OrphanInv'
    BY <2>4, <2>6, <2>7 DEF OrphanInv, Moves
  <2>10. CmdType' /\ CmdInv' /\ ScriptsInv' /\ ChecksInv'
    BY <1>1, <1>2, <1>3, <2>1, <2>3, <2>4, BootstrapKeeps
  <2>11. TypeOK'
    BY <1>1, <2>4, <2>8, <2>10, TypeFrom DEF Moves, TypeOK
  <2> QED
    BY <2>4, <2>9, <2>10, <2>11
<1>5. CASE cmd.kind # "bootstrap"
  <2>1. Running("doctor") /\ Proceed(FALSE) /\ UNCHANGED << host, layout, orphan >>
    BY <1>1, <1>5, StagesAre DEF Running, Timeout, CmdType, CmdInv
  <2>2. CmdType' /\ CmdInv' /\ ScriptsInv' /\ ChecksInv'
    BY <1>1, <1>2, <1>3, <2>1, DoctorKeeps
  <2>3. TypeOK' /\ NoVenvWithoutLayout' /\ OrphanInv'
    BY <1>1, <2>1, <2>2, TypeFrom DEF TypeOK, NoVenvWithoutLayout, OrphanInv
  <2> QED
    BY <2>2, <2>3
<1> QED
  BY <1>4, <1>5

\* A stage of a script nobody waits for.
LEMMA OrphanStageIInv == ASSUME IInv, NEW h \in Hosts, OrphanStage(h) PROVE IInv'
<1> USE DEF IInv
<1>1. cmd' = cmd /\ seen' = seen /\ TypeOK /\ CmdType /\ CmdInv
  BY TypeParts DEF OrphanStage
<1>2. PICK n : n = orphan[h]
  OBVIOUS
<1>3. n \in 1 .. Len(Script) /\ Len(Script) \in Nat
  BY <1>1, <1>2, ScriptIs DEF OrphanStage, TypeOK
<1>4. \/ /\ Succeeds(h, Script[n]) /\ harmed' = harmed
         /\ orphan' = [orphan EXCEPT ![h] = (n + 1) % (Len(Script) + 1)]
      \/ /\ Fails(h, Script[n]) /\ orphan' \in { orphan, [orphan EXCEPT ![h] = 0] }
         /\ harmed' = IF host' = host THEN harmed ELSE harmed \cup {h}
  BY <1>2 DEF OrphanStage
<1>5. Script[n] = "venv" => h \in layout
  BY <1>2, <1>3, LayoutBeforeVenv DEF OrphanInv
<1>6. Moves(h, Script[n]) /\ NoVenvWithoutLayout'
  BY <1>1, <1>4, <1>5, StageMoves, VenvStays
<1>7. \A k \in Hosts : Noted(k)
  <2>1. CASE Succeeds(h, Script[n]) /\ harmed' = harmed
    <3>1. Better(host[h], host'[h])
      BY <1>1, <2>1, StageMoves
    <3> QED
      BY <1>6, <2>1, <3>1, OthersNoted
  <2>2. CASE harmed' = IF host' = host THEN harmed ELSE harmed \cup {h}
    <3>1. harmed \subseteq harmed' /\ (h \in harmed' \/ host' = host)
      BY <2>2
    <3>2. Noted(h)
      BY <3>1 DEF Noted, Better
    <3> QED
      BY <1>6, <3>1, <3>2, OthersNoted
  <2> QED
    BY <1>4, <2>1, <2>2
<1>8. PICK m \in 0 .. Len(Script) : orphan' = [orphan EXCEPT ![h] = m] /\ (m > 2 => h \in layout')
  <2>0. 0 \in 0 .. Len(Script) /\ n \in 0 .. Len(Script) /\ (n > 2 => h \in layout')
    BY <1>2, <1>3, <1>6 DEF OrphanInv, Moves
  <2>1. CASE orphan' \in { orphan, [orphan EXCEPT ![h] = 0] }
    <3>1. orphan = [orphan EXCEPT ![h] = n]
      BY <1>1, <1>2 DEF TypeOK
    <3> QED
      BY <2>0, <2>1, <3>1
  <2>2. CASE Succeeds(h, Script[n]) /\ orphan' = [orphan EXCEPT ![h] = (n + 1) % (Len(Script) + 1)]
    <3>1. CASE n = Len(Script)
      <4>1. (n + 1) % (Len(Script) + 1) = 0
        BY <1>3, <3>1
      <4>2. orphan' = [orphan EXCEPT ![h] = 0]
        BY <2>2, <4>1
      <4>3. 0 \in 0 .. Len(Script) /\ ~(0 > 2)
        BY <2>0
      <4> WITNESS 0 \in 0 .. Len(Script)
      <4> QED
        BY <4>2, <4>3
    <3>2. CASE n # Len(Script)
      <4>0. n + 1 \in 0 .. Len(Script)
        BY <1>3, <3>2
      <4>1. (n + 1) % (Len(Script) + 1) = n + 1
        BY <1>3, <3>2
      <4>2. n = 2 => h \in layout'
        BY <2>2, ScriptIs DEF Succeeds
      <4>3. n + 1 > 2 => h \in layout'
        BY <1>3, <2>0, <4>2
      <4> QED
        BY <2>2, <4>0, <4>1, <4>3
    <3> QED
      BY <3>1, <3>2
  <2> QED
    BY <1>4, <2>1, <2>2
<1>9. OrphanInv'
  <2>1. orphan'[h] = m /\ \A k \in Hosts \ {h} : orphan'[k] = orphan[k]
    BY <1>1, <1>8 DEF TypeOK
  <2> QED
    BY <1>6, <1>8, <2>1 DEF OrphanInv, Moves
<1>10. ScriptsInv' /\ ChecksInv' /\ CmdInv'
  BY <1>1, <1>6, <1>7, OthersKeep
<1>11. CmdType' /\ orphan' \in [Hosts -> 0 .. Len(Script)] /\ harmed' \subseteq Hosts
  BY <1>1, <1>4, <1>8 DEF CmdType, TypeOK
<1>12. TypeOK'
  BY <1>1, <1>6, <1>11, TypeFrom DEF Moves, TypeOK
<1> QED
  BY <1>6, <1>9, <1>10, <1>12

\* A step outside the commands: a machine's tools, environment and packages are
\* as before.
LEMMA MachineIInv ==
    ASSUME IInv, NEW h \in Hosts, NEW x \in Host, host' = [host EXCEPT ![h] = x],
           x.has = host[h].has, x.venv = host[h].venv, x.pip = host[h].pip,
           UNCHANGED << cmd, orphan, layout, seen, harmed >>
    PROVE  IInv'
<1> USE DEF IInv
<1>1. TypeOK /\ CmdType
  BY TypeParts
<1>2. host'[h] = x /\ (\A k \in Hosts \ {h} : host'[k] = host[k]) /\ host' \in [Hosts -> Host]
  BY <1>1 DEF TypeOK
<1>3. \A k \in Hosts : /\ host'[k].has = host[k].has /\ host'[k].venv = host[k].venv
                       /\ host'[k].pip = host[k].pip
  BY <1>2
<1>4. \A k \in Hosts : \A s : Lasting(k, s) <=> Lasting(k, s)'
  BY <1>3 DEF Lasting
<1>5. \A k \in Hosts : \A n : Past(k, n) => Past(k, n)'
  BY <1>4 DEF Past
<1>6. \A k \in Hosts : \A n : Checked(k, n) => Checked(k, n)'
  BY <1>3 DEF Checked, Sound, FindsWhisper
<1>7. \A i \in 1 .. cmd.i - 1 : Targets[i] \in Hosts
  <2>1. Len(Targets) \in Nat /\ cmd.i \in 1 .. Len(Targets) + 1
    BY <1>1, DoctorAssumption DEF TypeOK
  <2> QED
    BY <2>1 DEF Hosts
<1>8. ScriptsInv'
  <2>1. \A k \in Hosts : Running("bootstrap")' /\ k = Target' =>
          \E n : n = cmd'.at - Len(CopyStages) /\ Past(k, n)'
    BY <1>5 DEF ScriptsInv, Running, Target
  <2>2. cmd'.kind = "bootstrap" => \A i \in 1 .. cmd'.i - 1 :
          Targets[i] \notin cmd'.failed => Past(Targets[i], Len(Script) + 1)'
    BY <1>5, <1>7 DEF ScriptsInv
  <2> QED
    BY <2>1, <2>2, ScriptsFrom
<1>9. ChecksInv'
  <2>1. \A k \in Hosts : Running("doctor")' /\ cmd'.ok /\ k = Target' =>
          \E n : n = cmd'.at /\ Checked(k, n)'
    BY <1>6 DEF ChecksInv, Running, Target
  <2>2. cmd'.kind = "doctor" => \A i \in 1 .. cmd'.i - 1 :
          Targets[i] \notin cmd'.failed => Checked(Targets[i], Len(Checks) + 1)'
    BY <1>6, <1>7 DEF ChecksInv
  <2> QED
    BY <2>1, <2>2, ChecksFrom
<1>10. TypeOK' /\ CmdInv'
  BY <1>1, <1>2, TypeFrom DEF TypeOK, CmdType, CmdInv
<1>11. NoVenvWithoutLayout' /\ OrphanInv'
  BY <1>3 DEF NoVenvWithoutLayout, OrphanInv
<1> QED
  BY <1>8, <1>9, <1>10, <1>11

\* Every step of the two commands and the operator keeps the invariant.
LEMMA NextIInv == IInv /\ [Next]_vars => IInv'
<1> SUFFICES ASSUME IInv, [Next]_vars PROVE IInv'
  OBVIOUS
<1>1. ASSUME NEW kind \in { "bootstrap", "doctor" }, Begin(kind) PROVE IInv'
  BY <1>1, BeginIInv
<1>2. CASE BootstrapStage
  BY <1>2, BootstrapStageIInv
<1>3. CASE DoctorCheck
  BY <1>3, DoctorCheckIInv
<1>4. CASE Timeout
  BY <1>4, TimeoutIInv
<1>5. CASE Hang
  BY <1>5, HangIInv
<1>6. ASSUME NEW h \in Hosts, OrphanStage(h) PROVE IInv'
  BY <1>6, OrphanStageIInv
<1>7. ASSUME NEW h \in Hosts, Mount(h) PROVE IInv'
  <2> DEFINE x == [host[h] EXCEPT !.mount = ~host[h].mount]
  <2>1. host[h] \in Host
    BY DEF IInv, TypeOK
  <2>2. x \in Host /\ x.has = host[h].has /\ x.venv = host[h].venv /\ x.pip = host[h].pip
    BY <2>1 DEF Host
  <2>3. host' = [host EXCEPT ![h] = x] /\ UNCHANGED << cmd, orphan, layout, seen, harmed >>
    BY <1>7 DEF Mount
  <2> HIDE DEF x
  <2> QED
    BY <2>2, <2>3, MachineIInv
<1>8. ASSUME NEW h \in Hosts, CopyByHand(h) PROVE IInv'
  <2> DEFINE x == [host[h] EXCEPT !.wheel = "full"]
  <2>1. host[h] \in Host
    BY DEF IInv, TypeOK
  <2>2. x \in Host /\ x.has = host[h].has /\ x.venv = host[h].venv /\ x.pip = host[h].pip
    BY <2>1 DEF Host
  <2>3. host' = [host EXCEPT ![h] = x] /\ UNCHANGED << cmd, orphan, layout, seen, harmed >>
    BY <1>8 DEF CopyByHand
  <2> HIDE DEF x
  <2> QED
    BY <2>2, <2>3, MachineIInv
<1>9. CASE UNCHANGED vars
  <2>1. TypeOK' /\ CmdInv' /\ NoVenvWithoutLayout' /\ OrphanInv'
    BY <1>9 DEF vars, IInv, TypeOK, CmdInv, NoVenvWithoutLayout, OrphanInv
  <2>2. ScriptsInv'
    BY <1>9 DEF vars, IInv, ScriptsInv, Past, Lasting, Running, Target
  <2>3. ChecksInv'
    BY <1>9 DEF vars, IInv, ChecksInv, Checked, Sound, Running, Target
  <2> QED
    BY <2>1, <2>2, <2>3 DEF IInv
<1> QED
  BY <1>1, <1>2, <1>3, <1>4, <1>5, <1>6, <1>7, <1>8, <1>9 DEF Next, CommandStep

\* What the invariant says of the results.
LEMMA IInvReady == IInv => BootstrapPassMeansReady
<1> SUFFICES ASSUME IInv, cmd.kind = "bootstrap", NEW i \in 1 .. cmd.i - 1, Targets[i] \notin cmd.failed
             PROVE  LET x == host[Targets[i]] IN
                    /\ "script tools" \in x.has /\ Targets[i] \in layout
                    /\ Targets[i] \notin harmed => x.venv = "full" /\ x.pip = Package
  BY DEF BootstrapPassMeansReady
<1>1. Past(Targets[i], Len(Script) + 1) /\ Len(Script) \in { 9, 10 }
  BY ScriptIs DEF IInv, ScriptsInv
<1>2. \A j \in 1 .. Len(Script) : Lasting(Targets[i], Script[j])
  BY <1>1 DEF Past
<1>3. /\ Lasting(Targets[i], "layout") /\ Lasting(Targets[i], "venv")
      /\ Lasting(Targets[i], "install") /\ Lasting(Targets[i], "ffmpeg")
  BY <1>1, <1>2, ScriptIs
<1> QED
  BY <1>3 DEF Lasting

\* What a check found is what the verdict says.
LEMMA IInvShared == IInv => DoctorPassMeansShared
<1> SUFFICES ASSUME IInv, cmd.kind = "doctor", cmd.exit = "0", Marker = "value", NEW h \in Hosts
             PROVE  /\ h \in seen /\ "login tools" \in host[h].has
                    /\ h \notin harmed => FindsWhisper(host[h])
  BY DEF DoctorPassMeansShared
<1>1. PICK i \in 1 .. Len(Targets) : h = Targets[i]
  BY DEF Hosts
<1>2. i \in 1 .. cmd.i - 1 /\ Targets[i] \notin cmd.failed
  BY DoctorAssumption DEF IInv, CmdInv
<1>3. Checked(h, Len(Checks) + 1)
  BY <1>1, <1>2 DEF IInv, ChecksInv
<1>4. \A j \in 1 .. Len(Checks) : Sound(h, Checks[j])
  BY <1>3, ChecksAre DEF Checked
<1>5. Len(Checks) = 6 /\ Checks[2] = "ffmpeg" /\ Checks[4] = "mlx_whisper" /\ Checks[6] = "marker"
  BY ChecksAre
<1>6. Sound(h, Checks[2]) /\ Sound(h, Checks[4]) /\ Sound(h, Checks[6])
  BY <1>4, <1>5
<1> QED
  BY <1>5, <1>6 DEF Sound
-----------------------------------------------------------------------------
(***************************************************************************)
(* The composition.                                                        *)
(***************************************************************************)
RolloutTypeOK ==
    /\ node \in [Hosts -> { "unknown", "online" }]
    /\ job \in [Jobs -> [ status : { "queued", "completed", "failed" },
                          at : { "nowhere", "share", "local disk" } ]]

\* A job's effect on the machine that runs it: a directory at most.
LEMMA RunJobHost ==
    ASSUME TypeOK, NEW h \in Hosts, NEW j \in Jobs, NEW mode, RunJob(h, j, mode)
    PROVE  \E x \in Host : /\ host' = [host EXCEPT ![h] = x]
                           /\ x.has = host[h].has /\ x.venv = host[h].venv
                           /\ x.pip = host[h].pip /\ x.mount = host[h].mount
<1>1. host[h] \in Host /\ host = [host EXCEPT ![h] = host[h]]
  BY DEF TypeOK
<1>2. [host[h] EXCEPT !.dir = TRUE] \in Host
  BY <1>1 DEF Host
<1>3. host' = host \/ host' = [host EXCEPT ![h].dir = TRUE]
  BY DEF RunJob
<1>4. CASE host' = host
  BY <1>1, <1>4
<1>5. CASE host' = [host EXCEPT ![h].dir = TRUE]
  <2> DEFINE x == [host[h] EXCEPT !.dir = TRUE]
  <2>1. host' = [host EXCEPT ![h] = x]
    BY <1>5
  <2>2. /\ x.has = host[h].has /\ x.venv = host[h].venv
        /\ x.pip = host[h].pip /\ x.mount = host[h].mount
    BY <1>1 DEF Host
  <2> HIDE DEF x
  <2> QED
    BY <1>2, <2>1, <2>2 DEF x
<1> QED
  BY <1>3, <1>4, <1>5

\* So does every step of the workers.
LEMMA RolloutNextIInv == IInv /\ [RolloutNext]_rolloutVars => IInv'
<1> SUFFICES ASSUME IInv, [RolloutNext]_rolloutVars PROVE IInv'
  OBVIOUS
<1>1. CASE Next
  BY <1>1, NextIInv
<1>2. ASSUME NEW h \in Hosts, StartWorker(h) PROVE IInv'
  <2>1. UNCHANGED vars
    BY <1>2 DEF StartWorker
  <2> QED
    BY <2>1, NextIInv
<1>3. ASSUME NEW h \in Hosts, NEW j \in Jobs, NEW mode \in { "deterministic", "real" }, RunJob(h, j, mode)
      PROVE  IInv'
  <2>1. UNCHANGED << cmd, orphan, layout, seen, harmed >>
    BY <1>3 DEF RunJob
  <2> QED
    BY <1>3, <2>1, RunJobHost, MachineIInv DEF IInv
<1>4. CASE UNCHANGED rolloutVars
  <2>1. UNCHANGED vars
    BY <1>4 DEF rolloutVars
  <2> QED
    BY <2>1, NextIInv
<1> QED
  BY <1>1, <1>2, <1>3, <1>4 DEF RolloutNext

\* The specification without its fairness.
LEMMA RolloutSafety == RolloutSpec => RolloutInit /\ [][RolloutNext]_rolloutVars
BY PTL DEF RolloutSpec

\* Both commands' invariant, while workers are started and run jobs.
THEOREM DoctorInvariant == RolloutSpec => []IInv
<1>1. RolloutInit => IInv
  BY InitIInv DEF RolloutInit
<1> QED
  BY <1>1, RolloutSafety, RolloutNextIInv, PTL

\* Machines, commands and orphaned scripts stay well-formed.
THEOREM TypeCorrect == RolloutSpec => []TypeOK
BY DoctorInvariant, PTL DEF IInv

\* PASS of worker-bootstrap means a complete worker, with orphaned scripts of
\* earlier commands still at work, if none of these did damage there while the
\* command ran (run_worker_bootstrap, `set -e`).
THEOREM PassMeansReady == RolloutSpec => []BootstrapPassMeansReady
BY DoctorInvariant, IInvReady, PTL

\* There is no environment on a machine without the layout, wherever a script
\* was cut short (build_bootstrap_script).
THEOREM LayoutComesFirst == RolloutSpec => []NoVenvWithoutLayout
BY DoctorInvariant, PTL DEF IInv

\* Exit code 0 of `doctor worker` with a marker's value means the share and the
\* tools on every target, and Whisper where no orphan did damage while the
\* command ran (run_worker_preflight, the exit code).
THEOREM PassMeansShared == RolloutSpec => []DoctorPassMeansShared
BY DoctorInvariant, IInvShared, PTL

\* If workers are started only after a doctor's exit code 0 with a marker's
\* value, and a mounted share stays mounted: the share is there for every worker.
Disciplined == Gate /\ Marker = "value" /\ ~MayUnmount

SharedInv ==
    /\ RolloutTypeOK
    /\ \A h \in seen : h \in Hosts => host[h].mount
    /\ \A h \in Hosts : node[h] = "online" => host[h].mount
    /\ OutputsOnShare

\* No step but Mount touches a mount.
LEMMA MountsStay ==
    ASSUME IInv, Disciplined, Next
    PROVE  \A k \in Hosts : host[k].mount => host'[k].mount
<1>1. ASSUME NEW h \in Hosts, NEW stage, Succeeds(h, stage) \/ Fails(h, stage)
      PROVE  \A k \in Hosts : host[k].mount => host'[k].mount
  BY <1>1, StageMoves DEF IInv, Moves
<1>2. ASSUME host' = host
      PROVE  \A k \in Hosts : host[k].mount => host'[k].mount
  BY <1>2
<1>3. cmd.exit = "running" => Target \in Hosts
  BY TargetIs, TypeParts DEF IInv
<1>4. CASE BootstrapStage
  BY <1>1, <1>3, <1>4 DEF BootstrapStage, Running
<1>5. CASE Timeout
  BY <1>1, <1>2, <1>3, <1>5 DEF Timeout
<1>6. ASSUME NEW h \in Hosts, OrphanStage(h)
      PROVE  \A k \in Hosts : host[k].mount => host'[k].mount
  BY <1>1, <1>6 DEF OrphanStage
<1>7. ASSUME NEW h \in Hosts, Mount(h)
      PROVE  \A k \in Hosts : host[k].mount => host'[k].mount
  BY <1>7 DEF Mount, Disciplined, IInv, TypeOK, Host
<1>8. ASSUME NEW h \in Hosts, CopyByHand(h)
      PROVE  \A k \in Hosts : host[k].mount => host'[k].mount
  BY <1>8 DEF CopyByHand, IInv, TypeOK, Host
<1>9. CASE DoctorCheck \/ Hang \/ \E kind \in { "bootstrap", "doctor" } : Begin(kind)
  BY <1>2, <1>9 DEF DoctorCheck, Hang, Begin
<1> QED
  BY <1>4, <1>5, <1>6, <1>7, <1>8, <1>9 DEF Next, CommandStep

\* What the doctor notes as seen has the share then.
LEMMA SeenHasMount ==
    ASSUME IInv, Next, NEW h \in seen', h \notin seen
    PROVE  host'[h].mount
<1>1. DoctorCheck
  BY DEF Next, CommandStep, Begin, BootstrapStage, Timeout, Hang, OrphanStage, Mount, CopyByHand
<1> QED
  BY <1>1 DEF DoctorCheck

\* Every step of a disciplined rollout keeps nodes and results on the share.
LEMMA SharedNext ==
    ASSUME IInv, Disciplined, SharedInv, [RolloutNext]_rolloutVars
    PROVE  SharedInv'
<1> USE DEF SharedInv
<1>1. CASE Next /\ UNCHANGED << node, job >>
  <2>1. \A k \in Hosts : host[k].mount => host'[k].mount
    BY <1>1, MountsStay
  <2>2. \A h \in seen' : h \in Hosts => host'[h].mount
    BY <1>1, <2>1, SeenHasMount
  <2> QED
    BY <1>1, <2>1, <2>2 DEF RolloutTypeOK, OutputsOnShare
<1>2. ASSUME NEW h \in Hosts, StartWorker(h) PROVE SharedInv'
  <2>1. cmd.kind = "doctor" /\ cmd.exit = "0"
    BY <1>2 DEF StartWorker, Disciplined
  <2>2. \A k \in Hosts : host[k].mount
    BY <2>1, IInvShared DEF DoctorPassMeansShared, Disciplined
  <2>3. UNCHANGED << host, seen, job >>
    BY <1>2 DEF StartWorker, vars
  <2>4. node' \in [Hosts -> { "unknown", "online" }]
    BY <1>2 DEF StartWorker, RolloutTypeOK
  <2> QED
    BY <2>2, <2>3, <2>4 DEF RolloutTypeOK, OutputsOnShare
<1>3. ASSUME NEW h \in Hosts, NEW j \in Jobs, NEW mode \in { "deterministic", "real" }, RunJob(h, j, mode)
      PROVE  SharedInv'
  <2>1. \A k \in Hosts : host'[k].mount = host[k].mount
    BY <1>3, RunJobHost DEF IInv, TypeOK
  <2>2. node' = node /\ seen' = seen /\ node[h] = "online" /\ host[h].mount
    BY <1>3 DEF RunJob
  <2>3. \/ job' = [job EXCEPT ![j] = [status |-> "completed", at |-> "share"]]
        \/ job' = [job EXCEPT ![j].status = "failed"]
    BY <1>3, <2>2 DEF RunJob
  <2>4. PICK r \in [ status : { "queued", "completed", "failed" }, at : { "nowhere", "share", "local disk" } ] :
          job' = [job EXCEPT ![j] = r] /\ (r.status = "completed" => r.at = "share")
    <3> DEFINE done == [status |-> "completed", at |-> "share"]
               failed == [job[j] EXCEPT !.status = "failed"]
    <3>1. job[j] \in [ status : { "queued", "completed", "failed" }, at : { "nowhere", "share", "local disk" } ]
      BY DEF RolloutTypeOK
    <3>2. failed \in [ status : { "queued", "completed", "failed" }, at : { "nowhere", "share", "local disk" } ]
          /\ failed.status = "failed"
      BY <3>1
    <3>3. job' = [job EXCEPT ![j] = done] \/ job' = [job EXCEPT ![j] = failed]
      BY <2>3
    <3>4. done \in [ status : { "queued", "completed", "failed" }, at : { "nowhere", "share", "local disk" } ]
          /\ done.at = "share"
      OBVIOUS
    <3> HIDE DEF done, failed
    <3> QED
      BY <3>2, <3>3, <3>4
  <2>5. /\ job' \in [Jobs -> [ status : { "queued", "completed", "failed" },
                               at : { "nowhere", "share", "local disk" } ]]
        /\ OutputsOnShare'
    BY <2>4 DEF RolloutTypeOK, OutputsOnShare
  <2> QED
    BY <2>1, <2>2, <2>5 DEF RolloutTypeOK
<1>4. CASE UNCHANGED rolloutVars
  BY <1>4 DEF rolloutVars, vars, RolloutTypeOK, OutputsOnShare
<1> QED
  BY <1>1, <1>2, <1>3, <1>4 DEF RolloutNext

\* A completed job's files lie on the shared storage, under that discipline:
\* the doctor's verdict, the registration and the worker's path together.
THEOREM FilesAreShared == Disciplined => (RolloutSpec => []OutputsOnShare)
<1> SUFFICES ASSUME Disciplined PROVE RolloutSpec => []OutputsOnShare
  OBVIOUS
<1>1. RolloutInit => SharedInv
  BY DEF RolloutInit, Init, SharedInv, RolloutTypeOK, OutputsOnShare
<1>2. IInv /\ SharedInv /\ [RolloutNext]_rolloutVars => SharedInv'
  BY SharedNext
<1>3. SharedInv => OutputsOnShare
  BY DEF SharedInv
<1> QED
  BY <1>1, <1>2, <1>3, RolloutSafety, DoctorInvariant, PTL
=============================================================================
