---------------------------- MODULE O3CPUSimulation ----------------------------
(***************************************************************************)
(* O3CPUSimulation::simulate (funcs/sim/o3cpu/o3cpu_simulation.py) and its *)
(* files.  A design gets a simulator of its own, compiled from sources     *)
(* that are edited in place; one thread per benchmark runs it, replaces    *)
(* the directory of the results and starts two more threads, the power     *)
(* model and the graph analysis, which write ppa.rpt and analysis.rpt      *)
(* there.  Nothing but the files survives when the program is killed.      *)
(***************************************************************************)
EXTENDS Naturals, Sequences, FiniteSets

CONSTANTS
  Designs,       \* the designs, each of which names a simulator and a directory
  Benchmarks,
  mode,          \* "exploration": reports are used again; "simulation": they are not
  deg_model,     \* misc-setting: deg-model
  MayBeKilled    \* whether the program may be killed

ASSUME SimulationAssumption ==
  /\ "lost" \notin Designs
  /\ mode \in {"exploration", "simulation"}
  /\ deg_model \in BOOLEAN /\ MayBeKilled \in BOOLEAN

(* generate_simulator edits these parts of the gem5 sources, in this order *)
Edits == <<"front end", "predictor", "back end", "units">>
Parts == {"front end", "predictor", "back end", "units"}

(* the file that holds a part *)
FileOf == [p \in Parts |-> CASE p = "predictor" -> "branch-predictor"
                             [] p = "units"     -> "fu-pool"
                             [] OTHER           -> "base-o3-cpu"]

(* the design whose parameters a part has; a truncated file has lost them  *)
Source == [Parts -> Designs \cup {"lost"}]

(* a file is missing, has been opened, or has been written *)
FileState == {"none", "empty", "whole"}

(* temp/gem5-<design>/<benchmark>: the source of the simulator that left   *)
(* it, the trace and the two reports                                       *)
Directory == [simulator : Source, trace : FileState, ppa : FileState, analysis : FileState]
Absent    == [absent |-> TRUE]

VARIABLES
  source,   \* the gem5 sources
  build,    \* build/RISCV/gem5-<design>.opt: the sources they were compiled from
  temp,     \* the directories
  pc,
  design,   \* gem5_opt and temp of the simulator: the design being simulated
  edit,     \* the edit of generate_simulator
  cnt,      \* what modify_gem5_source_code has read
  worker,   \* the thread of each benchmark
  lines,    \* what trim_instruction_flow has read
  pat, deg, \* the threads of the power model and the graph analysis
  sound     \* whether no command of a benchmark has failed in the last call

files   == <<source, build, temp>>
threads == <<worker, lines, pat, deg>>
vars    == <<files, pc, design, edit, cnt, threads, sound>>

TypeOK ==
  /\ source \in Source
  /\ DOMAIN build \subseteq Designs /\ \A d \in DOMAIN build : build[d] \in Source
  /\ temp \in [Designs -> [Benchmarks -> Directory \cup {Absent}]]
  /\ pc \in {"idle", "edit", "write", "compile", "simulate", "down"}
  /\ design \in Designs
  /\ edit \in 1 .. Len(Edits)
  /\ cnt \in Source
  /\ worker \in [Benchmarks -> {"gem5", "remove", "move", "check", "trim", "rewrite",
                                "post", "join", "ended"}]
  /\ lines \in [Benchmarks -> FileState]
  /\ pat \in [Benchmarks -> {"run", "write", "ended"}]
  /\ deg \in [Benchmarks -> {"run", "write", "ended"}]
  /\ sound \in [Benchmarks -> BOOLEAN]

(* the memory of a program that is not simulating anything *)
Unread  == [p \in Parts |-> "lost"]
Nothing == [k \in Benchmarks |-> "none"]
Ended   == [k \in Benchmarks |-> "ended"]
Failed  == [k \in Benchmarks |-> FALSE]

Init ==
  /\ source \in [Parts -> Designs]
  /\ build = <<>>
  /\ temp = [d \in Designs |-> [k \in Benchmarks |-> Absent]]
  /\ pc = "idle"
  /\ design \in Designs
  /\ edit = 1 /\ cnt = Unread
  /\ worker = Ended /\ lines = Nothing /\ pat = Ended /\ deg = Ended
  /\ sound = Failed

-----------------------------------------------------------------------------
(* variant: the reports are not looked for *)
if_no_need_simulate_Never(d) == FALSE

(* every benchmark has an analysis.rpt *)
if_no_need_simulate(d) ==
  \A k \in Benchmarks : temp[d][k] # Absent /\ temp[d][k].analysis # "none"

ReturnCached(d) ==
  /\ pc = "idle"
  /\ mode = "exploration" /\ if_no_need_simulate(d)
  /\ UNCHANGED vars

(* the threads of simulate *)
StartThreads == worker' = [k \in Benchmarks |-> "gem5"] /\ UNCHANGED <<lines, pat, deg>>

(* simulate: a simulator that exists is not generated again *)
Call(d) ==
  /\ pc = "idle"
  /\ mode = "exploration" => ~if_no_need_simulate(d)
  /\ design' = d
  /\ sound' = [k \in Benchmarks |-> TRUE]
  /\ IF d \in DOMAIN build THEN pc' = "simulate" /\ StartThreads
     ELSE pc' = "edit" /\ UNCHANGED threads
  /\ UNCHANGED <<files, edit, cnt>>

-----------------------------------------------------------------------------
InFile(p) == FileOf[p] = FileOf[Edits[edit]]

(* modify_gem5_source_code reads a file and opens it for writing *)
OpenSource ==
  /\ pc = "edit"
  /\ cnt' = source
  /\ source' = [p \in Parts |-> IF InFile(p) THEN "lost" ELSE source[p]]
  /\ pc' = "write"
  /\ UNCHANGED <<build, temp, design, edit, threads, sound>>

(* variant: the last edit, of the functional units, is left out *)
Substituted_NotUnits(p) ==
  IF p = Edits[edit] /\ p # "units" /\ cnt[p] # "lost" THEN design ELSE cnt[p]

(* re.sub: nothing is found in what has been lost *)
Substituted(p) == IF p = Edits[edit] /\ cnt[p] # "lost" THEN design ELSE cnt[p]

(* variant: one edit too many *)
NextEdit_Past == edit + 1

NextEdit == IF edit = Len(Edits) THEN 1 ELSE edit + 1

WriteSource ==
  /\ pc = "write"
  /\ source' = [p \in Parts |-> IF InFile(p) THEN Substituted(p) ELSE source[p]]
  /\ edit' = NextEdit
  /\ pc' = IF edit = Len(Edits) THEN "compile" ELSE "edit"
  /\ cnt' = Unread
  /\ UNCHANGED <<build, temp, design, threads, sound>>

(* scons compiles what the sources say, and mv gives the simulator its name *)
Compile ==
  /\ pc = "compile"
  /\ \A p \in Parts : source[p] # "lost"
  /\ build' = [d \in DOMAIN build \cup {design} |-> IF d = design THEN source ELSE build[d]]
  /\ pc' = "simulate"
  /\ StartThreads
  /\ UNCHANGED <<source, temp, design, edit, cnt, sound>>

(* error() ends the exploring thread, or the program *)
CompileFails ==
  /\ pc = "compile"
  /\ pc' = IF mode = "exploration" THEN "idle" ELSE "down"
  /\ sound' = Failed
  /\ UNCHANGED <<files, design, edit, cnt, threads>>

-----------------------------------------------------------------------------
(* the thread of a benchmark goes from one step to the next *)
Moves(k, from, to) ==
  /\ pc = "simulate" /\ worker[k] = from
  /\ worker' = [worker EXCEPT ![k] = to]

Fails(k) == sound' = [sound EXCEPT ![k] = FALSE]

dir(k) == temp[design][k]

main == <<source, build, pc, design, edit, cnt>>

(* the command of simulation_*_impl: gem5 && rm -rf && mv *)
Gem5 ==
  \E k \in Benchmarks :
    /\ Moves(k, "gem5", "remove")
    /\ UNCHANGED <<main, temp, lines, pat, deg, sound>>

Gem5Fails ==
  \E k \in Benchmarks :
    /\ Moves(k, "gem5", "check")
    /\ Fails(k)
    /\ UNCHANGED <<main, temp, lines, pat, deg>>

RemoveOld ==
  \E k \in Benchmarks :
    /\ Moves(k, "remove", "move")
    /\ temp' = [temp EXCEPT ![design][k] = Absent]
    /\ UNCHANGED <<main, lines, pat, deg, sound>>

(* variant: the directory is removed after the new one has been moved *)
NewDirectory_Removed == Absent

(* what gem5 has left *)
NewDirectory == [simulator |-> build[design], trace |-> IF deg_model THEN "whole" ELSE "none",
                 ppa |-> "none", analysis |-> "none"]

MoveNew ==
  \E k \in Benchmarks :
    /\ Moves(k, "move", "check")
    /\ temp' = [temp EXCEPT ![design][k] = NewDirectory]
    /\ UNCHANGED <<main, lines, pat, deg, sound>>

(* mv fails after rm -rf has removed the directory of the earlier run *)
MoveFails ==
  \E k \in Benchmarks :
    /\ Moves(k, "move", "check")
    /\ Fails(k)
    /\ UNCHANGED <<main, temp, lines, pat, deg>>

(* variant: a benchmark that failed is simulated again *)
AfterCheck_Retry(k) == IF dir(k) = Absent THEN "gem5" ELSE IF deg_model THEN "trim" ELSE "post"

AfterCheck(k) == IF dir(k) = Absent THEN "ended" ELSE IF deg_model THEN "trim" ELSE "post"

(* the directory may be that of an earlier run *)
Check ==
  \E k \in Benchmarks :
    /\ Moves(k, "check", AfterCheck(k))
    /\ UNCHANGED <<main, temp, lines, pat, deg, sound>>

(* variant: the trace is read after it has been opened for writing *)
TraceRead_TooLate(k) == "empty"

TraceRead(k) == dir(k).trace

(* trim_instruction_flow reads the trace, opens it for writing, writes it *)
OpenTrace ==
  \E k \in Benchmarks :
    /\ Moves(k, "trim", "rewrite")
    /\ lines' = [lines EXCEPT ![k] = TraceRead(k)]
    /\ temp' = [temp EXCEPT ![design][k].trace = "empty"]
    /\ UNCHANGED <<main, pat, deg, sound>>

WriteTrace ==
  \E k \in Benchmarks :
    /\ Moves(k, "rewrite", "post")
    /\ temp' = [temp EXCEPT ![design][k].trace = lines[k]]
    /\ lines' = [lines EXCEPT ![k] = "none"]
    /\ UNCHANGED <<main, pat, deg, sound>>

StartPost ==
  \E k \in Benchmarks :
    /\ Moves(k, "post", "join")
    /\ pat' = [pat EXCEPT ![k] = "run"]
    /\ deg' = [deg EXCEPT ![k] = IF deg_model THEN "run" ELSE "ended"]
    /\ UNCHANGED <<main, temp, lines, sound>>

PostEnded(k) == pat[k] = "ended" /\ deg[k] = "ended"

JoinPost ==
  \E k \in Benchmarks :
    /\ PostEnded(k)
    /\ Moves(k, "join", "ended")
    /\ UNCHANGED <<main, temp, lines, pat, deg, sound>>

(* pat_model: without McPAT's report the thread dies before it opens ppa.rpt *)
PatFails ==
  \E k \in Benchmarks :
    /\ pat[k] = "run"
    /\ pat' = [pat EXCEPT ![k] = "ended"]
    /\ Fails(k)
    /\ UNCHANGED <<main, temp, worker, lines, deg>>

OpenPpa ==
  \E k \in Benchmarks :
    /\ pat[k] = "run"
    /\ pat' = [pat EXCEPT ![k] = "write"]
    /\ temp' = [temp EXCEPT ![design][k].ppa = "empty"]
    /\ UNCHANGED <<main, worker, lines, deg, sound>>

WritePpa ==
  \E k \in Benchmarks :
    /\ pat[k] = "write"
    /\ pat' = [pat EXCEPT ![k] = "ended"]
    /\ temp' = [temp EXCEPT ![design][k].ppa = "whole"]
    /\ UNCHANGED <<main, worker, lines, deg, sound>>

(* deg_model: an analysis that fails opens no report *)
DegFails ==
  \E k \in Benchmarks :
    /\ deg[k] = "run"
    /\ deg' = [deg EXCEPT ![k] = "ended"]
    /\ Fails(k)
    /\ UNCHANGED <<main, temp, worker, lines, pat>>

OpenAnalysis ==
  \E k \in Benchmarks :
    /\ deg[k] = "run" /\ dir(k).trace = "whole"
    /\ deg' = [deg EXCEPT ![k] = "write"]
    /\ temp' = [temp EXCEPT ![design][k].analysis = "empty"]
    /\ UNCHANGED <<main, worker, lines, pat, sound>>

WriteAnalysis ==
  \E k \in Benchmarks :
    /\ deg[k] = "write"
    /\ deg' = [deg EXCEPT ![k] = "ended"]
    /\ temp' = [temp EXCEPT ![design][k].analysis = "whole"]
    /\ UNCHANGED <<main, worker, lines, pat, sound>>

(* the threads of the benchmarks have been joined *)
Return ==
  /\ pc = "simulate"
  /\ \A k \in Benchmarks : worker[k] = "ended"
  /\ pc' = "idle"
  /\ UNCHANGED <<files, design, edit, cnt, threads, sound>>

-----------------------------------------------------------------------------
(* the program and the commands it has started are killed *)
Kill ==
  /\ MayBeKilled
  /\ pc # "down"
  /\ pc' = "down"
  /\ edit' = 1 /\ cnt' = Unread
  /\ worker' = Ended /\ lines' = Nothing /\ pat' = Ended /\ deg' = Ended
  /\ sound' = Failed
  /\ UNCHANGED <<files, design>>

Restart ==
  /\ pc = "down"
  /\ pc' = "idle"
  /\ UNCHANGED <<files, design, edit, cnt, threads, sound>>

Benchmark == \/ Gem5 \/ Gem5Fails \/ RemoveOld \/ MoveNew \/ MoveFails \/ Check
             \/ OpenTrace \/ WriteTrace \/ StartPost \/ JoinPost

Post == PatFails \/ OpenPpa \/ WritePpa \/ DegFails \/ OpenAnalysis \/ WriteAnalysis

Main == \/ \E d \in Designs : Call(d)
        \/ OpenSource \/ WriteSource \/ Compile \/ CompileFails \/ Return

Next == \/ Main \/ Benchmark \/ Post \/ Kill \/ Restart
        \/ \E d \in Designs : ReturnCached(d)

Spec == Init /\ [][Next]_vars

(* every thread is scheduled, and the commands it waits for return; that   *)
(* an ended program is started again is up to its operator                 *)
FairSpec == Spec /\ WF_vars(Main) /\ WF_vars(Benchmark) /\ WF_vars(Post)
-----------------------------------------------------------------------------
(***************************************************************************)
(* A simulator has been compiled from the parameters of its design, and    *)
(* the results of a design are those of its own simulator, whatever was    *)
(* simulated before, failed or was killed: the sources are edited in place *)
(* and shared by all designs.                                              *)
(***************************************************************************)
FilesAreOfTheirDesign ==
  /\ \A d \in DOMAIN build : \A p \in Parts : build[d][p] = d
  /\ \A d \in Designs, k \in Benchmarks : temp[d][k] # Absent =>
       \A p \in Parts : temp[d][k].simulator[p] = d

(***************************************************************************)
(* A benchmark whose commands succeed has its reports when the call        *)
(* returns, whatever happens to the others.                                *)
(***************************************************************************)
SuccessLeavesReports ==
  pc = "idle" => \A k \in Benchmarks : sound[k] =>
    /\ dir(k) # Absent /\ dir(k).ppa = "whole"
    /\ deg_model => dir(k).analysis = "whole"

(***************************************************************************)
(* Where the program is never killed, no file is left half written when a  *)
(* call returns: every thread that writes one has been joined.             *)
(***************************************************************************)
FilesAreWhole ==
  pc = "idle" => \A d \in Designs, k \in Benchmarks : temp[d][k] # Absent =>
    "empty" \notin {temp[d][k].trace, temp[d][k].ppa, temp[d][k].analysis}

(* all the reports the exploration looks for are there *)
Analysed(d) == \A k \in Benchmarks : temp[d][k] # Absent /\ temp[d][k].analysis # "none"

(***************************************************************************)
(* A design whose reports the exploration has once found complete keeps    *)
(* them: no later call, failure or restart removes one.                    *)
(***************************************************************************)
ReportsAreKept ==
  \A d \in Designs : [](pc = "idle" /\ Analysed(d) => []Analysed(d))

(***************************************************************************)
(* Every call returns or ends the program with an error, however many of   *)
(* its commands fail.                                                      *)
(***************************************************************************)
CallsReturn == pc # "idle" ~> pc \in {"idle", "down"}
=============================================================================
