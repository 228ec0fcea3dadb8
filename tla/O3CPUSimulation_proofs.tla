------------------------ MODULE O3CPUSimulation_proofs ------------------------
(***************************************************************************)
(* For all sets of designs and benchmarks, in either mode, with or without *)
(* kills: the variables keep their types, and every simulator and every    *)
(* directory of results belongs to the design that names it.  What         *)
(* succeeds has its reports, an exploration never removes complete ones,   *)
(* and without kills no file is half written between two calls.            *)
(***************************************************************************)
EXTENDS O3CPUSimulation, TLAPS

(* what an edit leaves in its part *)
Done(s, p) == s[p] \in {design, "lost"}

(* the edits already made are those of the design, or have been lost *)
Edited ==
  /\ pc \notin {"edit", "write"} => edit = 1
  /\ pc \in {"edit", "write"} => \A j \in 1 .. 4 : j < edit => Done(source, Edits[j])
  /\ pc = "write" => \A j \in 1 .. 4 : j < edit => Done(cnt, Edits[j])
  /\ pc = "compile" => \A p \in Parts : Done(source, p)

(* a thread runs only in a simulation, the models only in a thread that    *)
(* joins them, and both only once the directory is there                   *)
Running ==
  /\ pc = "simulate" => design \in DOMAIN build
  /\ \A k \in Benchmarks :
       /\ worker[k] # "ended" => pc = "simulate"
       /\ worker[k] \in {"trim", "rewrite", "post", "join"} => dir(k) # Absent
       /\ pat[k] # "ended" => worker[k] = "join"
       /\ deg[k] # "ended" => worker[k] = "join"

IInv == TypeOK /\ Edited /\ Running /\ FilesAreOfTheirDesign

-----------------------------------------------------------------------------
(* every part is edited once *)
LEMMA PartsAreEdited ==
  /\ Len(Edits) = 4
  /\ \A j \in 1 .. 4 : Edits[j] \in Parts
  /\ \A p \in Parts : \E j \in 1 .. 4 : Edits[j] = p
  /\ \A i, j \in 1 .. 4 : Edits[i] = Edits[j] => i = j
BY DEF Edits, Parts

(* a directory that is there is told from one that is not *)
LEMMA DirectoryIsNotAbsent == Absent \notin Directory
<1>1. SUFFICES ASSUME Absent \in Directory PROVE FALSE
  OBVIOUS
<1>2. DOMAIN Absent = {"simulator", "trace", "ppa", "analysis"}
  BY <1>1 DEF Directory
<1>3. DOMAIN Absent = {"absent"}
  BY DEF Absent
<1> QED
  BY <1>2, <1>3

-----------------------------------------------------------------------------
Temps == [Designs -> [Benchmarks -> Directory \cup {Absent}]]

(* the results of a design are those of its own simulator *)
Results == \A d \in Designs, k \in Benchmarks : temp[d][k] # Absent =>
             \A p \in Parts : temp[d][k].simulator[p] = d

Simulators == \A d \in DOMAIN build : \A p \in Parts : build[d][p] = d

(* the property in its two parts: the simulators and the results *)
LEMMA FilesDef == FilesAreOfTheirDesign <=> Simulators /\ Results
BY DEF FilesAreOfTheirDesign, Simulators, Results

(* a directory is replaced by another of the same design *)
LEMMA Replaced ==
  ASSUME temp \in Temps, design \in Designs, UNCHANGED design, Results,
         NEW k \in Benchmarks, NEW r \in Directory \cup {Absent},
         r # Absent => \A p \in Parts : r.simulator[p] = design,
         temp' = [temp EXCEPT ![design][k] = r]
  PROVE  /\ temp' \in Temps
         /\ Results'
         /\ dir(k)' = r
         /\ \A q \in Benchmarks : q # k => dir(q)' = dir(q)
<1>1. /\ temp' \in Temps
      /\ \A d \in Designs, q \in Benchmarks :
           temp'[d][q] = IF d = design /\ q = k THEN r ELSE temp[d][q]
  BY DEF Temps
<1>2. Results'
  BY <1>1 DEF Results
<1> QED
  BY <1>1, <1>2 DEF dir

(* a file of a directory is opened or written *)
LEMMA FileWritten ==
  ASSUME temp \in Temps, design \in Designs, UNCHANGED design, Results,
         NEW k \in Benchmarks, dir(k) # Absent, NEW v \in FileState,
         \/ temp' = [temp EXCEPT ![design][k].trace = v]
         \/ temp' = [temp EXCEPT ![design][k].ppa = v]
         \/ temp' = [temp EXCEPT ![design][k].analysis = v]
  PROVE  /\ temp' \in Temps
         /\ Results'
         /\ \A q \in Benchmarks : dir(q) # Absent => dir(q)' # Absent
<1>1. dir(k) \in Directory
  BY DEF dir, Temps
<1>2. PICK r \in Directory : /\ r.simulator = dir(k).simulator
                             /\ temp' = [temp EXCEPT ![design][k] = r]
  <2>1. CASE temp' = [temp EXCEPT ![design][k].trace = v]
    <3>1. [dir(k) EXCEPT !.trace = v] \in Directory
      BY <1>1 DEF Directory
    <3>2. [dir(k) EXCEPT !.trace = v].simulator = dir(k).simulator
      BY <1>1 DEF Directory
    <3> QED BY <2>1, <3>1, <3>2 DEF dir
  <2>2. CASE temp' = [temp EXCEPT ![design][k].ppa = v]
    <3>1. [dir(k) EXCEPT !.ppa = v] \in Directory
      BY <1>1 DEF Directory
    <3>2. [dir(k) EXCEPT !.ppa = v].simulator = dir(k).simulator
      BY <1>1 DEF Directory
    <3> QED BY <2>2, <3>1, <3>2 DEF dir
  <2>3. CASE temp' = [temp EXCEPT ![design][k].analysis = v]
    <3>1. [dir(k) EXCEPT !.analysis = v] \in Directory
      BY <1>1 DEF Directory
    <3>2. [dir(k) EXCEPT !.analysis = v].simulator = dir(k).simulator
      BY <1>1 DEF Directory
    <3> QED BY <2>3, <3>1, <3>2 DEF dir
  <2> QED BY <2>1, <2>2, <2>3
<1>3. \A p \in Parts : r.simulator[p] = design
  BY <1>2 DEF Results, dir
<1>4. /\ temp' \in Temps /\ Results' /\ dir(k)' = r
      /\ \A q \in Benchmarks : q # k => dir(q)' = dir(q)
  BY <1>2, <1>3, Replaced
<1> QED
  BY <1>4, DirectoryIsNotAbsent

-----------------------------------------------------------------------------
(* the types of the files and of the memory of the main thread *)
MainOK ==
  /\ source \in Source
  /\ DOMAIN build \subseteq Designs /\ \A d \in DOMAIN build : build[d] \in Source
  /\ pc \in {"idle", "edit", "write", "compile", "simulate", "down"}
  /\ design \in Designs
  /\ edit \in 1 .. 4
  /\ cnt \in Source

(* the types of the memory of the other threads *)
ThreadsOK ==
  /\ worker \in [Benchmarks -> {"gem5", "remove", "move", "check", "trim", "rewrite",
                                "post", "join", "ended"}]
  /\ lines \in [Benchmarks -> FileState]
  /\ pat \in [Benchmarks -> {"run", "write", "ended"}]
  /\ deg \in [Benchmarks -> {"run", "write", "ended"}]
  /\ sound \in [Benchmarks -> BOOLEAN]

(* the inductive invariant by the threads that change its parts *)
LEMMA IInvDef == IInv <=> /\ MainOK /\ temp \in Temps /\ ThreadsOK
                          /\ Edited /\ Running /\ Simulators /\ Results
BY PartsAreEdited, FilesDef DEF IInv, TypeOK, MainOK, ThreadsOK, Temps

(* the same after a step *)
LEMMA IInvNext ==
  ASSUME MainOK', temp' \in Temps, ThreadsOK', Edited', Running', Simulators', Results'
  PROVE  IInv'
BY PartsAreEdited
   DEF IInv, TypeOK, MainOK, ThreadsOK, Temps, FilesAreOfTheirDesign, Simulators, Results

(* what a thread leaves alone *)
LEMMA MainUnchanged ==
  ASSUME MainOK, Edited, Simulators, UNCHANGED main
  PROVE  MainOK' /\ Edited' /\ Simulators'
BY DEF MainOK, Edited, Done, Simulators, main

(* the program starts in the invariant *)
LEMMA InitOK == Init => IInv
<1> SUFFICES ASSUME Init PROVE IInv
  OBVIOUS
<1>1. MainOK
  BY PartsAreEdited DEF Init, MainOK, Source, Unread
<1>2. temp \in Temps /\ Results
  BY DEF Init, Temps, Results
<1>3. ThreadsOK
  BY DEF Init, ThreadsOK, Ended, Nothing, Failed, FileState
<1>4. Edited /\ Running /\ Simulators
  BY DEF Init, Edited, Running, Simulators, Ended
<1> QED
  BY <1>1, <1>2, <1>3, <1>4, IInvDef

-----------------------------------------------------------------------------
(* the steps of the thread of a benchmark *)
LEMMA BenchmarkStep ==
  ASSUME IInv, Benchmark
  PROVE  IInv'
<1> USE DEF Moves
<1>0. /\ MainOK /\ temp \in Temps /\ ThreadsOK
      /\ Edited /\ Running /\ Simulators /\ Results
  BY IInvDef
<1>1. UNCHANGED main
  BY DEF Benchmark, Gem5, Gem5Fails, RemoveOld, MoveNew, MoveFails, Check, OpenTrace, WriteTrace,
         StartPost, JoinPost
<1>2. MainOK' /\ Edited' /\ Simulators'
  BY <1>0, <1>1, MainUnchanged
<1>3. design \in Designs /\ UNCHANGED <<pc, design, build>>
  BY <1>0, <1>1 DEF MainOK, main
<1>4. SUFFICES temp' \in Temps /\ Results' /\ ThreadsOK' /\ Running'
  BY <1>2, IInvNext
<1>5. CASE Gem5 \/ Gem5Fails \/ MoveFails \/ JoinPost
  <2>1. PICK k \in Benchmarks :
           /\ \/ Moves(k, "gem5", "remove") /\ UNCHANGED sound
              \/ Moves(k, "gem5", "check") /\ Fails(k)
              \/ Moves(k, "move", "check") /\ Fails(k)
              \/ PostEnded(k) /\ Moves(k, "join", "ended") /\ UNCHANGED sound
           /\ UNCHANGED <<temp, lines, pat, deg>>
    BY <1>5 DEF Gem5, Gem5Fails, MoveFails, JoinPost
  <2>2. temp' \in Temps /\ Results'
    BY <1>0, <1>3, <2>1 DEF Results
  <2>3. ThreadsOK'
    BY <1>0, <2>1 DEF ThreadsOK, Fails
  <2>4. Running'
    BY <1>0, <1>3, <2>1 DEF ThreadsOK, Running, dir, PostEnded
  <2> QED BY <2>2, <2>3, <2>4
<1>6. CASE RemoveOld
  <2>1. PICK k \in Benchmarks : /\ Moves(k, "remove", "move")
                                /\ temp' = [temp EXCEPT ![design][k] = Absent]
                                /\ UNCHANGED <<lines, pat, deg, sound>>
    BY <1>6 DEF RemoveOld
  <2>2. temp' \in Temps /\ Results' /\ \A q \in Benchmarks : q # k => dir(q)' = dir(q)
    BY <1>0, <1>3, <2>1, Replaced
  <2>3. ThreadsOK'
    BY <1>0, <2>1 DEF ThreadsOK
  <2>4. Running'
    BY <1>0, <1>3, <2>1, <2>2 DEF ThreadsOK, Running
  <2> QED BY <2>2, <2>3, <2>4
<1>7. CASE MoveNew
  <2>1. PICK k \in Benchmarks : /\ Moves(k, "move", "check")
                                /\ temp' = [temp EXCEPT ![design][k] = NewDirectory]
                                /\ UNCHANGED <<lines, pat, deg, sound>>
    BY <1>7 DEF MoveNew
  <2>2. design \in DOMAIN build
    BY <1>0, <2>1 DEF Running
  <2>3. PICK r \in Directory : r = NewDirectory
    <3>1. build[design] \in Source
      BY <1>0, <2>2 DEF MainOK
    <3>2. NewDirectory \in Directory
      BY <3>1 DEF NewDirectory, Directory, FileState
    <3> QED BY <3>2
  <2>4. \A p \in Parts : r.simulator[p] = design
    BY <1>0, <2>2, <2>3 DEF Simulators, NewDirectory
  <2>5. temp' \in Temps /\ Results' /\ \A q \in Benchmarks : q # k => dir(q)' = dir(q)
    BY <1>0, <1>3, <2>1, <2>3, <2>4, Replaced
  <2>6. ThreadsOK'
    BY <1>0, <2>1 DEF ThreadsOK
  <2>7. Running'
    BY <1>0, <1>3, <2>1, <2>5 DEF ThreadsOK, Running
  <2> QED BY <2>5, <2>6, <2>7
<1>8. CASE Check
  <2>1. PICK k \in Benchmarks : /\ Moves(k, "check", AfterCheck(k))
                                /\ UNCHANGED <<temp, lines, pat, deg, sound>>
    BY <1>8 DEF Check
  <2>2. temp' \in Temps /\ Results'
    BY <1>0, <1>3, <2>1 DEF Results
  <2>3. ThreadsOK'
    BY <1>0, <2>1 DEF ThreadsOK, AfterCheck
  <2>4. Running'
    BY <1>0, <1>3, <2>1 DEF ThreadsOK, Running, dir, AfterCheck
  <2> QED BY <2>2, <2>3, <2>4
<1>9. CASE OpenTrace \/ WriteTrace
  <2>1. PICK k \in Benchmarks, v \in FileState, w \in FileState :
           /\ \/ Moves(k, "trim", "rewrite")
              \/ Moves(k, "rewrite", "post")
           /\ temp' = [temp EXCEPT ![design][k].trace = v]
           /\ lines' = [lines EXCEPT ![k] = w]
           /\ UNCHANGED <<pat, deg, sound>>
    <3>1. CASE OpenTrace
      <4>1. PICK k \in Benchmarks : /\ Moves(k, "trim", "rewrite")
                                    /\ lines' = [lines EXCEPT ![k] = TraceRead(k)]
                                    /\ temp' = [temp EXCEPT ![design][k].trace = "empty"]
                                    /\ UNCHANGED <<pat, deg, sound>>
        BY <3>1 DEF OpenTrace
      <4>2. TraceRead(k) \in FileState /\ "empty" \in FileState
        BY <1>0, <1>3, <4>1 DEF Running, Temps, Directory, dir, TraceRead, FileState
      <4> QED BY <4>1, <4>2
    <3>2. CASE WriteTrace
      <4>1. PICK k \in Benchmarks : /\ Moves(k, "rewrite", "post")
                                    /\ lines' = [lines EXCEPT ![k] = "none"]
                                    /\ temp' = [temp EXCEPT ![design][k].trace = lines[k]]
                                    /\ UNCHANGED <<pat, deg, sound>>
        BY <3>2 DEF WriteTrace
      <4>2. lines[k] \in FileState /\ "none" \in FileState
        BY <1>0 DEF ThreadsOK, FileState
      <4> QED BY <4>1, <4>2
    <3> QED BY <1>9, <3>1, <3>2
  <2>2. dir(k) # Absent
    BY <1>0, <2>1 DEF Running
  <2>3. temp' \in Temps /\ Results' /\ \A q \in Benchmarks : dir(q) # Absent => dir(q)' # Absent
    BY <1>0, <1>3, <2>1, <2>2, FileWritten
  <2>4. ThreadsOK'
    BY <1>0, <2>1 DEF ThreadsOK
  <2>5. Running'
    BY <1>0, <1>3, <2>1, <2>3 DEF ThreadsOK, Running
  <2> QED BY <2>3, <2>4, <2>5
<1>10. CASE StartPost
  <2>1. PICK k \in Benchmarks :
           /\ Moves(k, "post", "join")
           /\ pat' = [pat EXCEPT ![k] = "run"]
           /\ deg' = [deg EXCEPT ![k] = IF deg_model THEN "run" ELSE "ended"]
           /\ UNCHANGED <<temp, lines, sound>>
    BY <1>10 DEF StartPost
  <2>2. temp' \in Temps /\ Results'
    BY <1>0, <1>3, <2>1 DEF Results
  <2>3. ThreadsOK'
    BY <1>0, <2>1 DEF ThreadsOK
  <2>4. Running'
    BY <1>0, <1>3, <2>1 DEF ThreadsOK, Running, dir
  <2> QED BY <2>2, <2>3, <2>4
<1> QED
  BY <1>5, <1>6, <1>7, <1>8, <1>9, <1>10 DEF Benchmark

(* the steps of the power model and of the graph analysis *)
LEMMA PostStep ==
  ASSUME IInv, Post
  PROVE  IInv'
<1>0. /\ MainOK /\ temp \in Temps /\ ThreadsOK
      /\ Edited /\ Running /\ Simulators /\ Results
  BY IInvDef
<1>1. UNCHANGED main
  BY DEF Post, PatFails, OpenPpa, WritePpa, DegFails, OpenAnalysis, WriteAnalysis
<1>2. MainOK' /\ Edited' /\ Simulators'
  BY <1>0, <1>1, MainUnchanged
<1>3. design \in Designs /\ UNCHANGED <<pc, design, build>>
  BY <1>0, <1>1 DEF MainOK, main
<1>4. SUFFICES temp' \in Temps /\ Results' /\ ThreadsOK' /\ Running'
  BY <1>2, IInvNext
<1>5. CASE PatFails \/ DegFails
  <2>1. PICK k \in Benchmarks :
           /\ \/ /\ pat[k] = "run" /\ pat' = [pat EXCEPT ![k] = "ended"] /\ UNCHANGED deg
              \/ /\ deg[k] = "run" /\ deg' = [deg EXCEPT ![k] = "ended"] /\ UNCHANGED pat
           /\ Fails(k)
           /\ UNCHANGED <<temp, worker, lines>>
    BY <1>5 DEF PatFails, DegFails
  <2>2. temp' \in Temps /\ Results'
    BY <1>0, <1>3, <2>1 DEF Results
  <2>3. ThreadsOK'
    BY <1>0, <2>1 DEF ThreadsOK, Fails
  <2>4. Running'
    BY <1>0, <1>3, <2>1 DEF ThreadsOK, Running, dir
  <2> QED BY <2>2, <2>3, <2>4
<1>6. CASE OpenPpa \/ WritePpa \/ OpenAnalysis \/ WriteAnalysis
  <2>1. PICK k \in Benchmarks, v \in FileState, w \in {"write", "ended"} :
           /\ \/ /\ pat[k] # "ended" /\ pat' = [pat EXCEPT ![k] = w] /\ UNCHANGED deg
                 /\ temp' = [temp EXCEPT ![design][k].ppa = v]
              \/ /\ deg[k] # "ended" /\ deg' = [deg EXCEPT ![k] = w] /\ UNCHANGED pat
                 /\ temp' = [temp EXCEPT ![design][k].analysis = v]
           /\ UNCHANGED <<worker, lines, sound>>
    <3>1. "empty" \in FileState /\ "whole" \in FileState
      BY DEF FileState
    <3> QED BY <1>6, <3>1 DEF OpenPpa, WritePpa, OpenAnalysis, WriteAnalysis
  <2>2. worker[k] = "join" /\ dir(k) # Absent
    BY <1>0, <2>1 DEF Running
  <2>3. temp' \in Temps /\ Results' /\ \A q \in Benchmarks : dir(q) # Absent => dir(q)' # Absent
    BY <1>0, <1>3, <2>1, <2>2, FileWritten
  <2>4. ThreadsOK'
    BY <1>0, <2>1 DEF ThreadsOK
  <2>5. Running'
    BY <1>0, <1>3, <2>1, <2>2, <2>3 DEF ThreadsOK, Running
  <2> QED BY <2>3, <2>4, <2>5
<1> QED
  BY <1>5, <1>6 DEF Post

-----------------------------------------------------------------------------
(* the edits: the parts before the current one are done, and the file that *)
(* is written keeps them                                                   *)
LEMMA EditStep ==
  ASSUME IInv, OpenSource \/ WriteSource
  PROVE  IInv'
<1>0. /\ MainOK /\ temp \in Temps /\ ThreadsOK
      /\ Edited /\ Running /\ Simulators /\ Results
  BY IInvDef
<1>1. /\ pc \in {"edit", "write"} /\ pc' \in {"edit", "write", "compile"}
      /\ UNCHANGED <<build, temp, design, threads, sound>>
  BY DEF OpenSource, WriteSource
<1>2. temp' \in Temps /\ ThreadsOK' /\ Running' /\ Simulators' /\ Results'
  BY <1>0, <1>1 DEF ThreadsOK, Running, Simulators, Results, threads, dir
<1>3. CASE OpenSource
  <2>1. MainOK'
    BY <1>0, <1>3 DEF OpenSource, MainOK, Source
  <2>2. Edited'
    BY <1>0, <1>3, PartsAreEdited DEF OpenSource, Edited, MainOK, Done, Source
  <2> QED BY <1>2, <2>1, <2>2, IInvNext
<1>4. CASE WriteSource
  <2>1. \A p \in Parts : Substituted(p) \in Designs \cup {"lost"}
    BY <1>0 DEF Substituted, MainOK, Source
  <2>2. MainOK'
    BY <1>0, <1>4, <2>1, PartsAreEdited DEF WriteSource, MainOK, Source, NextEdit, Unread
  <2>3. \A j \in 1 .. 4 : j =< edit => Done(source, Edits[j])'
    <3>1. SUFFICES ASSUME NEW j \in 1 .. 4, j =< edit
                   PROVE  source'[Edits[j]] \in {design, "lost"}
      BY <1>1 DEF Done
    <3>2. Edits[j] \in Parts
      BY PartsAreEdited
    <3>3. CASE j = edit
      BY <1>4, <3>2, <3>3 DEF WriteSource, InFile, Substituted
    <3>4. CASE j < edit
      BY <1>0, <1>4, <3>2, <3>4 DEF WriteSource, InFile, Substituted, Edited, Done
    <3> QED BY <1>0, <3>1, <3>3, <3>4 DEF MainOK
  <2>4. Edited'
    <3>1. CASE edit = 4
      <4>1. pc' = "compile" /\ edit' = 1
        BY <1>4, <3>1, PartsAreEdited DEF WriteSource, NextEdit
      <4>2. \A p \in Parts : Done(source, p)'
        BY <2>3, <3>1, PartsAreEdited
      <4> QED BY <4>1, <4>2 DEF Edited
    <3>2. CASE edit # 4
      <4>1. pc' = "edit" /\ edit' = edit + 1
        BY <1>4, <3>2, PartsAreEdited DEF WriteSource, NextEdit
      <4>2. \A j \in 1 .. 4 : j < edit' => Done(source, Edits[j])'
        BY <1>0, <2>3, <4>1 DEF MainOK
      <4> QED BY <4>1, <4>2 DEF Edited
    <3> QED BY <3>1, <3>2
  <2> QED BY <1>2, <2>2, <2>4, IInvNext
<1> QED
  BY <1>3, <1>4

(* the other steps of the main thread *)
LEMMA MainStep ==
  ASSUME IInv, Main \/ Kill \/ Restart
  PROVE  IInv'
<1>0. /\ MainOK /\ temp \in Temps /\ ThreadsOK
      /\ Edited /\ Running /\ Simulators /\ Results
  BY IInvDef
<1>1. ASSUME NEW d \in Designs, Call(d) PROVE IInv'
  <2>1. MainOK' /\ Edited' /\ Simulators'
    BY <1>0, <1>1 DEF Call, MainOK, Edited, Done, Simulators, files
  <2>2. temp' \in Temps /\ Results'
    BY <1>0, <1>1 DEF Call, Results, files
  <2>3. ThreadsOK'
    BY <1>0, <1>1 DEF Call, ThreadsOK, StartThreads, threads
  <2>4. \A k \in Benchmarks : worker[k] = "ended" /\ pat[k] = "ended" /\ deg[k] = "ended"
    BY <1>0, <1>1 DEF Call, Running
  <2>5. Running'
    BY <1>1, <2>4 DEF Call, StartThreads, threads, files, Running
  <2> QED BY <2>1, <2>2, <2>3, <2>5, IInvNext
<1>2. CASE OpenSource \/ WriteSource
  BY <1>2, EditStep
<1>3. CASE Compile
  <2>1. \A p \in Parts : source[p] = design
    BY <1>0, <1>3 DEF Compile, Edited, Done
  <2>2. MainOK' /\ Edited' /\ Simulators'
    <3>1. MainOK'
      BY <1>0, <1>3 DEF Compile, MainOK
    <3>2. Edited'
      BY <1>0, <1>3 DEF Compile, Edited
    <3>3. Simulators'
      BY <1>0, <1>3, <2>1 DEF Compile, Simulators
    <3> QED BY <3>1, <3>2, <3>3
  <2>3. temp' \in Temps /\ Results'
    BY <1>0, <1>3 DEF Compile, Results
  <2>4. ThreadsOK'
    BY <1>0, <1>3 DEF Compile, ThreadsOK, StartThreads
  <2>5. \A k \in Benchmarks : pat[k] = "ended" /\ deg[k] = "ended"
    BY <1>0, <1>3 DEF Compile, Running
  <2>6. Running'
    BY <1>3, <2>5 DEF Compile, StartThreads, Running
  <2> QED BY <2>2, <2>3, <2>4, <2>6, IInvNext
<1>4. CASE CompileFails \/ Return \/ Restart
  <2>1. /\ pc \in {"compile", "simulate", "down"} /\ pc' \in {"idle", "down"}
        /\ UNCHANGED <<files, design, edit, cnt, threads>>
        /\ sound' \in {sound, Failed}
    BY <1>4 DEF CompileFails, Return, Restart
  <2>2. MainOK' /\ Edited' /\ Simulators'
    BY <1>0, <2>1 DEF MainOK, Edited, Simulators, files
  <2>3. temp' \in Temps /\ Results'
    BY <1>0, <2>1 DEF Results, files
  <2>4. ThreadsOK'
    BY <1>0, <2>1 DEF ThreadsOK, threads, Failed
  <2>5. \A k \in Benchmarks : worker[k] = "ended"
    BY <1>0, <1>4 DEF CompileFails, Return, Restart, Running
  <2>6. Running'
    BY <1>0, <2>1, <2>5 DEF Running, threads
  <2> QED BY <2>2, <2>3, <2>4, <2>6, IInvNext
<1>5. CASE Kill
  <2>1. MainOK' /\ Edited' /\ Simulators'
    BY <1>0, <1>5 DEF Kill, MainOK, Edited, Simulators, files, Source, Unread
  <2>2. temp' \in Temps /\ Results'
    BY <1>0, <1>5 DEF Kill, Results, files
  <2>3. ThreadsOK' /\ Running'
    BY <1>0, <1>5 DEF Kill, ThreadsOK, Running, Ended, Nothing, Failed, FileState
  <2> QED BY <2>1, <2>2, <2>3, IInvNext
<1> QED
  BY <1>1, <1>2, <1>3, <1>4, <1>5 DEF Main

(* IInv is inductive *)
LEMMA Inductive == IInv /\ [Next]_vars => IInv'
<1> SUFFICES ASSUME IInv, [Next]_vars PROVE IInv'
  OBVIOUS
<1>1. CASE UNCHANGED vars
  <2>1. /\ MainOK /\ temp \in Temps /\ ThreadsOK
        /\ Edited /\ Running /\ Simulators /\ Results
    BY IInvDef
  <2>2. /\ MainOK' /\ temp' \in Temps /\ ThreadsOK'
        /\ Edited' /\ Running' /\ Simulators' /\ Results'
    BY <1>1, <2>1 DEF vars, files, threads, MainOK, ThreadsOK, Edited, Done, Running, dir,
                      Simulators, Results
  <2> QED BY <2>2, IInvNext
<1>2. CASE \E d \in Designs : ReturnCached(d)
  BY <1>1, <1>2 DEF ReturnCached
<1> QED
  BY <1>1, <1>2, BenchmarkStep, PostStep, MainStep DEF Next

(***************************************************************************)
(* The variables keep their types: no file of a directory that is not      *)
(* there is opened, and generate_simulator never edits past its last part. *)
(***************************************************************************)
THEOREM TypeCorrect == Spec => []TypeOK
<1>1. IInv => TypeOK
  BY DEF IInv
<1> QED
  BY InitOK, Inductive, <1>1, PTL DEF Spec

(***************************************************************************)
(* A simulator has the parameters of the design it is named after, and the *)
(* results of a design come from its simulator, although generate_simulator*)
(* edits sources that all designs share and may be killed between two      *)
(* edits.                                                                  *)
(***************************************************************************)
THEOREM DesignsKeepTheirFiles == Spec => []FilesAreOfTheirDesign
<1>1. IInv => FilesAreOfTheirDesign
  BY DEF IInv
<1> QED
  BY InitOK, Inductive, <1>1, PTL DEF Spec

-----------------------------------------------------------------------------
(* the reports of a benchmark whose thread waits for the models or has     *)
(* ended: each is there as soon as its model has ended                     *)
Left(k) ==
  /\ dir(k) # Absent
  /\ pat[k] = "ended" => dir(k).ppa = "whole"
  /\ deg_model /\ deg[k] = "ended" => dir(k).analysis = "whole"

(* a benchmark of which no command has failed *)
SoundAt(k) ==
  sound[k] => /\ pc # "down"
              /\ worker[k] = "check" => dir(k) # Absent
              /\ worker[k] = "join" => Left(k)
              /\ worker[k] = "ended" /\ pc \in {"simulate", "idle"} => Left(k)

(* without kills, a file is half written only while its thread writes it *)
WholeAt(d, k) ==
  ~MayBeKilled /\ temp[d][k] # Absent =>
    /\ temp[d][k].trace = "empty" => d = design /\ worker[k] = "rewrite"
    /\ temp[d][k].ppa = "empty" => d = design /\ pat[k] = "write"
    /\ temp[d][k].analysis = "empty" => d = design /\ deg[k] = "write"

(* ... and what is written back to a trace has been read from a whole one *)
ReadAt(k) == ~MayBeKilled => lines[k] # "empty"

Written ==
  /\ \A k \in Benchmarks : SoundAt(k) /\ ReadAt(k)
  /\ \A d \in Designs, k \in Benchmarks : WholeAt(d, k)

(* a step of the threads of benchmark k *)
StepOf(k) ==
  /\ UNCHANGED <<pc, design>>
  /\ \A q \in Benchmarks : q # k =>
       /\ worker'[q] = worker[q] /\ lines'[q] = lines[q] /\ sound'[q] = sound[q]
       /\ pat'[q] = pat[q] /\ deg'[q] = deg[q]
  /\ \A d \in Designs, q \in Benchmarks :
       ~(d = design /\ q = k) => temp'[d][q] = temp[d][q]

(***************************************************************************)
(* A step of the threads of one benchmark leaves the others alone.         *)
(***************************************************************************)
LEMMA OthersKeep ==
  ASSUME Written, design \in Designs, NEW k \in Benchmarks, StepOf(k),
         SoundAt(k)', ReadAt(k)', WholeAt(design, k)'
  PROVE  Written'
<1>1. ASSUME NEW q \in Benchmarks PROVE SoundAt(q)' /\ ReadAt(q)'
  BY DEF Written, StepOf, SoundAt, ReadAt, Left, dir
<1>2. ASSUME NEW d \in Designs, NEW q \in Benchmarks PROVE WholeAt(d, q)'
  BY DEF Written, StepOf, WholeAt
<1> QED
  BY <1>1, <1>2 DEF Written

(* a directory is replaced *)
LEMMA PointWritten ==
  ASSUME temp \in Temps, design \in Designs, UNCHANGED design, NEW k \in Benchmarks, NEW r,
         temp' = [temp EXCEPT ![design][k] = r]
  PROVE  /\ temp'[design][k] = r
         /\ \A d \in Designs, q \in Benchmarks :
              ~(d = design /\ q = k) => temp'[d][q] = temp[d][q]
BY DEF Temps

(* a file of a directory is opened or written, and the others keep what    *)
(* they have                                                               *)
LEMMA FieldWritten ==
  ASSUME temp \in Temps, design \in Designs, UNCHANGED design, NEW k \in Benchmarks,
         dir(k) # Absent, NEW v \in FileState, NEW f \in {"trace", "ppa", "analysis"},
         temp' = [temp EXCEPT ![design][k] = [dir(k) EXCEPT ![f] = v]]
  PROVE  /\ dir(k)' # Absent /\ dir(k)'[f] = v
         /\ \A g \in {"trace", "ppa", "analysis"} : g # f => dir(k)'[g] = dir(k)[g]
         /\ \A d \in Designs, q \in Benchmarks :
              ~(d = design /\ q = k) => temp'[d][q] = temp[d][q]
<1>1. dir(k) \in Directory
  BY DEF dir, Temps
<1> DEFINE r == [dir(k) EXCEPT ![f] = v]
<1>2. /\ r \in Directory /\ r[f] = v
      /\ \A g \in {"trace", "ppa", "analysis"} : g # f => r[g] = dir(k)[g]
  BY <1>1 DEF Directory
<1> HIDE DEF r
<1>3. /\ temp'[design][k] = r
      /\ \A d \in Designs, q \in Benchmarks :
              ~(d = design /\ q = k) => temp'[d][q] = temp[d][q]
  BY PointWritten DEF r
<1>4. dir(k)' = r
  BY <1>3 DEF dir
<1> QED
  BY <1>2, <1>3, <1>4, DirectoryIsNotAbsent

-----------------------------------------------------------------------------
(***************************************************************************)
(* The thread of a benchmark reaches its check with a directory unless its *)
(* simulation has failed, and leaves a trace half written only between two *)
(* of its own steps.                                                       *)
(***************************************************************************)
LEMMA BenchmarkWrites ==
  ASSUME IInv, Written, Benchmark
  PROVE  Written'
<1> USE DEF Moves
<1>0. /\ temp \in Temps /\ ThreadsOK /\ Running /\ design \in Designs
  BY IInvDef DEF MainOK
<1>1. UNCHANGED <<pc, design>>
  BY DEF Benchmark, Gem5, Gem5Fails, RemoveOld, MoveNew, MoveFails, Check, OpenTrace, WriteTrace,
         StartPost, JoinPost, main
<1>2. \A k \in Benchmarks : SoundAt(k) /\ ReadAt(k) /\ WholeAt(design, k)
  BY <1>0 DEF Written
<1>3. CASE Gem5 \/ Gem5Fails \/ MoveFails
  <2>1. PICK k \in Benchmarks :
           /\ \/ Moves(k, "gem5", "remove") /\ UNCHANGED sound
              \/ Moves(k, "gem5", "check") /\ Fails(k)
              \/ Moves(k, "move", "check") /\ Fails(k)
           /\ UNCHANGED <<temp, lines, pat, deg>>
    BY <1>3 DEF Gem5, Gem5Fails, MoveFails
  <2>2. StepOf(k)
    BY <1>0, <1>1, <2>1 DEF StepOf, Fails, ThreadsOK
  <2>3. SoundAt(k)' /\ ReadAt(k)' /\ WholeAt(design, k)'
    BY <1>0, <1>1, <1>2, <2>1 DEF SoundAt, ReadAt, WholeAt, Fails, ThreadsOK
  <2> QED BY <1>0, <2>2, <2>3, OthersKeep
<1>4. CASE JoinPost
  <2>1. PICK k \in Benchmarks : /\ PostEnded(k) /\ Moves(k, "join", "ended")
                                /\ UNCHANGED <<temp, lines, pat, deg, sound>>
    BY <1>4 DEF JoinPost
  <2>2. StepOf(k)
    BY <1>0, <1>1, <2>1 DEF StepOf, ThreadsOK
  <2>3. SoundAt(k)'
    BY <1>0, <1>1, <1>2, <2>1 DEF SoundAt, Left, dir, ThreadsOK
  <2>4. ReadAt(k)' /\ WholeAt(design, k)'
    BY <1>0, <1>1, <1>2, <2>1 DEF ReadAt, WholeAt, ThreadsOK
  <2> QED BY <1>0, <2>2, <2>3, <2>4, OthersKeep
<1>5. CASE RemoveOld
  <2>1. PICK k \in Benchmarks : /\ Moves(k, "remove", "move")
                                /\ temp' = [temp EXCEPT ![design][k] = Absent]
                                /\ UNCHANGED <<lines, pat, deg, sound>>
    BY <1>5 DEF RemoveOld
  <2>2. /\ temp'[design][k] = Absent
        /\ \A d \in Designs, q \in Benchmarks :
             ~(d = design /\ q = k) => temp'[d][q] = temp[d][q]
    BY <1>0, <1>1, <2>1, PointWritten
  <2>3. StepOf(k)
    BY <1>0, <1>1, <2>1, <2>2 DEF StepOf, ThreadsOK
  <2>4. SoundAt(k)' /\ ReadAt(k)' /\ WholeAt(design, k)'
    BY <1>0, <1>1, <1>2, <2>1, <2>2 DEF SoundAt, ReadAt, WholeAt, ThreadsOK
  <2> QED BY <1>0, <2>3, <2>4, OthersKeep
<1>6. CASE MoveNew
  <2>1. PICK k \in Benchmarks : /\ Moves(k, "move", "check")
                                /\ temp' = [temp EXCEPT ![design][k] = NewDirectory]
                                /\ UNCHANGED <<lines, pat, deg, sound>>
    BY <1>6 DEF MoveNew
  <2>2. /\ temp'[design][k] = NewDirectory
        /\ \A d \in Designs, q \in Benchmarks :
             ~(d = design /\ q = k) => temp'[d][q] = temp[d][q]
    BY <1>0, <1>1, <2>1, PointWritten
  <2>3. NewDirectory # Absent
    <3>1. DOMAIN NewDirectory # DOMAIN Absent
      BY DEF NewDirectory, Absent
    <3> QED BY <3>1
  <2>4. /\ NewDirectory.trace # "empty" /\ NewDirectory.ppa # "empty"
        /\ NewDirectory.analysis # "empty"
    BY DEF NewDirectory
  <2>5. StepOf(k)
    BY <1>0, <1>1, <2>1, <2>2 DEF StepOf, ThreadsOK
  <2>6. SoundAt(k)' /\ ReadAt(k)' /\ WholeAt(design, k)'
    BY <1>0, <1>1, <1>2, <2>1, <2>2, <2>3, <2>4 DEF SoundAt, ReadAt, WholeAt, ThreadsOK, dir
  <2> QED BY <1>0, <2>5, <2>6, OthersKeep
<1>7. CASE Check
  <2>1. PICK k \in Benchmarks : /\ Moves(k, "check", AfterCheck(k))
                                /\ UNCHANGED <<temp, lines, pat, deg, sound>>
    BY <1>7 DEF Check
  <2>2. /\ AfterCheck(k) \in {"ended", "trim", "post"}
        /\ AfterCheck(k) = "ended" => dir(k) = Absent
    BY DEF AfterCheck
  <2>3. StepOf(k)
    BY <1>0, <1>1, <2>1 DEF StepOf, ThreadsOK
  <2>4. SoundAt(k)' /\ ReadAt(k)' /\ WholeAt(design, k)'
    BY <1>0, <1>1, <1>2, <2>1, <2>2 DEF SoundAt, ReadAt, WholeAt, ThreadsOK, dir
  <2> QED BY <1>0, <2>3, <2>4, OthersKeep
<1>8. CASE OpenTrace
  <2>1. PICK k \in Benchmarks : /\ Moves(k, "trim", "rewrite")
                                /\ lines' = [lines EXCEPT ![k] = TraceRead(k)]
                                /\ temp' = [temp EXCEPT ![design][k].trace = "empty"]
                                /\ UNCHANGED <<pat, deg, sound>>
    BY <1>8 DEF OpenTrace
  <2>2. dir(k) # Absent /\ TraceRead(k) = temp[design][k].trace
    BY <1>0, <2>1 DEF Running, TraceRead, dir
  <2>3. temp' = [temp EXCEPT ![design][k] = [dir(k) EXCEPT !["trace"] = "empty"]]
    BY <2>1 DEF dir
  <2>4. /\ dir(k)' # Absent /\ dir(k)'.trace = "empty"
        /\ dir(k)'.ppa = dir(k).ppa /\ dir(k)'.analysis = dir(k).analysis
        /\ \A d \in Designs, q \in Benchmarks :
             ~(d = design /\ q = k) => temp'[d][q] = temp[d][q]
    BY <1>0, <1>1, <2>2, <2>3, FieldWritten DEF FileState
  <2>5. StepOf(k)
    BY <1>0, <1>1, <2>1, <2>4 DEF StepOf, ThreadsOK
  <2>6. SoundAt(k)'
    BY <1>0, <1>1, <2>1, <2>4 DEF SoundAt, ThreadsOK
  <2>7. ReadAt(k)' /\ WholeAt(design, k)'
    BY <1>0, <1>1, <1>2, <2>1, <2>2, <2>4 DEF ReadAt, WholeAt, ThreadsOK, dir
  <2> QED BY <1>0, <2>5, <2>6, <2>7, OthersKeep
<1>9. CASE WriteTrace
  <2>1. PICK k \in Benchmarks : /\ Moves(k, "rewrite", "post")
                                /\ lines' = [lines EXCEPT ![k] = "none"]
                                /\ temp' = [temp EXCEPT ![design][k].trace = lines[k]]
                                /\ UNCHANGED <<pat, deg, sound>>
    BY <1>9 DEF WriteTrace
  <2>2. dir(k) # Absent /\ lines[k] \in FileState
    BY <1>0, <2>1 DEF Running, ThreadsOK
  <2>3. temp' = [temp EXCEPT ![design][k] = [dir(k) EXCEPT !["trace"] = lines[k]]]
    BY <2>1 DEF dir
  <2>4. /\ dir(k)' # Absent /\ dir(k)'.trace = lines[k]
        /\ dir(k)'.ppa = dir(k).ppa /\ dir(k)'.analysis = dir(k).analysis
        /\ \A d \in Designs, q \in Benchmarks :
             ~(d = design /\ q = k) => temp'[d][q] = temp[d][q]
    BY <1>0, <1>1, <2>2, <2>3, FieldWritten
  <2>5. StepOf(k)
    BY <1>0, <1>1, <2>1, <2>4 DEF StepOf, ThreadsOK
  <2>6. SoundAt(k)'
    BY <1>0, <1>1, <1>2, <2>1, <2>4 DEF SoundAt, ThreadsOK
  <2>7. ReadAt(k)' /\ WholeAt(design, k)'
    BY <1>0, <1>1, <1>2, <2>1, <2>2, <2>4 DEF ReadAt, WholeAt, ThreadsOK, dir
  <2> QED BY <1>0, <2>5, <2>6, <2>7, OthersKeep
<1>10. CASE StartPost
  <2>1. PICK k \in Benchmarks :
           /\ Moves(k, "post", "join")
           /\ pat' = [pat EXCEPT ![k] = "run"]
           /\ deg' = [deg EXCEPT ![k] = IF deg_model THEN "run" ELSE "ended"]
           /\ UNCHANGED <<temp, lines, sound>>
    BY <1>10 DEF StartPost
  <2>2. dir(k) # Absent /\ pat[k] = "ended" /\ deg[k] = "ended"
    BY <1>0, <2>1 DEF Running
  <2>3. StepOf(k)
    BY <1>0, <1>1, <2>1 DEF StepOf, ThreadsOK
  <2>4. SoundAt(k)'
    BY <1>0, <1>1, <1>2, <2>1, <2>2 DEF SoundAt, Left, ThreadsOK, dir
  <2>5. ReadAt(k)' /\ WholeAt(design, k)'
    BY <1>0, <1>1, <1>2, <2>1, <2>2 DEF ReadAt, WholeAt, ThreadsOK
  <2> QED BY <1>0, <2>3, <2>4, <2>5, OthersKeep
<1> QED
  BY <1>3, <1>4, <1>5, <1>6, <1>7, <1>8, <1>9, <1>10 DEF Benchmark

(***************************************************************************)
(* A model ends with its report written, or with its benchmark failed.     *)
(***************************************************************************)
LEMMA PostWrites ==
  ASSUME IInv, Written, Post
  PROVE  Written'
<1>0. /\ temp \in Temps /\ ThreadsOK /\ Running /\ design \in Designs
  BY IInvDef DEF MainOK
<1>1. UNCHANGED <<pc, design>>
  BY DEF Post, PatFails, OpenPpa, WritePpa, DegFails, OpenAnalysis, WriteAnalysis, main
<1>2. \A k \in Benchmarks : SoundAt(k) /\ ReadAt(k) /\ WholeAt(design, k)
  BY <1>0 DEF Written
<1>3. CASE PatFails \/ DegFails
  <2>1. PICK k \in Benchmarks :
           /\ \/ /\ pat[k] = "run" /\ pat' = [pat EXCEPT ![k] = "ended"] /\ UNCHANGED deg
              \/ /\ deg[k] = "run" /\ deg' = [deg EXCEPT ![k] = "ended"] /\ UNCHANGED pat
           /\ Fails(k)
           /\ UNCHANGED <<temp, worker, lines>>
    BY <1>3 DEF PatFails, DegFails
  <2>2. StepOf(k)
    BY <1>0, <1>1, <2>1 DEF StepOf, Fails, ThreadsOK
  <2>3. SoundAt(k)'
    BY <1>0, <2>1 DEF SoundAt, Fails, ThreadsOK
  <2>4. ReadAt(k)' /\ WholeAt(design, k)'
    BY <1>0, <1>1, <1>2, <2>1 DEF ReadAt, WholeAt, ThreadsOK
  <2> QED BY <1>0, <2>2, <2>3, <2>4, OthersKeep
<1>4. CASE OpenPpa \/ WritePpa
  <2>1. PICK k \in Benchmarks, v \in {"empty", "whole"} :
           /\ pat[k] # "ended"
           /\ pat' = [pat EXCEPT ![k] = IF v = "empty" THEN "write" ELSE "ended"]
           /\ temp' = [temp EXCEPT ![design][k].ppa = v]
           /\ UNCHANGED <<worker, lines, deg, sound>>
    <3>1. CASE OpenPpa
      <4>1. PICK k \in Benchmarks : /\ pat[k] = "run" /\ pat' = [pat EXCEPT ![k] = "write"]
                                    /\ temp' = [temp EXCEPT ![design][k].ppa = "empty"]
                                    /\ UNCHANGED <<worker, lines, deg, sound>>
        BY <3>1 DEF OpenPpa
      <4> QED BY <4>1
    <3>2. CASE WritePpa
      <4>1. PICK k \in Benchmarks : /\ pat[k] = "write" /\ pat' = [pat EXCEPT ![k] = "ended"]
                                    /\ temp' = [temp EXCEPT ![design][k].ppa = "whole"]
                                    /\ UNCHANGED <<worker, lines, deg, sound>>
        BY <3>2 DEF WritePpa
      <4> QED BY <4>1
    <3> QED BY <1>4, <3>1, <3>2
  <2>2. dir(k) # Absent /\ worker[k] = "join"
    BY <1>0, <2>1 DEF Running
  <2>3. temp' = [temp EXCEPT ![design][k] = [dir(k) EXCEPT !["ppa"] = v]]
    BY <2>1 DEF dir
  <2>4. /\ dir(k)' # Absent /\ dir(k)'.ppa = v
        /\ dir(k)'.trace = dir(k).trace /\ dir(k)'.analysis = dir(k).analysis
        /\ \A d \in Designs, q \in Benchmarks :
             ~(d = design /\ q = k) => temp'[d][q] = temp[d][q]
    BY <1>0, <1>1, <2>2, <2>3, FieldWritten DEF FileState
  <2>5. StepOf(k)
    BY <1>0, <1>1, <2>1, <2>4 DEF StepOf, ThreadsOK
  <2>6. SoundAt(k)'
    BY <1>0, <1>1, <1>2, <2>1, <2>2, <2>4 DEF SoundAt, Left, ThreadsOK
  <2>7. ReadAt(k)' /\ WholeAt(design, k)'
    BY <1>0, <1>1, <1>2, <2>1, <2>2, <2>4 DEF ReadAt, WholeAt, ThreadsOK, dir
  <2> QED BY <1>0, <2>5, <2>6, <2>7, OthersKeep
<1>5. CASE OpenAnalysis \/ WriteAnalysis
  <2>1. PICK k \in Benchmarks, v \in {"empty", "whole"} :
           /\ deg[k] # "ended"
           /\ deg' = [deg EXCEPT ![k] = IF v = "empty" THEN "write" ELSE "ended"]
           /\ temp' = [temp EXCEPT ![design][k].analysis = v]
           /\ UNCHANGED <<worker, lines, pat, sound>>
    <3>1. CASE OpenAnalysis
      <4>1. PICK k \in Benchmarks : /\ deg[k] = "run" /\ deg' = [deg EXCEPT ![k] = "write"]
                                    /\ temp' = [temp EXCEPT ![design][k].analysis = "empty"]
                                    /\ UNCHANGED <<worker, lines, pat, sound>>
        BY <3>1 DEF OpenAnalysis
      <4> QED BY <4>1
    <3>2. CASE WriteAnalysis
      <4>1. PICK k \in Benchmarks : /\ deg[k] = "write" /\ deg' = [deg EXCEPT ![k] = "ended"]
                                    /\ temp' = [temp EXCEPT ![design][k].analysis = "whole"]
                                    /\ UNCHANGED <<worker, lines, pat, sound>>
        BY <3>2 DEF WriteAnalysis
      <4> QED BY <4>1
    <3> QED BY <1>5, <3>1, <3>2
  <2>2. dir(k) # Absent /\ worker[k] = "join"
    BY <1>0, <2>1 DEF Running
  <2>3. temp' = [temp EXCEPT ![design][k] = [dir(k) EXCEPT !["analysis"] = v]]
    BY <2>1 DEF dir
  <2>4. /\ dir(k)' # Absent /\ dir(k)'.analysis = v
        /\ dir(k)'.trace = dir(k).trace /\ dir(k)'.ppa = dir(k).ppa
        /\ \A d \in Designs, q \in Benchmarks :
             ~(d = design /\ q = k) => temp'[d][q] = temp[d][q]
    BY <1>0, <1>1, <2>2, <2>3, FieldWritten DEF FileState
  <2>5. StepOf(k)
    BY <1>0, <1>1, <2>1, <2>4 DEF StepOf, ThreadsOK
  <2>6. SoundAt(k)'
    BY <1>0, <1>1, <1>2, <2>1, <2>2, <2>4 DEF SoundAt, Left, ThreadsOK
  <2>7. ReadAt(k)' /\ WholeAt(design, k)'
    BY <1>0, <1>1, <1>2, <2>1, <2>2, <2>4 DEF ReadAt, WholeAt, ThreadsOK, dir
  <2> QED BY <1>0, <2>5, <2>6, <2>7, OthersKeep
<1> QED
  BY <1>3, <1>4, <1>5 DEF Post

(***************************************************************************)
(* The main thread starts and joins the others between calls, when nothing *)
(* is half written.                                                        *)
(***************************************************************************)
LEMMA MainWrites ==
  ASSUME IInv, Written, Main \/ Kill \/ Restart
  PROVE  Written'
<1>0. temp \in Temps /\ ThreadsOK /\ Running /\ design \in Designs
  BY IInvDef DEF MainOK
<1>1. CASE Kill
  BY <1>1 DEF Kill, Written, SoundAt, ReadAt, WholeAt, Failed
<1>2. CASE CompileFails \/ Restart
  <2>1. /\ UNCHANGED <<temp, design, worker, lines, pat, deg>>
        /\ \A k \in Benchmarks : ~sound'[k]
    BY <1>2 DEF CompileFails, Restart, files, threads, Failed, Written, SoundAt
  <2> QED BY <2>1 DEF Written, SoundAt, ReadAt, WholeAt
<1>3. CASE Return
  BY <1>3 DEF Return, files, threads, Written, SoundAt, ReadAt, WholeAt, Left, dir
<1>4. CASE OpenSource \/ WriteSource
  <2>1. /\ pc' \in {"edit", "write", "compile"}
        /\ UNCHANGED <<temp, design, worker, lines, pat, deg, sound>>
    BY <1>4 DEF OpenSource, WriteSource, threads
  <2> QED BY <2>1 DEF Written, SoundAt, ReadAt, WholeAt, Left, dir
<1>5. ASSUME pc # "simulate", UNCHANGED <<temp, lines, pat, deg>>,
             \/ pc' = "simulate" /\ \A k \in Benchmarks : worker'[k] = "gem5"
             \/ pc' = "edit" /\ UNCHANGED worker
      PROVE  Written'
  <2>1. \A k \in Benchmarks : worker[k] = "ended" /\ pat[k] = "ended" /\ deg[k] = "ended"
    BY <1>0, <1>5 DEF Running
  <2>2. ASSUME NEW d \in Designs, NEW k \in Benchmarks PROVE WholeAt(d, k)'
    BY <1>5, <2>1 DEF Written, WholeAt
  <2>3. ASSUME NEW k \in Benchmarks PROVE SoundAt(k)' /\ ReadAt(k)'
    BY <1>5, <2>1 DEF Written, SoundAt, ReadAt
  <2> QED BY <2>2, <2>3 DEF Written
<1>6. ASSUME NEW d \in Designs, Call(d) PROVE Written'
  BY <1>5, <1>6 DEF Call, StartThreads, files, threads
<1>7. CASE Compile
  BY <1>5, <1>7 DEF Compile, StartThreads
<1> QED
  BY <1>1, <1>2, <1>3, <1>4, <1>6, <1>7 DEF Main

(* Written is inductive beside IInv *)
LEMMA WrittenInductive ==
  /\ Init => Written
  /\ IInv /\ Written /\ [Next]_vars => Written'
<1>1. Init => Written
  BY DEF Init, Written, SoundAt, ReadAt, WholeAt, Failed, Nothing
<1>2. ASSUME IInv, Written, [Next]_vars PROVE Written'
  <2>1. CASE UNCHANGED vars
    BY <1>2, <2>1 DEF vars, files, threads, Written, SoundAt, ReadAt, WholeAt, Left, dir
  <2>2. CASE \E d \in Designs : ReturnCached(d)
    BY <2>1, <2>2 DEF ReturnCached
  <2> QED
    BY <1>2, <2>1, <2>2, BenchmarkWrites, PostWrites, MainWrites DEF Next
<1> QED
  BY <1>1, <1>2

(* between two calls no thread is running *)
LEMMA AtRest ==
  ASSUME IInv, pc = "idle"
  PROVE  \A k \in Benchmarks : worker[k] = "ended" /\ pat[k] = "ended" /\ deg[k] = "ended"
BY IInvDef DEF Running

(***************************************************************************)
(* A benchmark none of whose commands failed has its reports, whole, when  *)
(* simulate returns: whatever the other benchmarks do, and although an     *)
(* exception in the thread of a model is seen by nobody.                   *)
(***************************************************************************)
THEOREM SuccessIsReported == Spec => []SuccessLeavesReports
<1>1. IInv /\ Written => SuccessLeavesReports
  <2> SUFFICES ASSUME IInv, Written, pc = "idle", NEW k \in Benchmarks, sound[k]
               PROVE  Left(k) /\ pat[k] = "ended" /\ deg[k] = "ended"
    BY DEF SuccessLeavesReports, Left
  <2>1. worker[k] = "ended" /\ pat[k] = "ended" /\ deg[k] = "ended"
    BY AtRest
  <2> QED BY <2>1 DEF Written, SoundAt
<1> QED
  BY InitOK, Inductive, WrittenInductive, <1>1, PTL DEF Spec

(***************************************************************************)
(* A program that is not killed leaves no file half written when simulate  *)
(* returns: every thread that opened one has been joined.                  *)
(***************************************************************************)
THEOREM NothingHalfWritten ==
  ASSUME ~MayBeKilled
  PROVE  Spec => []FilesAreWhole
<1>1. IInv /\ Written => FilesAreWhole
  <2> SUFFICES ASSUME IInv, Written, pc = "idle", NEW d \in Designs, NEW k \in Benchmarks,
                      temp[d][k] # Absent
               PROVE  "empty" \notin {temp[d][k].trace, temp[d][k].ppa, temp[d][k].analysis}
    BY DEF FilesAreWhole
  <2>1. worker[k] = "ended" /\ pat[k] = "ended" /\ deg[k] = "ended"
    BY AtRest
  <2> QED BY <2>1 DEF Written, WholeAt
<1> QED
  BY InitOK, Inductive, WrittenInductive, <1>1, PTL DEF Spec

-----------------------------------------------------------------------------
(* the reports of d are complete and d is not being simulated *)
Kept(d) == Analysed(d) /\ (pc \in {"idle", "down"} \/ design # d)

(***************************************************************************)
(* The exploration does not call simulate for a design whose reports are   *)
(* complete, and a simulation touches the directories of its design only.  *)
(***************************************************************************)
LEMMA KeptStays ==
  ASSUME mode = "exploration", NEW d \in Designs
  PROVE  IInv /\ Kept(d) /\ [Next]_vars => Kept(d)'
<1> SUFFICES ASSUME IInv, Kept(d), [Next]_vars PROVE Kept(d)'
  OBVIOUS
<1>0. temp \in Temps /\ ThreadsOK /\ Running /\ design \in Designs
  BY IInvDef DEF MainOK
<1>1. ASSUME UNCHANGED <<pc, design>>, \A q \in Benchmarks : temp'[d][q] = temp[d][q]
      PROVE  Kept(d)'
  BY <1>1 DEF Kept, Analysed
<1>2. CASE Benchmark \/ Post
  <2>1. pc = "simulate"
    BY <1>0, <1>2 DEF Benchmark, Gem5, Gem5Fails, RemoveOld, MoveNew, MoveFails, Check, OpenTrace,
       WriteTrace, StartPost, JoinPost, Moves, Post, PatFails, OpenPpa, WritePpa, DegFails,
       OpenAnalysis, WriteAnalysis, Running
  <2>2. design # d
    BY <2>1 DEF Kept
  <2>3. UNCHANGED <<pc, design>>
    BY <1>2 DEF Benchmark, Gem5, Gem5Fails, RemoveOld, MoveNew, MoveFails, Check, OpenTrace,
       WriteTrace, StartPost, JoinPost, Post, PatFails, OpenPpa, WritePpa, DegFails,
       OpenAnalysis, WriteAnalysis, main
  <2>4. temp'[d] = temp[d]
    <3>1. CASE \/ Gem5 \/ Gem5Fails \/ MoveFails \/ Check \/ StartPost \/ JoinPost
                \/ PatFails \/ DegFails
      BY <3>1 DEF Gem5, Gem5Fails, MoveFails, Check, StartPost, JoinPost, PatFails, DegFails
    <3>2. CASE RemoveOld \/ MoveNew \/ OpenTrace \/ WriteTrace
      BY <1>0, <2>2, <3>2 DEF RemoveOld, MoveNew, OpenTrace, WriteTrace, Temps
    <3>3. CASE OpenPpa \/ WritePpa \/ OpenAnalysis \/ WriteAnalysis
      BY <1>0, <2>2, <3>3 DEF OpenPpa, WritePpa, OpenAnalysis, WriteAnalysis, Temps
    <3> QED BY <1>2, <3>1, <3>2, <3>3 DEF Benchmark, Post
  <2> QED BY <1>1, <2>3, <2>4
<1>3. ASSUME NEW e \in Designs, Call(e) PROVE Kept(d)'
  <2>1. ~if_no_need_simulate(e) /\ design' = e /\ UNCHANGED temp
    BY <1>3 DEF Call, files
  <2>2. e # d
    BY <2>1 DEF Kept, Analysed, if_no_need_simulate
  <2> QED BY <2>1, <2>2 DEF Kept, Analysed
<1>4. CASE OpenSource \/ WriteSource \/ Compile
  BY <1>4 DEF OpenSource, WriteSource, Compile, Kept, Analysed
<1>5. CASE CompileFails \/ Return \/ Restart \/ Kill
  BY <1>5 DEF CompileFails, Return, Restart, Kill, files, Kept, Analysed
<1>6. CASE UNCHANGED vars \/ \E e \in Designs : ReturnCached(e)
  BY <1>6 DEF vars, files, ReturnCached, Kept, Analysed
<1> QED
  BY <1>2, <1>3, <1>4, <1>5, <1>6 DEF Next, Main

(***************************************************************************)
(* In an exploration, complete reports of a design stay, through every     *)
(* later call, failure, kill and restart.                                  *)
(***************************************************************************)
THEOREM ReportsStay ==
  ASSUME mode = "exploration"
  PROVE  Spec => ReportsAreKept
<1>1. ASSUME NEW d \in Designs
      PROVE  Spec => [](pc = "idle" /\ Analysed(d) => []Analysed(d))
  <2>1. IInv /\ Kept(d) /\ [Next]_vars => Kept(d)'
    BY KeptStays
  <2>2. pc = "idle" /\ Analysed(d) => Kept(d)
    BY DEF Kept
  <2>3. Kept(d) => Analysed(d)
    BY DEF Kept
  <2> QED BY InitOK, Inductive, <2>1, <2>2, <2>3, PTL DEF Spec
<1> QED
  BY <1>1 DEF ReportsAreKept

=============================================================================
