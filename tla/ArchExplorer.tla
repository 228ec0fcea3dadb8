----------------------------- MODULE ArchExplorer -----------------------------
(***************************************************************************)
(* ArchExplorerEngine::run (algo/dse.py).  One thread per start explores   *)
(* the design space for a number of epochs, one thread after the other; an *)
(* epoch evaluates a design, has its bottlenecks analysed, moves to the    *)
(* next design, and ends when its budget is used up or no better design    *)
(* has been found for early_stopping rounds.  The reports of a simulation  *)
(* stay in the directory of their design and are used again.               *)
(***************************************************************************)
EXTENDS HardwareResources

CONSTANTS
  pipeline_width,    \* dse.pipeline-width: the widths, each of which names a report
  listed,            \* whether dse.initial-design is a list
  initial_design,    \* the list: indices of designs, or pipeline widths
  Baselines,         \* for each pipeline width, the designs generate_baseline_v1 may draw
  Epochs,            \* dse.epoch
  budget,            \* dse.budget, the rounds of an epoch
  early_stopping,    \* dse.early-stopping
  Results            \* what the simulation of a design may leave in its directory

(***************************************************************************)
(* The reports in the directory of a design, over all the benchmarks:      *)
(* whether there is any ppa.rpt and the metric it gives (0 when the        *)
(* average IPC is 0), how many of the analysis.rpt files there are, and    *)
(* the average contributions they hold.                                    *)
(***************************************************************************)
Result == [ppa : BOOLEAN, pppa : Nat, analysis : {"none", "some", "all"},
           contribution : Contribution]

(* get_pipeline_width, and the widths generate_baseline_v1 knows *)
Width(e) == components_mappings["pipelineWidth"][e["pipelineWidth"]]
Widths   == {w \in Range(components_mappings["pipelineWidth"]) : w <= 8}

(* run: what the threads are started with *)
starts == IF listed THEN initial_design ELSE pipeline_width

ASSUME EngineAssumption ==
  /\ pipeline_width \in Seq(Widths)
  /\ listed \in BOOLEAN
  /\ initial_design \in Seq(Nat)
  /\ \A t \in DOMAIN initial_design :
       initial_design[t] \in Widths \/ initial_design[t] \in 9 .. size
  /\ starts # <<>>
  /\ \A w \in Widths : Baselines[w] # {} /\ \A d \in Baselines[w] : d \in Design /\ Width(d) = w
  /\ Epochs \in Nat \ {0} /\ budget \in Nat \ {0} /\ early_stopping \in Nat
  /\ Results \subseteq Result

VARIABLES
  temp,         \* temp/gem5-<idx>: the results of the designs simulated, by index
  outputs,      \* what the threads that have ended left: their epochs, or why they died
  solutions,    \* the epochs the running thread has finished
  idx,          \* the design of the round
  embedding,    \* its rows, which the code computes from idx (see IndexLeadsBack)
  scm,          \* the sensitive components
  trace,        \* solutions["trace"] of the running epoch
  best,         \* solutions["best-idx"] and ["best-pppa"]: the round, 0 for none
  i,            \* the round
  last_update,  \* the round that found the best design
  reports,      \* the epochs written to the report of each pipeline width
  pc

engine == <<temp, outputs, solutions, reports>>
epoch  == <<idx, embedding, scm, trace, best, i, last_update>>
vars   == <<engine, epoch, pc>>

(* whole is a history: all the analysis reports were there for the score *)
Round == [design : Design, pppa : Nat, whole : BOOLEAN]
Epoch == [trace : Seq(Round), best : Nat]

Reasons == {"build", "metric", "analysis"}
Output  == [died : {FALSE}, epochs : Seq(Epoch)] \cup [died : {TRUE}, why : Reasons]

TypeOK ==
  /\ \A n \in DOMAIN temp : temp[n] \in Result
  /\ outputs \in Seq(Output)
  /\ solutions \in Seq(Epoch)
  /\ embedding \in Design /\ idx = embedding_to_idx(embedding)
  /\ DOMAIN scm = Sensitive /\ \A c \in Sensitive : scm[c] \in Component(c)
  /\ trace \in Seq(Round)
  /\ best \in Nat /\ i \in Nat /\ last_update \in Nat
  /\ \A t \in DOMAIN reports : \A e \in DOMAIN reports[t] : reports[t][e] \in Epoch
  /\ pc \in {"start", "evaluate", "score", "analyze", "collect", "done", "failed"}

(* exploration_impl: the designs an epoch may start from, as indices *)
FirstDesigns(start) ==
  IF start > 8 THEN {start} ELSE {embedding_to_idx(e) : e \in Baselines[start]}

Init ==
  /\ temp = <<>>
  /\ outputs = <<>>
  /\ solutions = <<>>
  /\ idx \in FirstDesigns(starts[1]) /\ embedding = idx_to_embedding(idx)
  /\ scm = reset
  /\ trace = <<>>
  /\ best = 0 /\ i = 0 /\ last_update = 0
  /\ reports = <<>>
  /\ pc = "start"

-----------------------------------------------------------------------------
thread == Len(outputs) + 1

(* the beginning of exploration_impl *)
Start ==
  /\ pc = "start"
  /\ idx' \in FirstDesigns(starts[thread]) /\ embedding' = idx_to_embedding(idx')
  /\ scm' = set_config(reset, embedding')
  /\ trace' = <<>>
  /\ best' = 0 /\ i' = 0 /\ last_update' = 0
  /\ pc' = "evaluate"
  /\ UNCHANGED engine

(* the running thread ends; the engine starts the next one or goes on *)
EndThread(output) ==
  /\ outputs' = Append(outputs, output)
  /\ solutions' = <<>>
  /\ pc' = IF thread = Len(starts) THEN "collect" ELSE "start"

(* variant: the epochs before the exception are returned *)
Die_Partial(why) == EndThread([died |-> FALSE, epochs |-> solutions])

(* an exception ends the thread; none of its epochs is returned *)
Die(why) == EndThread([died |-> TRUE, why |-> why])

(* exploration_impl returns its solutions to exploration *)
EndEpoch(rounds, best_round) ==
  LET done == Append(solutions, [trace |-> rounds, best |-> best_round])
  IN  IF Len(done) = Epochs THEN EndThread([died |-> FALSE, epochs |-> done])
      ELSE solutions' = done /\ pc' = "start" /\ UNCHANGED outputs

(* variant: the reports are not looked for *)
Cached_Never(d) == FALSE

(* if_no_need_simulate *)
Cached(d) == d \in DOMAIN temp /\ temp[d].analysis = "all"

EvaluateCached ==
  /\ pc = "evaluate"
  /\ Cached(idx)
  /\ pc' = "score"
  /\ UNCHANGED <<engine, epoch>>

Simulate ==
  /\ pc = "evaluate"
  /\ ~Cached(idx)
  /\ \E r \in Results :
       temp' = [d \in DOMAIN temp \cup {idx} |-> IF d = idx THEN r ELSE temp[d]]
  /\ pc' = "score"
  /\ UNCHANGED <<outputs, solutions, reports, epoch>>

(* the simulator of a design cannot be built: error() ends the thread *)
BuildFails ==
  /\ pc = "evaluate"
  /\ idx \notin DOMAIN temp
  /\ Die("build")
  /\ UNCHANGED <<temp, reports, epoch>>

(* variant: the design is simulated once more *)
MetricFails_Retry == pc' = "evaluate" /\ UNCHANGED <<outputs, solutions>>

MetricFails == Die("metric")

(* variant: the latest of several equally good designs is kept *)
Better_OrEqual(pppa) == best = 0 \/ pppa >= trace[best].pppa

Better(pppa) == IF best = 0 THEN pppa > 0 ELSE pppa > trace[best].pppa

(***************************************************************************)
(* metric, trace and best.  Without any ppa.rpt the results are zeros and  *)
(* the metric divides by zero.                                             *)
(***************************************************************************)
Score ==
  /\ pc = "score"
  /\ UNCHANGED <<temp, reports, idx, embedding, scm, i>>
  /\ LET r == temp[idx]
         rounds == Append(trace, [design |-> embedding, pppa |-> r.pppa,
                                  whole |-> r.analysis = "all"])
         better == Better(r.pppa)
     IN  IF ~r.ppa THEN MetricFails /\ UNCHANGED <<trace, best, last_update>>
         ELSE /\ trace' = rounds
              /\ IF r.pppa = 0 THEN EndEpoch(rounds, best) /\ UNCHANGED <<best, last_update>>
                 ELSE /\ best' = IF better THEN i + 1 ELSE best
                      /\ last_update' = IF better THEN i ELSE last_update
                      /\ pc' = "analyze"
                      /\ UNCHANGED <<outputs, solutions>>

(* variant: one round too many *)
IsLastRound_Late == i - last_update > early_stopping \/ i + 1 > budget

IsLastRound == i - last_update >= early_stopping \/ i + 1 >= budget

(* the components after the contributions of the round are known *)
Judged == update_terminate(update(scm, temp[idx].contribution))

(***************************************************************************)
(* bottleneck_analysis, set_config and the test for early stopping.        *)
(* Without any analysis.rpt the average divides by zero.                   *)
(***************************************************************************)
Analyze ==
  /\ pc = "analyze"
  /\ temp[idx].analysis # "none"
  /\ \E S \in Samples(temp[idx].contribution) :
       /\ embedding' = bottleneck_removal(embedding, Judged, temp[idx].contribution, S)
       /\ idx' = embedding_to_idx(embedding')
       /\ scm' = set_config(Judged, embedding')
  /\ i' = i + 1
  /\ IF IsLastRound
     THEN EndEpoch(trace, best)
     ELSE pc' = "evaluate" /\ UNCHANGED <<outputs, solutions>>
  /\ UNCHANGED <<temp, reports, trace, best, last_update>>

AnalyzeFails ==
  /\ pc = "analyze"
  /\ temp[idx].analysis = "none"
  /\ Die("analysis")
  /\ UNCHANGED <<temp, reports, epoch>>

(* generate_report leaves out the epochs that found no design *)
Reported(epochs) == Restrict(epochs, {e \in DOMAIN epochs : epochs[e].best # 0})

(* variant: the threads are taken from the end of their list *)
SolutionsOf_Reversed(t) == outputs[Len(outputs) + 1 - t].epochs

(* what the t-th thread has returned *)
SolutionsOf(t) == outputs[t].epochs

(***************************************************************************)
(* The outputs are collected: one thread without output ends the program   *)
(* (get_output).  Then one report is written for each pipeline width, of   *)
(* the thread with its number.                                             *)
(***************************************************************************)
GenerateReport ==
  /\ pc = "collect"
  /\ IF \E t \in DOMAIN outputs : outputs[t].died
     THEN pc' = "failed" /\ UNCHANGED reports
     ELSE LET names == Len(pipeline_width)
              written == IF names < Len(outputs) THEN names ELSE Len(outputs)
          IN  /\ reports' = [t \in 1 .. written |-> Reported(SolutionsOf(t))]
              /\ pc' = IF names > Len(outputs) THEN "failed" ELSE "done"
  /\ UNCHANGED <<temp, outputs, solutions, epoch>>

Finished == pc \in {"done", "failed"} /\ UNCHANGED vars

Next == \/ Start \/ EvaluateCached \/ Simulate \/ BuildFails \/ Score \/ Analyze
        \/ AnalyzeFails \/ GenerateReport \/ Finished

Spec == Init /\ [][Next]_vars

(* the engine runs as long as it can: a thread is joined before the next   *)
(* one starts, so nothing else competes with it                            *)
FairSpec == Spec /\ WF_vars(Next)
-----------------------------------------------------------------------------
(***************************************************************************)
(* The records of a sensitive component stay aligned over an epoch: the    *)
(* k-th recorded setting is that of the k-th design, and there is one      *)
(* contribution for each, the design being evaluated excepted.  fallback   *)
(* asserts the lengths and picks a setting by the round of a contribution. *)
(***************************************************************************)
RecordsAligned ==
  pc \in {"evaluate", "score", "analyze"} =>
    \A c \in Sensitive :
       LET s == scm[c]
           n == Len(s.contribution)
       IN  /\ Len(s.configs) = IF s.terminate THEN n ELSE n + 1
           /\ IF s.terminate THEN n <= i ELSE n = i
           /\ \A k \in 1 .. Len(s.configs) :
                 s.configs[k] = Setting(c, IF k <= Len(trace) THEN trace[k].design ELSE embedding)

(* the best of the rounds is the first with the largest metric *)
IsBest(rounds, b) ==
  IF b = 0 THEN \A k \in DOMAIN rounds : rounds[k].pppa = 0
  ELSE /\ b \in DOMAIN rounds
       /\ \A k \in DOMAIN rounds : rounds[k].pppa <= rounds[b].pppa
       /\ \A k \in 1 .. b - 1 : rounds[k].pppa < rounds[b].pppa

(***************************************************************************)
(* The best design an epoch returns is the first of its designs with the   *)
(* largest metric, however the epoch ended, and early stopping counts from *)
(* the round that found it.                                                *)
(***************************************************************************)
BestIsKept ==
  /\ IsBest(trace, best) /\ last_update = IF best = 0 THEN 0 ELSE best - 1
  /\ \A e \in DOMAIN solutions : IsBest(solutions[e].trace, solutions[e].best)
  /\ \A t \in DOMAIN outputs : ~outputs[t].died =>
       \A e \in DOMAIN outputs[t].epochs :
          IsBest(outputs[t].epochs[e].trace, outputs[t].epochs[e].best)

(***************************************************************************)
(* An epoch evaluates at most budget designs, and at most early_stopping   *)
(* after the best one.                                                     *)
(***************************************************************************)
RoundsAreBounded ==
  /\ Len(trace) <= budget
  /\ Len(trace) <= last_update + 1 + early_stopping

(* from the rows e to the rows f, with the components s *)
Moderate(e, f, s) ==
  LET Raised(b)  == ~Terminated(s, b) /\ \E p \in Group[b] : f[p] > e[p]
      Lowered(b) == ~Terminated(s, b) /\ \E p \in Group[b] : f[p] < e[p]
  IN  /\ \A p \in Fixed : f[p] = e[p]
      /\ \A b \in Btnks : \A p \in Group[b] : Terminated(s, b) \/ f[p] - e[p] \in -1 .. 1
      /\ Cardinality({b \in Btnks : Raised(b)}) <= top_k
      /\ Cardinality({b \in Btnks : Lowered(b)}) <= top_k

(***************************************************************************)
(* One round moves a parameter by one row at most, unless its component    *)
(* has been terminated and falls back to a recorded setting; it raises the *)
(* resources of at most top_k bottlenecks and lowers those of at most      *)
(* top_k; and it leaves the pipeline width, which names the report, alone. *)
(* (top_k bounds what decrease_hardware_resource_v2 draws; the docstring   *)
(* of bottleneck_removal has all resources without contribution lowered.)  *)
(***************************************************************************)
RoundIsModerate ==
  [][pc = "analyze" => Moderate(embedding, embedding', scm')]_vars

(* the rounds of the running thread and of the ones that returned *)
Rounds ==
  LET finished == Range(solutions)
                    \cup UNION {Range(o.epochs) : o \in {p \in Range(outputs) : ~p.died}}
  IN  Range(trace) \cup UNION {Range(e.trace) : e \in finished}

(***************************************************************************)
(* A design that has been scored with all its reports has that score in    *)
(* whichever epochs and threads it is met with all of them, although an    *)
(* analysis report may be missing (get_bottleneck_contribution) and its    *)
(* design is then simulated and scored again: a simulation overwrites no   *)
(* complete reports, and no other design has the directory.                *)
(***************************************************************************)
SameDesignSameScore ==
  \A r, q \in Rounds :
    r.design = q.design /\ r.whole /\ q.whole => r.pppa = q.pppa

(***************************************************************************)
(* The index of every design the exploration meets, the first and the last *)
(* of the space included, is an index of the space and leads back to the   *)
(* design: the engine keeps designs as indices and turns them into rows    *)
(* and back in every round, and the index names the directory, so that two *)
(* designs that shared one would share their results.                      *)
(***************************************************************************)
IndexLeadsBack ==
  idx \in 1 .. size /\ idx_to_embedding(idx) = embedding

(***************************************************************************)
(* Reports are written only when every thread has returned all its epochs  *)
(* (get_output, generate_report).                                          *)
(***************************************************************************)
ReportsAreComplete ==
  reports # <<>> => \A t \in DOMAIN starts :
    ~outputs[t].died /\ Len(outputs[t].epochs) = Epochs

(* the pipeline width exploration_impl takes from a start *)
StartWidth(start) == IF start > 8 THEN Width(idx_to_embedding(start)) ELSE start

(***************************************************************************)
(* The report named after a pipeline width holds designs of that width     *)
(* only, after any number of rounds: generate_report pairs widths and      *)
(* threads by their position alone.  A list of initial designs need not    *)
(* have the widths at the same positions; the property is about those that *)
(* have, and about every exploration without such a list.                  *)
(***************************************************************************)
ReportsAreOfTheirWidth ==
  \A t \in DOMAIN reports :
    ~listed \/ StartWidth(starts[t]) = pipeline_width[t] =>
      \A e \in DOMAIN reports[t] : \A k \in DOMAIN reports[t][e].trace :
        Width(reports[t][e].trace[k].design) = pipeline_width[t]

(***************************************************************************)
(* Every exploration ends, with its reports or with an exception: budget,  *)
(* early stopping and failures leave no way to go on for ever.             *)
(***************************************************************************)
RunEnds == <>(pc \in {"done", "failed"})

(***************************************************************************)
(* A design whose simulation failed ends its epoch, not its thread, as     *)
(* exploration_impl says ("The simulation is failed. We terminate this     *)
(* epoch.").                                                               *)
(***************************************************************************)
FailedSimulationEndsEpoch ==
  \A t \in DOMAIN outputs : outputs[t].died => outputs[t].why # "metric"

(***************************************************************************)
(* When a terminated component that still contributes is visited, all its  *)
(* parameters return to the round with the lowest contribution, as         *)
(* SensitiveComponent says ("we directly set the configuration with the    *)
(* lowest contribution").                                                  *)
(***************************************************************************)
FallbackRestoresSetting ==
  [][pc = "analyze" =>
       LET contribution == temp[idx].contribution
       IN  \A c \in Sensitive :
             /\ Terminated(scm', c) /\ contribution[c] > 0
             /\ c \in Visited(embedding, scm', contribution)
             => \A p \in Group[c] : embedding'[p] = trace[LowestRound(scm'[c])].design[p]]_vars
=============================================================================
