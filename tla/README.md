# ArchExplorer: a TLA+ verification project

ArchExplorer finds good out-of-order processor designs by bottleneck analysis.
For a design it builds and runs a gem5 simulator, turns the trace of pipeline
events into a *dynamic event dependence graph* (DEG), takes the longest path
through an induced graph as the critical path of the program, reports how much
each hardware resource contributes to it, and moves to the next design by
enlarging the resources that contribute most and shrinking some that contribute
nothing.

This directory models the parts of the repository that carry that logic, checks
them with TLC on small instances, and proves the central invariants with TLAPS:
those of the graph for every trace, those of the Python version of the graph for
every trace and every schedule of its threads, those of the exploration for every
sequence of results and every design space that satisfies one condition on its
predictor tables, and that of the simulation's files for
every set of designs and benchmarks.  `PROJECT.json` is the machine-readable index: which
definition stands for which lines, the runs, the mutants each property was tried
against, the hazards, the findings and the theorems.

## Inventory

| Part | Source | State | Operations | Correct when |
|---|---|---|---|---|
| C++ DEG | `infras/deg/src/graph` | `graph`, `pred`, `inst_window`, counters | model one instruction, model its interactions, analyse a window, report | acyclic, attached to the pipelines, weights are times, the report adds up to the time of the trace |
| C++ instructions | `infras/deg/src/instruction` | the trace, the sequence number | read, classify, dependences | each instruction is read once, classes and dependences are those of the ISA |
| Exploration engine | `algo/dse.py`, `utils/thread.py` | `temp/gem5-*`, traces, best design, sensitive components | evaluate, score, analyse, adjust, stop, report | best design kept, records aligned, rounds bounded, the run ends |
| Simulation | `funcs/sim` | build tree, one result directory per design and benchmark | generate and compile a simulator, run the benchmarks, power model, graph analysis | results belong to the design; failures are contained |
| Python DEG | `algo/core` | a networkx graph shared by threads, the list of skewed edges each thread sorts, the threads | the same as the C++ DEG, with one thread for each skewed edge and rule | the same, and the outcome does not depend on the schedule: all virtual edges are present before the longest path is taken |
| Design space | `funcs/design` | tables | index to vector to embedding and back | the maps are inverse to each other, at the first and the last index too |
| Baselines | `baseline`, `infras/calipers` | learned models | training, ranking | out of scope |
| Simulators | `infras/gem5-research*`, `infras/mcpat-research` | vendored | | assumed |

How they interact: the engine calls the simulator (`evaluate_microarch`), which
starts one thread per benchmark, each of which runs gem5 and then the power
model and the graph analysis as two further threads; these leave `ppa.rpt` and
`analysis.rpt` in the directory of the design.  The engine reads the two files
back.  So the interface between the parts is the file system, and a part that
fails shows up as a file that is missing.

What is hard here: the graph code adds edges in about twenty places, and the
assertions that would notice a wrong one run only after millions of
instructions; ticks are unsigned and are subtracted everywhere; the longest path
is put together from three pieces by searches that may give up; the engine
combines random moves, recorded settings, cached results and partial failures
over runs of many hours; and the Python version of the graph shares it between
threads without a lock and without waiting for them.  The hazards, at their lines, are in `PROJECT.json`.

## Modules

| Module | Models |
|---|---|
| `RiscvInstruction` | instruction kinds, dependences, the events of one instruction, and the assumptions on a trace |
| `DEG` | vertices and edges of one instruction, merged events, the eight kinds of interaction |
| `InducedDEG` | virtual edges, topological sort, longest path, path search, bottleneck report |
| `O3Graph` | `O3Graph::run`: the state machine that reads a trace and analyses the graph |
| `PathSearch` | the graph algorithms of `InducedDEG` against reference definitions, on arbitrary small graphs |
| `PyGraph` | the Python version of the graph: vertices, edges, interactions, the virtual edges each thread adds, distances and paths |
| `PyInducedDEG` | `construct_critical_path_v2`: the main thread, the two threads it starts and their workers, step by step |
| `InducedGraph` | the abstract specification: what the analysis promises of the graph, without threads |
| `HardwareResources` | designs, the index of a design, sensitive components, and how a bottleneck report changes a design |
| `ArchExplorer` | `ArchExplorerEngine::run`: threads, epochs, rounds, cached results, failures, reports |
| `O3CPUSimulation` | `O3CPUSimulation::simulate`: the sources, simulators and result directories, and the threads that write them |
| `MCO3Graph`, `MCPathSearch`, `MCPyInducedDEG`, `MCArchExplorer` | instances for TLC; `O3CPUSimulation` needs none, its constants are sets of model values |
| `Recursion` | lemmas about recursive functions and folds, for any definition and any operator; the proof modules instantiate it |
| `DEG_proofs`, `InducedDEG_proofs` | lemmas about pipelines and interactions, and about sort, distances, longest path and path searches on any acyclic graph |
| `O3Graph_proofs` | the two inductive invariants of `O3Graph` and the theorems about the graph and its analysis |
| `PathSearch_proofs` | the theorems about the graph algorithms |
| `PyInducedDEG_proofs` | lemmas about the Python graph, the inductive invariants of its threads, the rules of the induced graph, the refinement, and the longest path algorithm on a graph that other threads may change |
| `ArchExplorer_proofs` | lemmas about designs and records, and the theorems about the exploration |
| `O3CPUSimulation_proofs` | the inductive invariant of the simulation and its theorems |

**The graph.** `O3Graph` has the variables of the object: the instructions
modelled so far, the edges, the instruction being handled, the report, and a
`pc`.  `NextInst`, `Model`, `ModelInteraction`, `EndOfTrace` and `AnalyzeWindow`
are the steps of `run()`.  `AnalyzeWindow` is one step, since nothing runs beside
it: it takes source and sink, adds the virtual edges, computes the longest path
and either produces the report or stops with the error or assertion the code
would stop with.  Two events of one tick share a vertex in the code
(`get_vertex_from_inst`); the model keeps this, as most of the subtle cases come
from it.  Maps ordered by a comparison are modelled with their order: the answer
of `if_exist_path`, and which of two equally long paths is taken, depend on it.

**Traces.** gem5 is outside the model.  `Executed` states which order the events
of one instruction have (fetch before decode before rename and so on) and
`Follows` what may be assumed of two instructions in program order (they are
fetched, renamed and committed in order, and none issues before the producer of
an operand has).  `NextInst` reads any instruction that
satisfies both, so out-of-order issue and completion, cache misses, loads that
wait for memory and resources held by any older instruction all occur.

**The Python graph.** `PyInducedDEG` runs the same analysis with the threads of
`algo/core/model.py`.  `Construct` collects the skewed edges and starts one thread
for each of the two rules (the closest in time, the closest in program order);
`StartWorkers` is such a thread: it sorts its own copy of the list, starts a worker for
every skewed edge and then adds the links of source and sink itself.  Nobody waits
for the workers.  `add_virtual_edge` is two steps, `CheckEdge` and `AddEdge`, since
the interpreter may switch threads between the test and the insertion.  `Join`
waits for the two threads and starts the topological sort of networkx, which is
taken apart where a worker can interfere: `ReleaseGeneration` iterates over the
successors of a generation and decrements the in-degrees counted at the start,
`Relax` computes the distance of one vertex, `NextGeneration` and `EndSort` end a
round and the sort.  An edge that comes in the middle of such a loop changes a
dictionary under an iterator (`InterruptSort`), and one between two loops may be
seen, missed or lead to an error, as the order of the steps has it.  `changed`
records that an edge came after the sort had begun.  What networkx does is modelled
from its use here and marked external.

**The refinement.** `InducedGraph` says what is promised without threads: the
dependences are complete and fixed before the first virtual edge, the virtual edges
to add then follow from the instructions and the dependences (the constant `Rules`,
which `PyInducedDEG` instantiates with what its sorted lists ask for), they come one
at a time and none disappears or replaces a dependence, and the analysis ends once.
`PyInducedDEG` implements it: dependences and virtual edges are the two parts of the
graph, the edges wanted are the links of all threads, and every step of sort, path
and checks stutters.  What `InducedGraph` leaves open on purpose is whether the end
comes before or after the last virtual edge, which the code leaves open too (the
finding `late_path`).

**The engine.** A design is the row of every parameter in its table, and
`components_mappings` has the value of each row.  The code keeps values, finds their
row (`get_idx`), and writes the value of the next or previous row.  This is the
same table for every parameter but one: `adjust_bp` takes the new value of
`choicePredictorSize` from the table of `globalPredictorSize` (`algo/dse.py:724` and
`751`), as `Table` has it.  The engine stays in its design space only if the first
table is the beginning of the second, and `ResourceAssumption` says so: it is the one
condition on the tables, besides growing values, on which the results below rest.  In
the three sheets of the repository the two tables are the same; in the instances for TLC
the second goes on where the first ends, and a bound taken from the wrong one of them
is the mutant of `TypeOK`.  The metric and the contributions are natural numbers, since only their order, their sums
and whether they are zero matter.  `Simulate` leaves any result of the constant
set `Results` in the directory of the design: whether there is a performance
report, whether the analysis reports are complete, partial or missing, metric and
contributions.  One action stands for one phase of a round (`EvaluateCached`,
`Simulate`, `Score`, `Analyze`), and an exception in any phase ends the thread
(`Die`), which `GenerateReport` finds out when it collects the outputs.  The
average that `SensitiveComponent` keeps is modelled by the number of rounds it
was taken over, so that averages are compared without division.  `starts` is what
`run` starts its threads with, the pipeline widths or a list of initial designs;
`GenerateReport` names its reports by the pipeline widths and takes the thread at the same position,
whichever list the threads came from.

Designs are kept as indices, as in the code: `idx` is the mixed-radix number
of the rows (`embedding_to_idx`), it names the directory in `temp`, and the
variable `embedding` holds the rows, which the code computes back from the index
whenever it needs them; that this leads to the same design is `IndexLeadsBack`.

**The simulation.** `O3CPUSimulation` keeps apart what is on disk (`source`,
`build`, `temp`) and what is in memory (everything else), so that `Kill` may wipe
the memory between any two steps and `Restart` finds the files as they were.  The
fifteen calls of `generate_simulator` are four groups, in their order and with the
files they edit: front end and back end share `BaseO3CPU.py`, so editing one
rewrites the other.  A part of the sources is abstracted to the design whose
parameters it has; each group is one read, one truncation and one write, as
`modify_gem5_source_code` does, and a truncated part stays lost, since
`re.sub` finds nothing in it.  That scons refuses sources with a lost part is an
assumption on gem5, whose build registers the classes these files define.  A
benchmark thread runs `gem5 && rm -rf && mv`: where gem5 fails the directory of an
earlier run stays (`Gem5Fails`), where `mv` fails there is none (`MoveFails`); it then trims the trace and joins the threads of the
power model (`pat`) and of the graph analysis (`deg`).  A file is missing,
truncated or whole.  `mode` says whether cached reports are used (exploration) or
not (batch simulation, where `error()` ends the program rather than a thread).

## Runs

| Run | Instance | Shows |
|---|---|---|
| `traces` | `MCO3Graph.cfg`: traces of up to four instructions out of fifteen | the five invariants of the graph, that virtual edges never hide or reverse anything (`VirtualEdgesAreSound`), that the report adds up (`ReportAccountsForTheTrace`), and that an analysis fails for the known reasons only (`FailuresExplained`) |
| `path_search` | `MCPathSearch.cfg`: graphs of up to four edges on four vertices | sort, longest path and both path searches against their definitions |
| `exploration` | `MCArchExplorer.cfg`: one epoch, five rounds, up to three rows per parameter, four for the global predictor | `TypeOK`: no round leaves the tables; `RecordsAligned`, `BestIsKept`, `RoundsAreBounded`, `RoundIsModerate` |
| `engine` | `Engine.cfg`: two pipeline widths, two epochs of two rounds, from baselines of low and of high rows, simulations with complete, partial and missing reports | `SameDesignSameScore`: complete reports give a design one score; `IndexLeadsBack`; `ReportsAreComplete`; `ReportsAreOfTheirWidth`: a report holds designs of the width that names it; `RunEnds` |
| `python_threads` | `MCPyInducedDEG.cfg`: seven traces, every interleaving of the main thread, the two threads it starts and up to six workers | `VirtualEdgesLeadForward`; `InducedGraphIsDetermined`: the virtual edges in the end do not depend on the schedule; `FailuresExplained` and `StillGraphGivesLongest`: only an edge that comes after the sort has begun can make the analysis fail or miss the longest path; `AnalysisEnds`; `ImplementsInducedGraph` |
| `recovery` | `Recovery.cfg`: two designs, one benchmark, kills at every step | `FilesAreOfTheirDesign`: no simulator and no result belongs to another design; `ReportsAreKept`: reports once complete are never removed |
| `workers` | `Workers.cfg`: three benchmarks, batch simulation, no kills | `SuccessLeavesReports`, `FilesAreWhole`: what succeeds has its reports, and none is half written when a call returns; `CallsReturn`: every call returns or, where a compilation fails, ends the program |
| `golden_length` | violation | a load that waited for its data makes the final assertion fail |
| `window_boundary` | violation | an analysis on a window boundary cannot find its sink |
| `late_path` | violation | the Python analysis may return a path that is not the longest, because a worker nobody waited for adds its edge too late |
| `failed_simulation` | violation | a failed simulation ends its thread, not its epoch |
| `fallback` | violation | a branch predictor falls back in three of its five parameters |

**Bounds.** Four instructions are enough for a producer, a consumer and two
instructions between or around them, which is what every interaction, the merging
of events and the choice between parallel edges need.  The window is four: a
trace of up to three instructions is analysed at its end, and the fourth is read
on the window boundary, where the analysis stops.  The fifteen instructions
cover each resource as held and as free, loads with and without waiting, a
mispredicted branch, and equal and different ticks.  Five rounds with early
stopping after three let a component be recorded, terminated, set back and then
lowered, and let budget and early stopping each end an epoch first.  Up to three rows
let a resource be at its first, last and middle row, the fourth row of the global
predictor lies beyond the table of the choice predictor, and together they keep the largest index
within the integers of TLC; different numbers of rows make a mixed-up weight of the
index visible.  The seven traces of the Python graph have up to four
instructions and up to three skewed edges: two that are apart, chained or overlap,
two that start at the same time, so that both rules ask for the same edge and two
threads race for it, one that ends after a younger one has begun, none at all.  Two designs are enough for
sources left by another design, one benchmark for a directory left by an earlier
run; three benchmarks let one finish while a second fails and a third runs.  The
number of calls, failures and restarts is not bounded.

**Fairness.** `RunEnds` needs weak fairness of the whole next-state
relation.  `run()` joins every thread before it starts the next, so the engine is
one sequential program, and a sequential program that can take a step takes it.
That a simulation returns at all is part of the assumption.  `CallsReturn` needs
weak fairness of the main thread, of the benchmark threads and of the two models:
the operating system schedules every thread, and the commands they wait for end.
A restart is an act of the operator, for which no fairness is assumed: a call that
ends the program has ended.
`AnalysisEnds` needs no more than that the Python program is not suspended for
ever, weak fairness of its next-state relation as a whole: no thread waits in a loop,
and each has finitely many edges to add.

## Observations

Met while modelling, and left without a run because the intent is open:

* `decrease_hardware_resource_v2` (`algo/dse.py:1126`) does not ask `terminate`:
  a branch predictor or cache whose adjustment was terminated is still lowered in
  a round in which it contributes nothing ("we terminate adjusting them",
  `algo/dse.py:130-134`).
* `if_no_need_simulate` (`algo/dse.py:255`) tests that `analysis.rpt` exists, and
  nothing else: a design of which a power model failed, or of which a kill left
  an empty report, is not simulated again ("all benchmarks have been verified",
  `algo/dse.py:257`).
* The RAW search of the C++ graph says "We find the latest instruction that does
  has the RAW dependence" (`infras/deg/src/graph/o3.cc:457-460`), but `prev` is
  fetched before the loop and never refreshed in it: the edge comes from the
  nearest producer found, which is what the model has.
* `if_exist_path` (`o3.cc:1134`) gives up at the first vertex it meets twice, so
  that "If no path exists, we construct the virtual edge" (`o3.cc:861-864`) also
  happens where a path exists.  What is checked is that a path it does report is found
  afterwards (`ExistingPathIsFound`).
* The docstring in `construct_induced_graph` of the Python graph has another rule than
  the code: "for each skewed edge's `v` node, we connect the next skewed edge's `u`
  node", and of the closest `seq` "all next skewed edges"
  (`algo/core/model.py:1487-1499`).  The workers join the `u` node as well (1338-1339
  and 1412-1413), and `add_virtual_edge_via_seq_v2_impl` returns after the first edge it
  finds, so that of several stages of the closest instruction only the earliest is
  joined.  `InducedGraphIsDetermined` states what the code does.
* The docstring of `bottleneck_removal` says "We adjust top-2 resources and all resources
  with zero contributions" (`algo/dse.py:1155-1159`);
  `decrease_hardware_resource_v2`, which it calls, draws at most `top_k` of the latter
  and says so ("We randomly decrease `top_k` hardware resources", `algo/dse.py:1105-1108`).
  `RoundIsModerate` has the bound of the code.
* `adjust_bp` takes the new value of `choicePredictorSize` from the table of
  `globalPredictorSize` (`algo/dse.py:724` and `751`).  In a sheet whose two tables
  differ, a round could leave the design space, and `get_idx` would then return -1.
  The three sheets of the repository have equal tables.
* With a list of initial designs the reports are still named by `pipeline-width`, by
  position (`algo/dse.py:1407-1411`): `main/configs/example.yml` lists one design of width
  1 and the pipeline width 4, so that its report of width 4 holds designs of width 1.  A
  list that is shorter ends the program with `IndexError` after the exploration.
* In `add_virtual_edge_via_timestamp` (`algo/core/model.py:1461`) a loop uses a
  variable that is not defined.  The line is reached only when a dependence of a
  younger instruction starts at the tick of the very first fetch, which no
  well-formed trace has.
* `vec_to_idx` (`funcs/design/o3cpu/o3cpu_design_space.py:188`) takes every vector to
  be of the first design line, while `idx_to_vec` handles several.  All sheets of
  the repository have one line.
* `initialize.py` (`funcs/initialize.py:97`) draws indices from `range(size)`: 0 may be
  drawn, which `valid` refuses, and the last design never is.
* `simulation_for_idx_range` (`funcs/simulation.py:69`) calls `idx_to_embedding` of the
  simulator, which has no such method; the other ways to choose designs call it of
  the design space.
* A source file that a kill has truncated stays lost: every later compilation
  fails until the gem5 tree is restored by hand.

## Proofs

`O3Graph_proofs` proves, for every trace that satisfies the trace assumptions,
every length and every window:

* `TypeCorrect`: the type invariant;
* `GraphIsForward`: every edge leads to a younger instruction or to a later stage
  of the same instruction, so that the graph is acyclic and `topological_sort`
  never fails its assertion on the dependences;
* `EdgesAreAttached`: every edge joins vertices of pipelines, merged events
  included, so that no dependence hangs off a vertex that does not exist;
* `WeightsAreTimes`: every weight is the time between its two events, the last
  edge of a load that waited excepted (the finding `golden_length` is this
  exception);
* `TicksNeverUnderflow`: no difference of ticks the code computes is negative;
* `VirtualEdgesSound`: the virtual edges keep the graph acyclic, measure time, cost
  nothing and run beside no other edge;
* `FailuresAreExplained`: an analysis ends the program only when no interaction
  costs anything, on a window boundary, or when the trace holds a load that waited
  for its data, and it never misses an edge of its own critical path;
* `ReportsAccountForTheTrace`: a critical path leads from the first fetch to the
  last commit and never back in time, and the bottlenecks share the whole time of
  the trace among them.

The argument for the first five: none of these is inductive without the type invariant, and the ones
about interactions also need that the instructions modelled are those of the
trace read so far, in order, and satisfy `Executed` and `Follows` pairwise.  The
inductive invariant, `SoundGraph`, is the conjunction: types, a trace that may be
read, its numbering, and sound edges.  `DEG_proofs` reduces each action to facts
about the edges it adds: one lemma for each kind of interaction, and one for the
pipeline, each split over the merged and the separate vertices.

The last three are about what `analyze_window` computes, and rest on the inductive
invariant `Analysed`: `SoundGraph`, that every pipeline is chained by its horizontal
edges and by each of them once (`Chained`), that nothing has been analysed before the
state that ends the program, and the three properties.  For the one step that
matters the argument follows the code.  `InducedGraphIs`: every pair that
`construct_induced_graph` joins is a tail of a younger instruction at the same
time or later, and not of the youngest one, so that the graph with its virtual
edges (`Extension`) is still acyclic and has no parallel edge (`AddVirtualEdge`,
`ExtensionIsDag`).  `EmptyCoreIsFree`: the longest path is empty only if nothing
costs anything.  `LongestPathIs`: head, core and tail are joined.  For the head,
either `find_path` finds what `if_exist_path` has promised or a virtual edge is added.
The tail is the hard case: a core that ends in an older instruction is
led down its pipeline to its commit, and from there to the sink by a virtual edge;
one that ends in the youngest instruction cannot be, so `if_exist_path` must not
overlook the way.  It does not: such a core ends with a skewed edge (`CoreEnds`), at
least two edges before the commit, and although the search gives up at a vertex it
meets twice, nothing but the pipeline leaves the youngest instruction
(`ChainIsFound`, `YoungestReachesSink`).  `CriticalPathIs`:
along the path the weights telescope, unless a load waited; `SharesAddUp`: what is
added to one bottleneck per edge adds up to the weights of all edges.  The part
that is easily overlooked is that the five earlier invariants alone do not give
`FailuresExplained`: it needs `Chained` as well, and which stages an interaction may
leave and reach (`IsSkewed`).

`PathSearch_proofs` proves, for any number of vertices, edges and costs, that
`topological_sort` lists every vertex once and after its predecessors
(`SortIsTopological`), that the longest path is one (`CoreIsLongest`), that
`find_path` finds a path exactly when there is one (`FindPathFindsAll`), and that
`if_exist_path` promises none that is not there (`ExistingPathsAreFound`).  The
lemmas are those of `InducedDEG_proofs`, for any graph whose edges lead forward
(`IsDag`): the sort terminates because among the vertices not yet placed the one of
least depth is free; the distances are settled in its order, so that each is
the maximum over the predecessors; and following the predecessors back from the
largest distance gives a path of that cost.

**Recursion.** These operators are recursive functions and folds, and what they
compute takes induction.  `Recursion` has the operator that is iterated as a
constant: that a recursive definition whose calls decrease a measure defines a
function (`RecursionDefines`), that an iteration over an interval takes its steps
one by one (`IterationSteps`), and that `FoldLeft` visits one position after the
other (`FoldSteps`).  Each use instantiates the module with the operator at hand
(`Totals`, `Shares`, `Connects` and so on), and the induction is over sets
of numbers (`NatSetInduction`, `IntervalInduction`) rather than over predicates.

`ArchExplorer_proofs` proves, for every design space whose choice predictor table is the
beginning of the global predictor table (`ResourceAssumption`), every list of starts,
all baselines and results, and any number of threads, epochs and rounds:

* `TypeCorrect`: the engine never leaves the design space.  Two cases need an
  argument: `fallback`, which takes a parameter from a recorded setting, and the choice
  predictor, whose row is found again by the value of another table
  (`RowIsFoundAgain`, `MovesByOneRow`);
* `RecordsStayAligned`: settings and contributions of a sensitive component stay
  aligned, so that the assertion in `fallback` holds and the setting it takes is
  the one that was measured;
* `EpochsAreBounded`: by the budget and by early stopping;
* `BestDesignIsKept`: an epoch returns the first design with the largest metric;
* `ReportsStayComplete`: reports only with all epochs of all threads;
* `ReportsKeepTheirWidth`: the report named after a pipeline width holds designs of that
  width, in every exploration without a list of initial designs, and with one wherever
  the start at its position has that width;
* `ScoresAgree`: a design scored with all its analysis reports has that score in all
  epochs and threads, for any results, partial reports included;
* `IndicesLeadBack`: the index of every design the engine meets is in the range of
  the design space and leads back to the design, for any table of levels;
* `RoundsAreModerate`: the action property `RoundIsModerate`, that a round moves a
  parameter by one row at most, a fallback excepted, and the resources of at most
  `top_k` bottlenecks up and of at most `top_k` down.

Three inductive invariants carry this.  `Shape` is types, bounds and, for each phase
of a round, how the length of the trace, the round and the records relate; types
are not inductive alone, since a fallback is in range only while the records are
aligned and not empty.  That the round with the lowest contribution exists
(`LowestRoundExists`) follows from the well-foundedness of the natural numbers,
and that it is a setting of the parameter's own component from the fact that no
two components record the same parameter (`ParametersAreDistinct`).  `Kept`, on
top of `Shape`, says that every finished epoch, returned or not, has its best
round and designs of the width of its thread; it has one lemma for each way an
epoch or a thread ends (`EpochKeeps`, `ThreadKeeps`, `DeathKeeps`).  `Scored` ties
rounds to directories: the directory of every round that was scored with complete
reports still holds them and its score, since a simulation writes only where the
reports are not complete.
The rounds scored with partial reports are the ones it says nothing about.
`RoundsAreModerate` needs `Shape` only, and two facts about the bottlenecks: each
parameter is moved against one of them (`GroupsAreDistinct`), so that a fallback of
one component cannot move a parameter of another; and at most `top_k` are adjusted
(`FewAreAdjusted`), since the last of them in the order of the visits has fewer than
`top_k` before it.

`PyInducedDEG_proofs` proves, for every set of well-formed traces, of any length, and
every schedule of the threads:

* `Typed`: the type invariant;
* `VirtualForward`: virtual edges never lead back and carry the time between their
  ends;
* `Implements`: the threads implement `InducedGraph`, initial states and steps: in
  particular what they will ever add between the skewed edges is fixed by the
  instructions and the dependences when the trace has been read;
* `GraphDetermined`: once all threads have ended, the virtual edges between the skewed
  edges lead from both ends of each to all tails closest in time and to the first tail
  of the closest instruction, whatever the schedule.  This is what the code does; the
  docstring differs (Observations);
* `Failures`: the analysis fails only when nothing in the graph costs anything or when
  a worker that nobody waited for has changed the graph under the sort;
* `Longest`: without such a change the critical path is a most expensive path of the
  graph it is reported for.

The inductive invariant `IInv` has four parts: the instructions read are a prefix of
a well-formed trace (`TracePart`); the graph has edges of their events only, labelled
with the time between them, and the virtual ones lead forward (`GraphPart`); every
link a thread has still to add is one the rules ask for, and a thread between its
check and its addition has found no dependence there (`ThreadPart`); the sort works
on vertices of the trace (`SearchPart`).  The third is the heart of the matter: it is
stable although there is no lock, since after the trace has been read only virtual
edges are added, so that the worst a race can do is to add the same edge twice with
the same label.

`GraphDetermined` rests on `Connected`, on top of `IInv`: the links are those of two
sorted lists of the skewed edges (`SkewPart`), a link that a thread has dealt with is
an edge or joins one node to itself (`DealtPart`), and every virtual edge was asked for
by a thread or completes the critical path (`AskedPart`).  That the lists give the
rules is a fact about the sorts: a list has every edge once (`OrderHasAll`); a tail that
may follow an end of an entry comes behind the entry in both orders, so that a worker
that looks only behind its own entry overlooks nothing (`FollowersAreLater`); and the
tails closest in time stand together, so that the loop that stops at the first other
time has seen them all (`TimestampTargetsAreClosest`).  The second needs that every
dependence leads to a younger instruction and not back in time (`IsDependence`), which is
kept while the trace is read.

`Failures` and `Longest` rest on `StillPart`, on top of `IInv` (theorem `StillHolds`).  At
every moment, changed or not, the graph is sound (`IsSound`): every edge leads to a
younger instruction or a later stage, its delay is the time between its ends, its cost
is not negative and 0 if it is virtual, and the whole pipeline of every instruction is
there.  As long as nobody has changed the graph under the sort, the in-degrees are the
numbers of predecessors that have not been released (`IsSort`), and a distance is at
least that of each predecessor with the cost of the edge, and equal to it for the one it
names (`Settled`).  The argument then follows the main thread:

* a generation can always be released, and the sort ends with every vertex, since among
  vertices left over one of least depth would have no predecessor left (`ReleaseSorts`,
  `SortIsComplete`); so neither `RuntimeError`, `KeyError` nor `NetworkXUnfeasible`;
* the path to the farthest vertex is a path of the graph from a vertex that costs
  nothing to reach (`PathToIsTrail`), or no edge costs anything (`NothingCosts`);
* `nx.shortest_path` finds a path whenever there is one (`ShortestPathsAre`: a path
  visits a vertex once, so the search goes far enough, `PathIsShort`).  The pipeline
  leads from the source to every event of the first instruction and from every event of
  the last one to the sink, so a bridge is asked for only between two instructions,
  where `add_virtual_edge` does not take its ends for the same node (`ConnectionIs`);
* the joined path is therefore a path from the source to the sink whose delays add up to
  the time between them (`LengthIsTime`): the assertion of `generate_report` holds;
* it costs at least the distance of its last vertex (`TrailCosts`), and nothing costs
  more: the distances, with that one at the sink, grow at least as fast as the costs along every
  edge, the two bridges included (`NothingCostsMore`, `LongestIs`).

Of equally long ways to a vertex `max` takes the predecessor whose name is the greatest
string, so that "10-F1" comes before "9-F1": `NameBefore` compares the decimal digits, and
the lemmas `DigitsAre`, `StringOrder` and `GreatestIs` show that a greatest one always
exists, in traces of any length.

A thread that adds an edge which is already there leaves all of this alone, as the label
costs the same (`SameCostsKeep`); one that adds a new edge during the sort sets `changed`.

`O3CPUSimulation_proofs` proves, for all sets of designs and benchmarks, in both
modes, with and without kills:

* `TypeCorrect`: no file of a directory that is not there is opened, and no part
  past the last is edited;
* `DesignsKeepTheirFiles`: a simulator has the parameters of the design it is
  named after, and the results of a design come from its own simulator;
* `SuccessIsReported`: a benchmark none of whose commands failed has its reports when
  `simulate` returns;
* `NothingHalfWritten`: without kills, no file is half written then;
* `ReportsStay`: in an exploration, complete reports are never removed.  (The batch
  simulation removes them: it simulates every design it is given.)

The inductive invariant `IInv` adds two facts to the types.  `Edited`: the parts before the
current edit are those of the design or lost, in the sources and in what has been
read of them, so that a compilation that succeeds finds all of them of the design,
whatever an earlier kill left.  `Running`: a simulation has its simulator, a
thread past the check has its directory, and the models run only while their
benchmark thread joins them, so that no directory is removed under them.  `Written`,
on top of `IInv`, follows each benchmark by itself: while none of its commands has
failed it has its directory at the check and a report for each model that has ended;
without kills a file is empty only while the one thread that opened it writes it, and
a trace is written back from lines that were read whole.  `ReportsStay` uses `Kept`:
a design with complete reports is not the one being simulated, since
`if_no_need_simulate` returns first, and a simulation touches no other directory.

The assumptions of all proofs are those named in the modules (`ASSUME`), which TLC
evaluates in the runs.

Only model-checked: `RunEnds`, `CallsReturn` and `AnalysisEnds`, which are liveness, and the
properties of the runs that expect a violation.  Every invariant, action property and
refinement of a passing run is a theorem.

## Not modelled

Of the Python graph, the text of traces and reports, the counts of cache accesses
and branches, drawing and the earlier `construct_critical_path_v1`, which is not
called.  Of the design space, reading the spreadsheet, and the offsets between
several design lines.  Of a simulation, the
command lines of gem5 and McPAT and the numbers in the reports are left out, as is
a `mv` across file systems, which would not be atomic: the gem5 tree and `temp`
are both directories of the repository.  The text of traces and reports, drawing
and logging are left out, as are the benchmark tables, the sampling scripts and the
baselines (numerical and floating-point code) and Calipers.  `generate_baseline_v2`,
`decrease_hardware_resource_v1` and `multi_exploration` are not called by the
program.

gem5 (twice) and McPAT are vendored and make up almost all of the lines in the
repository.  They are not this program's logic: what is assumed of them is in
`RiscvInstruction` (the order of events in a trace) and `O3CPUSimulation` (what a
compilation needs, which files a run leaves).

## Plan

Modelled and checked: the C++ graph and its path algorithms, the exploration engine
with the index of a design, the simulation of a design, the threads of the Python
graph and the sequential account they implement.  Proved: what is listed above.

What is left to model is the composition of `O3CPUSimulation` with `ArchExplorer`, whose
`Results` it should produce: the engine takes a simulation as one step with any
result of `Results`, which is coarser than what the files of the benchmarks allow.
