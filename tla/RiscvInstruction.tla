-------------------------- MODULE RiscvInstruction --------------------------
(***************************************************************************)
(* One committed instruction of the gem5 trace, as RiscvInstruction of     *)
(* infras/deg/src/instruction holds it once a trace line has been parsed:  *)
(* its operation class, the clock ticks of its pipeline events, the        *)
(* hardware entries it occupied and its register operands.  The mnemonic   *)
(* is abstracted to the one thing the graph asks of it (is_control), and   *)
(* a block_from_* tick to whether it is non-zero.                          *)
(***************************************************************************)
EXTENDS Integers, FiniteSets

NoReg == -1                     \* dst of an instruction that writes no register

MemReads   == {"MemRead", "FloatMemRead"}
MemWrites  == {"MemWrite", "FloatMemWrite"}
IntTypes   == {"IntAlu", "IntMult", "IntDiv"}
FpAluTypes == {"FloatAdd", "FloatCmp", "FloatCvt"}
FpMulTypes == {"FloatMult", "FloatMultAcc", "FloatMisc", "FloatDiv",
               "FloatSqrt"}
InstTypes  == MemReads \cup MemWrites \cup IntTypes \cup FpAluTypes
                \cup FpMulTypes \cup {"NoOpClass"}

Resources == {"rob", "rf", "iq", "lq", "sq"}

(***************************************************************************)
(* A parsed trace line.  The events decode_sort_insts, rename_sort_insts   *)
(* and commit_head are parsed and never read by the graph.                 *)
(***************************************************************************)
Instruction ==
  [inst_type : InstTypes, control : BOOLEAN,
   fetch_cache_line : Nat, process_cache_completion : Nat, fetch : Nat,
   decode : Nat, rename : Nat, dispatch : Nat, insert_ready_list : Nat,
   issue : Nat, memory : Nat, complete : Nat, complete_memory : Nat,
   commit : Nat,
   block : SUBSET Resources,
   rob : Int, lq : Int, sq : Int, iq : Int, fu : Int,
   src : SUBSET Int, dst : Int]

is_load(i)    == i.inst_type \in MemReads
is_store(i)   == i.inst_type \in MemWrites
is_mem(i)     == is_load(i) \/ is_store(i)
use_int_rf(i) == i.inst_type \in IntTypes \cup MemReads \cup MemWrites
use_fp_rf(i)  == i.inst_type \in FpAluTypes

(***************************************************************************)
(* The register dependences of a younger instruction tgt on an older src.  *)
(***************************************************************************)
raw_dep(tgt, src) == src.dst \in tgt.src
war_dep(tgt, src) == tgt.dst \in src.src
wrw_dep(tgt, src) == tgt.dst = src.dst

(***************************************************************************)
(* The pipeline of the simulated core, as far as the analysis relies on it *)
(* (external: the trace is written by gem5).  Events of one executed       *)
(* instruction happen in pipeline order; a memory access is started in the *)
(* tick its instruction executes; only loads wait for data; only the       *)
(* non-memory classes hold branches and jumps.                             *)
(***************************************************************************)
Executed(i) ==
  /\ 0 < i.fetch_cache_line
  /\ i.fetch_cache_line <= i.process_cache_completion
  /\ i.process_cache_completion <= i.fetch
  /\ i.fetch <= i.decode /\ i.decode <= i.rename /\ i.rename <= i.dispatch
  /\ i.dispatch <= i.insert_ready_list /\ i.insert_ready_list <= i.issue
  /\ i.issue <= i.complete /\ i.complete <= i.commit
  /\ is_mem(i) => i.memory = i.complete /\ ~i.control
  /\ is_load(i) => i.memory <= i.complete_memory /\ i.complete_memory <= i.commit

(***************************************************************************)
(* inst may follow the instructions of w in a trace: fetch, rename and     *)
(* commit are in order, and no instruction issues before the producer of   *)
(* one of its operands.                                                    *)
(***************************************************************************)
Follows(w, inst) ==
  \A k \in DOMAIN w :
    /\ w[k].fetch_cache_line <= inst.fetch_cache_line
    /\ w[k].rename <= inst.rename
    /\ w[k].commit <= inst.commit
    /\ raw_dep(inst, w[k]) => w[k].issue <= inst.issue
=============================================================================
