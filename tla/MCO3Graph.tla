------------------------------ MODULE MCO3Graph ------------------------------
(***************************************************************************)
(* Small traces for O3Graph.  Every line is an executed instruction whose  *)
(* events are a few ticks apart; all of them compete for one entry of each *)
(* structure and two functional units.                                     *)
(***************************************************************************)
EXTENDS O3Graph

(* type, first tick, icache latency, ticks waiting for operands and for a  *)
(* unit, latency, ticks a load waits for data, resources that blocked it,  *)
(* operands                                                                *)
Line(type, control, t, ic, ready, wait, exec, data, block, src, dst) ==
  LET f == t + ic
      d == f + 3
      r == d + ready
      i == r + wait
  IN  [inst_type |-> type, control |-> control,
       fetch_cache_line |-> t, process_cache_completion |-> t + 2, fetch |-> f,
       decode |-> f + 1, rename |-> f + 2, dispatch |-> d,
       insert_ready_list |-> r, issue |-> i,
       memory |-> IF type \in MemReads \cup MemWrites THEN i + exec ELSE 0,
       complete |-> i + exec,
       complete_memory |-> IF type \in MemReads THEN i + exec + data ELSE 0,
       commit |-> t + 16,
       block |-> block, rob |-> 0,
       lq |-> IF type \in MemReads THEN 0 ELSE -1,
       sq |-> IF type \in MemWrites THEN 0 ELSE -1,
       iq |-> 0, fu |-> IF type \in MemReads \cup MemWrites THEN 1 ELSE 0,
       src |-> src, dst |-> dst]

Starts == {1, 4}               \* the ticks an instruction may be fetched at

(* a branch, additions, a multiplication and a floating-point addition *)
Arithmetic ==
  {Line("IntAlu", TRUE, 1, 2, 0, 0, 1, 0, {}, {1}, NoReg),
   Line("IntAlu", FALSE, 9, 3, 2, 0, 1, 0, {"rob"}, {1, 2}, 2),
   Line("IntMult", FALSE, 4, 2, 1, 1, 3, 0, {"iq"}, {2}, 1),
   Line("FloatAdd", FALSE, 4, 2, 0, 2, 2, 0, {"rf"}, {3}, 2)}
  \cup {Line("IntAlu", FALSE, t, 2, 0, 1, 1, 0, b, {1}, 2) :
          t \in Starts, b \in {{}, {"rob", "rf"}}}

(* loads that wait for their data, or not, and stores *)
Memory ==
  {Line("MemRead", FALSE, t, 2, 1, 0, 1, d, {"lq"}, {2}, 1) : t \in Starts, d \in {0, 3}}
  \cup {Line("MemRead", FALSE, 9, 2, 0, 1, 1, 3, {"rob", "lq"}, {2}, 1),
        Line("MemWrite", FALSE, 1, 2, 0, 0, 1, 0, {}, {1}, NoReg),
        Line("MemWrite", FALSE, 4, 2, 0, 3, 1, 0, {"sq"}, {1}, NoReg)}

AnyTrace == Arithmetic \cup Memory
=============================================================================
