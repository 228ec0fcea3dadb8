---------------------------- MODULE MCPyInducedDEG ----------------------------
(***************************************************************************)
(* Traces with few skewed edges, so that the threads can be interleaved in *)
(* every way.                                                              *)
(***************************************************************************)
EXTENDS PyInducedDEG

(* "1-R" < "10-C" < "10-F2" < "10-F2/F" < "100-C" < "11-C" < "2-C" < "9-F1" *)
ASSUME NamesAreStrings ==
  LET names == <<<<1, "R">>, <<10, "C">>, <<10, "F2">>, <<10, "F2F">>, <<100, "C">>,
                 <<11, "C">>, <<2, "C">>, <<9, "F1">>>>
  IN  \A j, k \in DOMAIN names : NameBefore(names[j], names[k]) <=> j < k

(* an addition fetched at t: its reorder buffer entry, its unit, how long  *)
(* it waits for its operands and for the unit, and what blocked it         *)
Add(t, rob, fu, ready, wait, block) ==
  [inst_type |-> "IntAlu", control |-> FALSE,
   fetch_cache_line |-> t, process_cache_completion |-> t + 2, fetch |-> t + 2,
   decode |-> t + 3, rename |-> t + 4, dispatch |-> t + 5,
   insert_ready_list |-> t + 5 + ready, issue |-> t + 5 + ready + wait,
   memory |-> 0, complete |-> t + 7 + ready + wait, complete_memory |-> 0,
   commit |-> t + 16, block |-> block, rob |-> rob, lq |-> -1, sq |-> -1, iq |-> 0,
   fu |-> fu, src |-> {1}, dst |-> 2]

(* inst takes longer in its unit *)
Slow(inst, by) == [inst EXCEPT !.complete = @ + by]

(* a load that waits data cycles for its data *)
Load(t, rob, data, block) ==
  [Add(t, rob, 9, 0, 0, block) EXCEPT
     !.inst_type = "MemRead", !.memory = t + 7, !.complete_memory = t + 7 + data,
     !.lq = 0, !.src = {3}]

Store(t, block) ==
  [Add(t, 2, 8, 0, 0, block) EXCEPT
     !.inst_type = "MemWrite", !.memory = t + 7, !.sq = 0, !.src = {4}, !.dst = NoReg]

Branch(t) == [Add(t, 0, 0, 0, 0, {}) EXCEPT !.control = TRUE, !.dst = NoReg]

(* two dependences one after the other *)
Apart == <<Add(1, 0, 0, 0, 0, {}), Add(3, 0, 1, 0, 0, {"rob"}),
           Add(5, 1, 2, 0, 0, {}), Add(8, 1, 3, 0, 0, {"rob"})>>

(* two dependences in a chain, and a load that waits for its data *)
Chained == <<Add(1, 0, 0, 0, 0, {}), Load(3, 0, 3, {"rob"}), Load(5, 0, 0, {"rob", "lq"})>>

(* two dependences that start at the same time, after a third *)
Together == <<Add(1, 0, 0, 0, 0, {}), Add(2, 1, 1, 0, 0, {}),
              Add(3, 2, 1, 0, 1, {}), Add(4, 0, 2, 0, 0, {"rob", "iq"})>>

(* a dependence that ends after a younger one has begun *)
Overtaken == <<Slow(Add(1, 0, 0, 0, 0, {}), 6), Add(2, 0, 0, 0, 6, {}),
               Add(3, 1, 1, 0, 0, {}), Add(4, 1, 2, 0, 0, {"rob"})>>

(* stores that share an entry, and the user of a load that waits for it *)
Waiting == <<Load(1, 0, 3, {}), Store(2, {}),
             [Add(4, 1, 1, 3, 0, {}) EXCEPT !.src = {2}], Store(5, {"sq"})>>

(* a mispredicted branch and a multiplication that waited for a register *)
Mispredicted == <<Branch(1), [Add(11, 0, 0, 0, 0, {"rf"}) EXCEPT !.inst_type = "FloatMult",
                                                               !.dst = 1]>>

(* no dependence at all *)
Single == <<Add(1, 0, 0, 0, 0, {})>>

AnyTrace == {Apart, Chained, Together, Overtaken, Waiting, Mispredicted, Single}
=============================================================================
