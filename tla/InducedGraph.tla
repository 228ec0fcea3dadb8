----------------------------- MODULE InducedGraph -----------------------------
(***************************************************************************)
(* What construct_critical_path_v2 promises of the graph it works on,      *)
(* without threads: the dependences of the trace are complete and fixed    *)
(* before the first virtual edge is added; the virtual edges to add are    *)
(* then known from the instructions and the dependences; they appear one   *)
(* at a time, none in the place of a dependence, and none disappears; and  *)
(* the analysis ends once, with a report or without one, adding at most    *)
(* the two links that complete its path.                                   *)
(***************************************************************************)
EXTENDS Naturals, Sequences

CONSTANT Rules(_, _)  \* Rules(w, S): what may be asked for in a trace w whose
                      \* dependences join the pairs S, a set of sets of pairs

VARIABLES
  insts,      \* the instructions read, oldest first
  deps,       \* the dependences: joined pair of vertices -> label
  wanted,     \* the pairs the rules ask a virtual edge for
  virtual,    \* the pairs joined by a virtual edge
  state       \* "reading", "connecting", "reported", "failed"

vars == <<insts, deps, wanted, virtual, state>>

Init == /\ insts = <<>> /\ deps = [p \in {} |-> p] /\ wanted = {} /\ virtual = {}
        /\ state = "reading"

(* an instruction brings its dependences and leaves the older ones alone *)
Read == /\ state = "reading" /\ state' = "reading"
        /\ Len(insts') = Len(insts) + 1
        /\ \A k \in 1 .. Len(insts) : insts'[k] = insts[k]
        /\ \A p \in DOMAIN deps : p \in DOMAIN deps' /\ deps'[p] = deps[p]
        /\ UNCHANGED <<wanted, virtual>>

(* the trace has been read: the rules tell what is asked for *)
Seal == /\ state = "reading" /\ state' = "connecting"
        /\ wanted' \in Rules(insts, DOMAIN deps)
        /\ UNCHANGED <<insts, deps, virtual>>

Connect == /\ state # "reading"
           /\ \E p \in wanted \ DOMAIN deps : virtual' = virtual \cup {p}
           /\ UNCHANGED <<insts, deps, wanted, state>>

End == /\ state = "connecting" /\ state' \in {"reported", "failed"}
       /\ UNCHANGED <<insts, deps, wanted>>
       /\ virtual \subseteq virtual'
       /\ virtual' \cap DOMAIN deps = {}
       /\ \E p, q \in virtual' \cup {<<>>} : virtual' \ virtual \subseteq {p, q}

(* a step of a thread that brings down the analysis *)
Break == /\ state = "connecting" /\ state' = "failed"
         /\ \E p \in wanted \ DOMAIN deps : virtual' = virtual \cup {p}
         /\ UNCHANGED <<insts, deps, wanted>>

Next == Read \/ Seal \/ Connect \/ End \/ Break

Spec == Init /\ [][Next]_vars
=============================================================================
