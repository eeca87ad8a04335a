----------------------------- MODULE ReceiptLog -----------------------------
(***************************************************************************)
(* What a homestar node promises about the receipts it keeps, whatever its *)
(* workers, batches, caches and restarts do: receipts are only ever added, *)
(* and the receipt of an instruction the node ran itself is added only     *)
(* when every result that instruction was run on is already receipted (or  *)
(* is a blob fetched as a resource of the workflow).  Receipts that come   *)
(* from other nodes are taken as they are.                                 *)
(*                                                                         *)
(* The module is the abstract specification that Worker implements.        *)
(***************************************************************************)

CONSTANTS Cid,   \* instruction (and linked data) identifiers
          Task,  \* instructions the node may run
          Deps,  \* task -> cids of the results it is run on
          Out,   \* results of instructions
          Blob   \* stands for the bytes of a fetched resource

VARIABLES receipts,  \* the receipts stored by the node
          executed   \* the executions the node has receipted itself

vars == <<receipts, executed>>

Receipt == [instruction: Cid, out: Out]

\* The result v of d is on record.
Recorded(d, v) == v = Blob \/ [instruction |-> d, out |-> v] \in receipts

Init == receipts = {} /\ executed = {}

\* Running t on args produced o, and the receipt for it is stored.
Execute(t, o, args) ==
    /\ \A d \in Deps[t] : Recorded(d, args[d])
    /\ receipts' = receipts \union {[instruction |-> t, out |-> o]}
    /\ executed' = executed \union {[instruction |-> t, out |-> o, args |-> args]}

\* A receipt of another node is stored.
Import(r) ==
    /\ receipts' = receipts \union {r}
    /\ UNCHANGED executed

Next == \/ \E t \in Task, o \in Out :
              \E args \in [Deps[t] -> Out \union {Blob}] : Execute(t, o, args)
        \/ \E r \in Receipt : Import(r)

Spec == Init /\ [][Next]_vars
=============================================================================
