--------------------------------- MODULE Db ---------------------------------
(***************************************************************************)
(* The part of the SQLite database (db.rs) a workflow run reads and        *)
(* writes: the receipts table, and the rows of workflows_receipts that     *)
(* link receipts to the workflow being run.  It is the only state that     *)
(* survives a crash of the node.                                           *)
(*                                                                         *)
(* A receipt is keyed by its cid, which covers the invocation it answers   *)
(* and the result, so one instruction can have several receipts: `out`     *)
(* stands for everything in a receipt that is not its instruction.  Writes *)
(* are INSERT ... ON CONFLICT DO NOTHING, hence set union.                 *)
(***************************************************************************)
EXTENDS FiniteSets, Naturals

CONSTANTS Cid,   \* cids of instructions and of linked data
          Out    \* what the receipts of one instruction differ in

VARIABLES receipts,  \* table receipts
          links      \* receipts linked to the workflow in workflows_receipts

dbVars == <<receipts, links>>

Receipt == [instruction: Cid, out: Out]

ReceiptOf(c, o) == [instruction |-> c, out |-> o]

DbTypeOK == receipts \subseteq Receipt /\ links \subseteq Receipt

DbInit == receipts = {} /\ links = {}

\* INSERT ... ON CONFLICT DO NOTHING.
store_receipt(r) ==
    receipts' = receipts \union {r} /\ UNCHANGED links

\* commit_receipt without its second insert, and with INSERT OR REPLACE on the
\* instruction.
commit_receipt_unlinked(r) ==
    receipts' = receipts \union {r} /\ UNCHANGED links
commit_receipt_replace(r) ==
    /\ receipts' = {q \in receipts : q.instruction # r.instruction} \union {r}
    /\ links' = links \union {r}

\* The two inserts of commit_receipt are one transaction.
commit_receipt(r) ==
    receipts' = receipts \union {r} /\ links' = links \union {r}

find_instruction_pointers(pointers) ==
    {r \in receipts : r.instruction \in pointers}

\* `first` returns some receipt of the instruction: the caller picks one.
find_instruction_by_cid(c) == {r \in receipts : r.instruction = c}

\* Info::new counts the receipts linked to the workflow.
get_workflow_info == Cardinality(links)
=============================================================================
