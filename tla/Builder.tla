------------------------------ MODULE Builder -------------------------------
(***************************************************************************)
(* Builder of workflow.rs: the graph of a workflow and the batches dagga   *)
(* makes of it.  Nodes are the indices of the tasks.                       *)
(***************************************************************************)
EXTENDS Records

INSTANCE FiniteSetsExt

Expanded(w, n) == w[n].run[1] = "Expanded"
InstrOf(w, n)  == w[n].run[2]
Parsed(w, n)   == parse(InstrOf(w, n).input)
ArgsOf(w, n)   == Parsed(w, n).val.args
CidsOf(w)      == {instruction_cid(w[n]) : n \in DOMAIN w}

\* Of tasks with one instruction the last is kept.
lookup_table(w) ==
    [c \in CidsOf(w) |-> Max({n \in DOMAIN w : instruction_cid(w[n]) = c})]

\* Only promises that are arguments themselves are reads of the graph.
reads(w, n) == {lookup_table(w)[c] : c \in deferreds(ArgsOf(w, n)) \cap CidsOf(w)}

awaited(w) == UNION {reads(w, n) : n \in DOMAIN w}

\* Nodes that neither read nor are read come after all others.
Barrier(w, n) == IF reads(w, n) = {} /\ n \notin awaited(w) THEN 1 ELSE 0

\* Mutant: of a task with links only these are kept.
IndexedLinks(w) ==
    [c \in CidsOf(w) |->
       LET some == CHOOSE n \in DOMAIN w : instruction_cid(w[n]) = c
           cids == links(ArgsOf(w, some))
       IN  IF cids = <<>> THEN <<<<"Url", InstrOf(w, some).rsc>>>>
           ELSE [k \in DOMAIN cids |-> <<"Cid", cids[k]>>]]

\* The resource of an instruction, and its links once for every task with it.
IndexedResources(w) ==
    [c \in CidsOf(w) |->
       LET same == {n \in DOMAIN w : instruction_cid(w[n]) = c}
           some == CHOOSE n \in same : TRUE
           cids == links(ArgsOf(w, some))
       IN  <<<<"Url", InstrOf(w, some).rsc>>>>
           \o [k \in 1..(Cardinality(same) * Len(cids)) |-> <<"Cid", cids[((k - 1) % Len(cids)) + 1]>>]]

\* dagga: a node's batch follows those of the nodes it reads and, with a
\* barrier, those of all nodes without one.  Nodes that read one another in a
\* circle have no such batches.
Before(w, n) == IF Barrier(w, n) = 1 THEN {m \in DOMAIN w : Barrier(w, m) = 0} ELSE reads(w, n)

Layered(w, batch) ==
    \A n \in DOMAIN w : batch[n] = 1 + Max({0} \union {batch[m] : m \in Before(w, n)})

build_schedule(w) ==
    LET batches == {f \in [DOMAIN w -> 1..Len(w)] : Layered(w, f)} IN
    IF batches = {} THEN Bad
    ELSE LET batch == CHOOSE f \in batches : TRUE IN
         Good([b \in 1..Max({0} \union {batch[n] : n \in DOMAIN w}) |-> {n \in DOMAIN w : batch[n] = b}])

\* Builder::graph: refused unless every task is expanded and can be parsed, and
\* there is a schedule.
graph(w) ==
    IF \E n \in DOMAIN w : ~ Expanded(w, n) THEN Bad
    ELSE IF \E n \in DOMAIN w : ~ Parsed(w, n).ok THEN Bad
    ELSE Then(build_schedule(w), LAMBDA s :
              Good([schedule |-> s, indexed_resources |-> IndexedResources(w)]))
=============================================================================
