------------------------------ MODULE MCWorker ------------------------------
(***************************************************************************)
(* Small instances of Worker.  Tasks a and d make up the first batch, b    *)
(* and c the second.  b awaits the result x of a task outside of the       *)
(* workflow; c awaits a and takes linked data l; the operation of d is not *)
(* a registered one, so a run is clean only when it resumes after it.      *)
(***************************************************************************)
EXTENDS Worker, TLC

CONSTANTS a, b, c, d, x, l, o1, o2, ua, ub, uc

MCCid      == {a, b, c, d, x, l}
MCTask     == {a, b, c, d}
MCWasmRun  == {a, b, c}
MCOut      == {o1, o2}
MCSchedule == <<<<a, d>>, <<b, c>>>>
MCRsc      == (a :> <<ua>>) @@ (b :> <<ub>>) @@ (c :> <<uc, l>>) @@ (d :> <<uc>>)
MCDeps     == (a :> {}) @@ (b :> {x}) @@ (c :> {a, l}) @@ (d :> {})
MCImports  == {ReceiptOf(a, o2), ReceiptOf(d, o1)}
MCNet      == {ReceiptOf(x, o1)}
=============================================================================
