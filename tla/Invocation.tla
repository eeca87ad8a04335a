----------------------------- MODULE Invocation -----------------------------
(***************************************************************************)
(* The invocation data model of homestar-core: pointers and promises,      *)
(* inputs, instructions, tasks, workflows, invocations and invocation      *)
(* receipts, how each is written to IPLD and read back, and how inputs are *)
(* resolved.  A type T has an operator TToIpld (impl From<T> for Ipld) and *)
(* an operator TFromIpld (impl TryFrom<Ipld> for T).                       *)
(***************************************************************************)
EXTENDS Ipld

CONSTANT ResolveLinks(_, _)   \* Input::resolve_links, which module Resolution defines

-----------------------------------------------------------------------------
(* pointer.rs *)

PointerToIpld(c)   == Link(c)
PointerFromIpld(i) == from_ipld("link", i)

AwaitBranch == [Ok |-> "await/ok", Error |-> "await/error", Ptr |-> "await/*"]

\* Mutant: every promise is written as one of success.
AwaitToIpldOk(a) == Map([k \in {Lit("await/ok")} |-> PointerToIpld(a.instruction)])

AwaitToIpld(a) ==
    Map([k \in {Lit(AwaitBranch[a.result])} |-> PointerToIpld(a.instruction)])

\* A map of one entry that holds a link is a promise, whatever its key.
AwaitFromIpld(i) ==
    IF ~ Is("map", i) THEN Bad
    ELSE IF Cardinality(DOMAIN i[2]) # 1 THEN Bad
    ELSE LET key == CHOOSE k \in DOMAIN i[2] : TRUE IN
         Then(PointerFromIpld(i[2][key]), LAMBDA c :
              Good([instruction |-> c,
                    result |-> CASE key = Lit("await/ok")    -> "Ok"
                                 [] key = Lit("await/error") -> "Error"
                                 [] OTHER                    -> "Ptr"]))

-----------------------------------------------------------------------------
(* instruction_result.rs: <<branch, value>> with branch "ok", "error", "just" *)

ResultToIpld(r) == List(<<String(Lit(r[1])), r[2]>>)

ResultFromIpld(i) ==
    IF ~ Is("list", i) THEN Bad
    ELSE IF Len(i[2]) # 2 THEN Bad
    ELSE IF i[2][1] \in {String(Lit(b)) : b \in {"ok", "error", "just"}}
    THEN Good(<<i[2][1][2][2], i[2][2]>>)
    ELSE Bad

into_inner(r) == r[2]

-----------------------------------------------------------------------------
(* input.rs: <<"Ipld", i>>, <<"Deferred", await>> or <<"Arg", result>> *)

InputToIpld(v) ==
    CASE v[1] = "Ipld"     -> v[2]
      [] v[1] = "Deferred" -> AwaitToIpld(v[2])
      [] v[1] = "Arg"      -> ResultToIpld(v[2])

ArgOrIpld(i) ==
    LET r == ResultFromIpld(i) IN IF r.ok THEN <<"Arg", r.val>> ELSE <<"Ipld", i>>

\* The first await key of the map decides; other entries are dropped.
Promised(i, b) ==
    Then(PointerFromIpld(Get(i, AwaitBranch[b])), LAMBDA c :
         Good(<<"Deferred", [instruction |-> c, result |-> b]>>))

InputFromIpld(i) ==
    IF ~ Is("map", i) THEN Good(ArgOrIpld(i))
    ELSE IF Has(i, "await/ok")    THEN Promised(i, "Ok")
    ELSE IF Has(i, "await/error") THEN Promised(i, "Error")
    ELSE IF Has(i, "await/*")     THEN Promised(i, "Ptr")
    ELSE Good(ArgOrIpld(i))

ArgsToIpld(args) == List([n \in DOMAIN args |-> InputToIpld(args[n])])

ArgFromIpld(i) ==
    LET r == ResultFromIpld(i)  a == AwaitFromIpld(i) IN
    IF r.ok THEN <<"Arg", r.val>> ELSE IF a.ok THEN <<"Deferred", a.val>> ELSE <<"Ipld", i>>

ArgsFromIpld(i) ==
    Then(from_ipld("list", i), LAMBDA s : Good([n \in DOMAIN s |-> ArgFromIpld(s[n])]))

\* Mutant: promises of either result are not collected.
DeferredsOk(args) ==
    {args[n][2].instruction : n \in {m \in DOMAIN args :
        args[m][1] = "Deferred" /\ args[m][2].result = "Ok"}}

deferreds(args) ==
    {args[n][2].instruction : n \in {m \in DOMAIN args : args[m][1] = "Deferred"}}

\* The arguments that are links, in their order.
links(args) ==
    LET at  == {n \in DOMAIN args : args[n][1] = "Ipld" /\ Is("link", args[n][2])}
        nth == CHOOSE f \in [1..Cardinality(at) -> at] : \A a, b \in DOMAIN f : a < b => f[a] < f[b]
    IN  [k \in DOMAIN nth |-> args[nth[k]][2][2]]

\* lookup maps the identifiers that lookup_fn finds to their results.
ResolvePromise(a, lookup) ==
    IF a.instruction \in DOMAIN lookup THEN <<"Arg", lookup[a.instruction]>> ELSE <<"Deferred", a>>

resolve(v, lookup) ==
    CASE v[1] = "Ipld"     -> LET a == AwaitFromIpld(v[2]) IN
                              IF a.ok THEN ResolvePromise(a.val, lookup)
                                      ELSE <<"Ipld", ResolveLinks(v[2], lookup)>>
      [] v[1] = "Arg"      -> v
      [] v[1] = "Deferred" -> ResolvePromise(v[2], lookup)

resolve_args(args, lookup) == [n \in DOMAIN args |-> resolve(args[n], lookup)]

\* Parse for Input<Arg> of homestar-wasm: the function and its arguments.
parse(v) ==
    IF v[1] # "Ipld" THEN Bad
    ELSE Then(AsMap(v[2]), LAMBDA m :
         Then(Then(Field(m, "func"), LAMBDA j : from_ipld("string", j)), LAMBDA func :
         Then(Then(Field(m, "args"), ArgsFromIpld), LAMBDA args :
              Good([fun |-> func, args |-> args]))))

-----------------------------------------------------------------------------
(* nonce.rs, prf.rs, config.rs: what instructions and tasks carry *)

NonceToIpld(n) == IF n[1] = "Empty" THEN String(Lit("")) ELSE Bytes(n[2])

NonceFromIpld(i) ==
    IF ~ Is("bytes", i) THEN Good(<<"Empty">>)
    ELSE CASE Len(i[2]) = 12 -> Good(<<"Nonce96", i[2]>>)
           [] Len(i[2]) = 16 -> Good(<<"Nonce128", i[2]>>)
           [] OTHER          -> Bad

UcanPrfToIpld(prf) == List([n \in DOMAIN prf |-> Link(prf[n])])

UcanPrfFromIpld(i) ==
    IF Is("list", i) THEN Each(i[2], LAMBDA j : from_ipld("link", j)) ELSE Good(<<>>)

U64FromIpld(i) ==
    Then(from_ipld("int", i), LAMBDA n : IF n >= 0 THEN Good(n) ELSE Bad)

DefaultTime == 100000

ResourcesToIpld(r) ==
    Fields([fuel |-> OrNull(r.fuel, Integer), memory |-> OrNull(r.memory, Integer),
            time |-> OrNull(r.time, Integer)])

\* A limit that is no number is no limit; a time that is none is the default.
TimeFromIpld(j) == IF U64FromIpld(j).ok THEN U64FromIpld(j) ELSE Good(DefaultTime)

ResourcesFromIpld(i) ==
    Then(AsMap(i), LAMBDA m :
         Good([fuel   |-> Optional(m, "fuel", U64FromIpld),
               memory |-> Optional(m, "memory", U64FromIpld),
               time   |-> Optional(m, "time", TimeFromIpld)]))

-----------------------------------------------------------------------------
(* instruction.rs, task.rs, invocation.rs, workflow.rs *)

InstructionToIpld(s) ==
    Fields([rsc |-> String(s.rsc), op |-> String(s.op),
            input |-> InputToIpld(s.input), nnc |-> NonceToIpld(s.nnc)])

ResourceUrl(i) ==
    CASE Is("link", i)   -> Good(<<"ipfs", i[2]>>)
      [] Is("string", i) -> ParseUrl(i[2])
      [] OTHER           -> Bad

\* The ability is read as the string it is: Ability::from is not applied.
InstructionFromIpld(i) ==
    Then(AsMap(i), LAMBDA m :
    Then(Then(Field(m, "rsc"), ResourceUrl), LAMBDA rsc :
    Then(Then(Field(m, "op"), LAMBDA j : from_ipld("string", j)), LAMBDA op :
    Then(Then(Field(m, "input"), InputFromIpld), LAMBDA input :
    Then(IF Has(m, "nnc") THEN NonceFromIpld(Get(m, "nnc")) ELSE Good(<<"Empty">>), LAMBDA nnc :
         Good([rsc |-> rsc, op |-> op, input |-> input, nnc |-> nnc]))))))

\* RunInstruction: <<"Expanded", instruction>> or <<"Ptr", cid>>.
RunToIpld(run) == IF run[1] = "Expanded" THEN InstructionToIpld(run[2]) ELSE Link(run[2])

RunFromIpld(i) ==
    CASE Is("map", i)  -> Then(InstructionFromIpld(i), LAMBDA s : Good(<<"Expanded", s>>))
      [] Is("link", i) -> Good(<<"Ptr", i[2]>>)
      [] OTHER         -> Bad

TaskToIpld(t) ==
    Fields([run |-> RunToIpld(t.run), cause |-> OrNull(t.cause, Link),
            meta |-> t.meta, prf |-> UcanPrfToIpld(t.prf)])

TaskFromIpld(i) ==
    Then(AsMap(i), LAMBDA m :
    Then(Then(Field(m, "run"), RunFromIpld), LAMBDA run :
    Then(Field(m, "meta"), LAMBDA meta :
    Then(Then(Field(m, "prf"), UcanPrfFromIpld), LAMBDA prf :
         Good([run |-> run, cause |-> Optional(m, "cause", PointerFromIpld),
               meta |-> meta, prf |-> prf])))))

instruction_cid(t) ==
    IF t.run[1] = "Expanded" THEN to_cid(InstructionToIpld(t.run[2])) ELSE t.run[2]

InvocationToIpld(t)   == Fields([task |-> TaskToIpld(t)])
InvocationFromIpld(i) ==
    Then(AsMap(i), LAMBDA m : Then(Field(m, "task"), TaskFromIpld))

\* A workflow is the sequence of its tasks.
WorkflowToIpld(w) == Fields([tasks |-> List([n \in DOMAIN w |-> TaskToIpld(w[n])])])

WorkflowFromIpld(i) ==
    Then(AsMap(i), LAMBDA m :
    Then(Field(m, "tasks"), LAMBDA ts :
    Then(from_ipld("list", ts), LAMBDA s : Each(s, TaskFromIpld))))

-----------------------------------------------------------------------------
(* issuer.rs, receipt.rs *)

IssuerToIpld(p)   == String(<<"did", p>>)
IssuerFromIpld(i) ==
    Then(from_ipld("string", i), LAMBDA t : IF t[1] = "did" THEN Good(t[2]) ELSE Bad)

ReceiptFields(r) ==
    [ran |-> Link(r.ran), out |-> ResultToIpld(r.out), meta |-> r.meta,
     iss |-> OrNull(r.issuer, IssuerToIpld), prf |-> UcanPrfToIpld(r.prf)]

InvocationReceiptToIpld(r) == Fields(ReceiptFields(r))

InvocationReceiptFromIpld(i) ==
    Then(AsMap(i), LAMBDA m :
    Then(Then(Field(m, "ran"), PointerFromIpld), LAMBDA ran :
    Then(Then(Field(m, "out"), ResultFromIpld), LAMBDA out :
    Then(Field(m, "meta"), LAMBDA meta :
    Then(Then(Field(m, "prf"), UcanPrfFromIpld), LAMBDA prf :
         Good([ran |-> ran, out |-> out, meta |-> meta,
               issuer |-> Optional(m, "iss", IssuerFromIpld), prf |-> prf]))))))
=============================================================================
