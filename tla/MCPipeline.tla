----------------------------- MODULE MCPipeline -----------------------------
(* Small documents for Pipeline: workflows of one to three tasks. *)
EXTENDS PipelineData, TLC

MCWidth == (8 :> 2) @@ (16 :> 3) @@ (32 :> 4) @@ (64 :> 5)

Nonce12 == [n \in 1..12 |-> 0]
Nonce16 == [n \in 1..16 |-> 1]

Mod == to_cid(Bytes(<<1>>))

InstrOn(rsc, op, args, nnc) ==
    Fields([rsc |-> rsc, op |-> String(Lit(op)), nnc |-> nnc,
            input |-> Fields([func |-> String(Lit("f")), args |-> List(args)])])
InstrDoc(op, args, nnc) == InstrOn(String(<<"path", Mod>>), op, args, nnc)
TaskOf(run) == Fields([run |-> run, cause |-> Null, prf |-> List(<<>>),
                       meta |-> Fields([fuel |-> Integer(1), memory |-> Null, time |-> String(Lit("soon"))])])
FlowOf(tasks) == Fields([tasks |-> List(tasks)])

Empty == String(Lit(""))
CidOf(run) == to_cid(InstructionToIpld(InstructionFromIpld(run).val))
Outer == to_cid(Null)
Promise(key, c) == Map([k \in {Lit(key)} |-> Link(c)])

First == {InstrDoc("wasm/run", <<i>>, Empty) :
             i \in {Integer(3), Float("long"), Bytes(<<0, 1>>), Null}}

\* Arguments that refer to the task c, and plain ones.
Referring(c) == {Promise(key, c) : key \in {"await/ok", "await/*", "img"}}
                \union {Link(c), List(<<Promise("await/*", c), Link(c)>>),
                        Fields([a |-> Link(c), b |-> List(<<Promise("await/error", c)>>)])}
Plain == {Link(Outer), Promise("await/ok", Outer), List(<<>>), List(<<String(Lit("ok")), Integer(2)>>),
          String(<<"cid", Outer>>), String(<<"path", Outer>>), Fields([a |-> Integer(1), b |-> Integer(2)])}

Single == {FlowOf(<<TaskOf(InstrDoc("wasm/run", <<a>>, Bytes(Nonce12)))>>) : a \in Plain}
Double == UNION {{FlowOf(<<TaskOf(InstrDoc("wasm/run", <<a>>, Empty)), TaskOf(f)>>) :
                     a \in Referring(CidOf(f))} : f \in First}
Triple == LET f == InstrDoc("wasm/run", <<Integer(1)>>, Bytes(Nonce16))
              g == InstrDoc("wasm/run", <<Promise("await/*", CidOf(f))>>, Empty)
          IN  {FlowOf(<<TaskOf(InstrDoc("wasm/run", <<Promise("await/ok", CidOf(g))>>, Empty)),
                        TaskOf(g), TaskOf(f)>>),
               FlowOf(<<TaskOf(f), TaskOf(InstrDoc("Wasm/Run", <<>>, Empty)), TaskOf(f)>>)}

\* Other resources: one that cannot be fetched and one given as a link.
Other == {FlowOf(<<TaskOf(InstrOn(rsc, "wasm/run", <<Integer(0)>>, Empty))>>) :
             rsc \in {String(<<"bare", "mod">>), Link(Mod)}}

\* Documents that are refused, when they are read or when the graph is built.
Refused == {Null, FlowOf(<<Link(Outer)>>), FlowOf(<<TaskOf(Link(Outer))>>),
            FlowOf(<<TaskOf(InstrDoc("wasm/run", <<>>, Bytes(<<1>>)))>>),
            FlowOf(<<TaskOf(Fields([rsc |-> Link(Outer), op |-> String(Lit("wasm/run")),
                                    input |-> Promise("await/error", Outer)]))>>)}

\* A value and all its parts.
RECURSIVE PartsOf(_)
PartsOf(i) == {i} \union (IF i[1] \in {"list", "map"}
                         THEN UNION {PartsOf(i[2][n]) : n \in DOMAIN i[2]} ELSE {})

MCDoc == Single \union Double \union Triple \union Other \union Refused

MCNode == UNION {PartsOf(d) : d \in MCDoc}

MCParamType == {<<ty>> : ty \in {<<"u8">>, <<"s64">>, <<"float32">>, <<"string">>,
                                 <<"list", <<"u8">>>>, <<"list", <<"string">>>>,
                                 <<"list", <<"tuple", <<<<"string">>, <<"s64">>>>>>>>}}
MCReturned == {<<>>, <<<<"Float32", "nan">>>>, <<<<"String", <<"cid", Outer>>>>, <<"U8", 1>>>>}
MCContent == <<0, 1>>
MCFound == Outer :> <<"ok", Integer(1)>>
=============================================================================
