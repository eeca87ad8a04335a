----------------------------- MODULE WasmValue ------------------------------
(***************************************************************************)
(* How homestar-wasm turns IPLD into the values of a Wasm component and    *)
(* back (wasmtime/ipld.rs), and how a function is called with them         *)
(* (world.rs, io.rs).                                                      *)
(*                                                                         *)
(* A type is <<name>>, <<"list", element>> or <<"tuple", elements>>, and   *)
(* <<"any">> is InterfaceType::Any.  A value is <<kind, payload>>, a list  *)
(* <<"List", element type, elements>>.  Where the code panics (unwrap_list *)
(* or unwrap_tuple of another type) the conversion fails: the task ends    *)
(* either way.                                                             *)
(***************************************************************************)
EXTENDS Invocation

CONSTANT Width   \* bits of the integers of 8, 16, 32 and 64 bits, scaled

ASSUME WidthAssumption ==
    /\ Width \in [{8, 16, 32, 64} -> Nat \ {0}]
    /\ \A m, n \in {8, 16, 32, 64} : m < n => Width[m] < Width[n]

IntKind == [u8 |-> "U8", u16 |-> "U16", u32 |-> "U32", u64 |-> "U64",
            s8 |-> "S8", s16 |-> "S16", s32 |-> "S32", s64 |-> "S64"]
IntBits == [u8 |-> 8, u16 |-> 16, u32 |-> 32, u64 |-> 64,
            s8 |-> 8, s16 |-> 16, s32 |-> 32, s64 |-> 64]
Unsigned == {"u8", "u16", "u32", "u64"}

IntRange(name) ==
    LET w == Width[IntBits[name]] IN
    IF name \in Unsigned THEN 0 .. 2^w - 1 ELSE -(2^(w - 1)) .. 2^(w - 1) - 1

\* From<&Type>: only these types are looked at, others stand for Any.
InterfaceType(ty) ==
    IF ty[1] \in {"list", "record", "float32", "float64"} \union DOMAIN IntKind
    THEN ty ELSE <<"any">>

\* wasmtime's check of a value against a type.
RECURSIVE HasType(_, _)
HasType(v, ty) ==
    CASE v[1] = "List"  -> ty = <<"list", v[2]>>
      [] v[1] = "Tuple" -> /\ ty[1] = "tuple" /\ Len(ty[2]) = Len(v[2])
                           /\ \A n \in DOMAIN v[2] : HasType(v[2][n], ty[2][n])
      [] OTHER -> IF ty[1] \in DOMAIN IntKind THEN v[1] = IntKind[ty[1]]
                  ELSE <<v[1], ty[1]>> \in {<<"String", "string">>, <<"Bool", "bool">>,
                                            <<"Char", "char">>, <<"Float32", "float32">>,
                                            <<"Float64", "float64">>}

\* types::List::new_val and types::Tuple::new_val.
NewList(ty, s) ==
    IF \A n \in DOMAIN s : HasType(s[n], ty) THEN Good(<<"List", ty, s>>) ELSE Bad
NewTuple(tys, s) == IF HasType(<<"Tuple", s>>, <<"tuple", tys>>) THEN Good(<<"Tuple", s>>) ELSE Bad

\* v as f32: a number of too many digits is rounded.
F32(x) == IF x = "long" THEN "rounded" ELSE x

IntVal(n, ty) ==
    LET name == IF ty = <<"any">> THEN "s64" ELSE ty[1] IN
    IF name \in DOMAIN IntKind /\ n \in IntRange(name) THEN Good(<<IntKind[name], n>>) ELSE Bad

\* Mutant: a string is encoded like bytes.
TextEncoded(i) == IF Is("link", i) THEN <<"cid", i[2]>> ELSE <<"b64", i[2]>>

\* Base::Base64.encode, and to_string_of_base of an identifier.
Text(i) == CASE Is("bytes", i) -> <<"b64", i[2]>>
             [] Is("link", i)  -> <<"cid", i[2]>>
             [] OTHER          -> i[2]

\* The entries of a map in one fixed order, as BTreeMap has one.
KeyOrder(f) == CHOOSE s \in [1..Cardinality(DOMAIN f) -> DOMAIN f] :
                  \A k \in DOMAIN f : \E n \in DOMAIN s : s[n] = k

\* RuntimeVal::try_from.
RECURSIVE RuntimeVal(_, _)
RuntimeVal(i, ty) ==
    CASE Is("null", i) -> IF ty[1] \in {"string", "any"} THEN Good(<<"String", Lit("null")>>) ELSE Bad
      [] Is("bool", i) -> IF ty[1] \in {"bool", "any"} THEN Good(<<"Bool", i[2]>>) ELSE Bad
      [] Is("int", i)  -> IntVal(i[2], ty)
      [] Is("float", i) -> Good(IF ty = <<"float32">> THEN <<"Float32", F32(i[2])>>
                                                      ELSE <<"Float64", i[2]>>)
      [] Is("bytes", i) /\ ty[1] = "list" ->
            NewList(ty[2], [n \in DOMAIN i[2] |-> <<"U8", i[2][n]>>])
      [] Is("list", i) /\ ty[1] = "list" ->
            Then(Each(i[2], LAMBDA j : RuntimeVal(j, ty[2])), LAMBDA s : NewList(ty[2], s))
      [] Is("list", i) -> IF i[2] = <<>> THEN Good(<<"Bool", FALSE>>) ELSE RuntimeVal(i[2][1], ty)
      [] Is("map", i) ->
            IF ty[1] # "list" THEN Bad
            ELSE IF ty[2][1] # "tuple" THEN Bad
            ELSE IF Len(ty[2][2]) < 2 THEN Bad
            ELSE Then(Each(KeyOrder(i[2]), LAMBDA k :
                           Then(RuntimeVal(i[2][k], ty[2][2][2]), LAMBDA v :
                                NewTuple(ty[2][2], <<<<"String", k>>, v>>))),
                      LAMBDA s : NewList(ty[2], s))
      [] OTHER -> Good(<<"String", Text(i)>>)

\* A value of kind String: "null" and the text of an identifier are not texts.
StringIpld(t) ==
    IF t = Lit("null") THEN Null
    ELSE IF ParseCid(t).ok THEN Link(ParseCid(t).val) ELSE String(t)

\* impl TryFrom<RuntimeVal> for Ipld.  Later entries of a key replace earlier ones.
RECURSIVE IpldFromVal(_)
IpldFromVal(v) ==
    CASE v[1] = "Char"    -> Good(String(v[2]))
      [] v[1] = "String"  -> Good(StringIpld(v[2]))
      [] v[1] = "Bool"    -> Good(Bool(v[2]))
      [] v[1] = "Float32" -> IF v[2] = "nan" THEN Bad ELSE Good(Float(v[2]))
      [] v[1] = "Float64" -> Good(Float(v[2]))
      [] v[1] = "List" /\ v[2][1] = "tuple" ->
            IF \E n \in DOMAIN v[3] : Len(v[3][n][2]) # 2 \/ v[3][n][2][1][1] # "String" THEN Bad
            ELSE Then(Each(v[3], LAMBDA e : IpldFromVal(e[2][2])), LAMBDA s :
                      LET Key(n) == v[3][n][2][1][2]
                          Last(k) == CHOOSE n \in DOMAIN s :
                                        Key(n) = k /\ \A m \in DOMAIN s : Key(m) = k => m <= n
                      IN  Good(Map([k \in {Key(n) : n \in DOMAIN s} |-> s[Last(k)]])))
      [] v[1] = "List" ->
            IF v[3] = <<>> THEN Good(List(<<>>))
            ELSE IF v[3][1][1] = "U8" THEN Good(Bytes([n \in DOMAIN v[3] |-> v[3][n][2]]))
            ELSE Then(Each(v[3], IpldFromVal), LAMBDA s : Good(List(s)))
      [] v[1] \in {IntKind[name] : name \in DOMAIN IntKind} -> Good(Integer(v[2]))
      [] OTHER -> Bad

-----------------------------------------------------------------------------
\* One argument of Env::execute.
Param(v, ty) ==
    CASE v[1] = "Ipld" -> RuntimeVal(v[2], InterfaceType(ty))
      [] v[1] = "Arg"  -> RuntimeVal(into_inner(v[2]), InterfaceType(ty))
      [] OTHER         -> Bad

\* The zip of types and arguments, and the check call_async makes of it:
\* superfluous arguments are dropped, missing ones refuse the call.
Params(args, types) ==
    IF Len(args) < Len(types) THEN Bad
    ELSE LET vals == [n \in DOMAIN types |-> Param(args[n], types[n])] IN
         IF \A n \in DOMAIN types : vals[n].ok /\ HasType(vals[n].val, types[n])
         THEN Good([n \in DOMAIN types |-> vals[n].val]) ELSE Bad

\* impl TryFrom<Output> for Ipld: the values a function returned.
IpldFromOutput(vals) ==
    CASE Len(vals) = 0 -> Good(Null)
      [] Len(vals) = 1 -> IpldFromVal(vals[1])
      [] OTHER         -> Then(Each(vals, IpldFromVal), LAMBDA s : Good(List(s)))
=============================================================================
