-------------------------- MODULE Pipeline_proofs ---------------------------
(***************************************************************************)
(* Proofs about Pipeline: for every document, every result found elsewhere *)
(* and every conversion of nested values, workflows are read back as they  *)
(* are, promises are kept by the schedule, resources are fetched before    *)
(* they are used, and receipts arrive as they have been sent.              *)
(***************************************************************************)
EXTENDS Pipeline, FiniteSetTheorems, WellFoundedInduction, TLAPS

-----------------------------------------------------------------------------
(* Maps made of records *)

\* The map Fields makes has the keys of the record (a struct's field names).
LEMMA FieldsHas ==
    ASSUME NEW r, NEW s
    PROVE  Has(Fields(r), s) <=> s \in DOMAIN r
  BY DEF Has, Fields, Map, Lit

\* Under each of them it has the value of the field.
LEMMA FieldsGet ==
    ASSUME NEW r, NEW s \in DOMAIN r
    PROVE  Get(Fields(r), s) = r[s]
  BY DEF Get, Fields, Map, Lit

\* It is a map to those that look at it.
LEMMA FieldsMap ==
    ASSUME NEW r
    PROVE  Is("map", Fields(r)) /\ AsMap(Fields(r)) = Good(Fields(r))
  BY DEF Is, AsMap, Fields, Map

\* A field that is there is read, one that is not is an error (ok_or_else).
LEMMA FieldsField ==
    ASSUME NEW r, NEW s
    PROVE  Field(Fields(r), s) = IF s \in DOMAIN r THEN Good(r[s]) ELSE Bad
  BY FieldsHas, FieldsGet DEF Field

\* What a good outcome holds.
LEMMA GoodVal ==
    ASSUME NEW v
    PROVE  Good(v).ok /\ Good(v).val = v /\ ~ Bad.ok /\ Good(v) # Bad
  BY DEF Good, Bad

\* Outcomes that are the same hold the same.
LEMMA GoodSame ==
    ASSUME NEW u, NEW v, Good(u) = Good(v)
    PROVE  u = v
  BY DEF Good

-----------------------------------------------------------------------------
(* Inputs: what has been read is written and read back as it is *)

\* The branches of an instruction's result.
Branch == {"ok", "error", "just"}

\* A result read from IPLD is of one of the branches.
LEMMA ResultShape ==
    ASSUME NEW i, ResultFromIpld(i).ok
    PROVE  \E b \in Branch : \E v : ResultFromIpld(i) = Good(<<b, v>>)
<1>1. /\ i[2][1] \in {String(Lit(b)) : b \in Branch}
      /\ ResultFromIpld(i) = Good(<<i[2][1][2][2], i[2][2]>>)
  BY GoodVal DEF ResultFromIpld, Branch
<1>2. PICK b \in Branch : i[2][1] = String(Lit(b))
  BY <1>1
<1>3. i[2][1][2][2] = b
  BY <1>2 DEF String, Lit
<1> QED BY Zenon, <1>1, <1>3

\* A result written by From<InstructionResult> is read as the same result.
LEMMA ResultBack ==
    ASSUME NEW b \in Branch, NEW v
    PROVE  /\ ResultFromIpld(ResultToIpld(<<b, v>>)) = Good(<<b, v>>)
           /\ Is("list", ResultToIpld(<<b, v>>))
  BY DEF ResultFromIpld, ResultToIpld, Branch, String, Lit, List, Is

\* A result that is not a list is none: a map or a link is never taken for one.
LEMMA ResultIsList ==
    ASSUME NEW i, ~ Is("list", i)
    PROVE  ResultFromIpld(i) = Bad
  BY DEF ResultFromIpld

\* The key of each kind of promise (OK_BRANCH, ERR_BRANCH, PTR_BRANCH).
LEMMA Branches ==
    /\ AwaitBranch["Ok"] = "await/ok"
    /\ AwaitBranch["Error"] = "await/error"
    /\ AwaitBranch["Ptr"] = "await/*"
  BY DEF AwaitBranch

\* What the map of a promise holds.
LEMMA AwaitMap ==
    ASSUME NEW c, NEW b \in {"Ok", "Error", "Ptr"}
    PROVE  LET m == AwaitToIpld([instruction |-> c, result |-> b]) IN
           /\ Is("map", m)
           /\ \A s : Has(m, s) <=> s = AwaitBranch[b]
           /\ Get(m, AwaitBranch[b]) = Link(c)
  BY DEF AwaitToIpld, Map, Is, Has, Get, Lit, PointerToIpld

\* A promise written by From<Await> is read as the same promise.
LEMMA AwaitBack ==
    ASSUME NEW c, NEW b \in {"Ok", "Error", "Ptr"}
    PROVE  InputFromIpld(AwaitToIpld([instruction |-> c, result |-> b]))
             = Good(<<"Deferred", [instruction |-> c, result |-> b]>>)
<1> DEFINE m == AwaitToIpld([instruction |-> c, result |-> b])
<1>1. /\ Is("map", m)
      /\ \A s : Has(m, s) <=> s = AwaitBranch[b]
      /\ Get(m, AwaitBranch[b]) = Link(c)
  BY Zenon, AwaitMap
<1>2. PointerFromIpld(Link(c)) = Good(c)
  BY DEF PointerFromIpld, from_ipld, Link, Is
<1>3. Promised(m, b) = Good(<<"Deferred", [instruction |-> c, result |-> b]>>)
  BY <1>1, <1>2, GoodVal DEF Promised, Then
<1> HIDE DEF m
<1>4. InputFromIpld(m) = Promised(m, b)
  <2>1. CASE b = "Ok"    BY <2>1, <1>1, Branches DEF InputFromIpld
  <2>2. CASE b = "Error" BY <2>2, <1>1, Branches DEF InputFromIpld
  <2>3. CASE b = "Ptr"   BY <2>3, <1>1, Branches DEF InputFromIpld
  <2> QED BY <2>1, <2>2, <2>3
<1> QED BY <1>3, <1>4 DEF m

\* An input that is not a promise is a result or plain IPLD, and stays it.
LEMMA ArgOrIpldBack ==
    ASSUME NEW i,
           InputFromIpld(i) = Good(ArgOrIpld(i))
    PROVE  InputFromIpld(InputToIpld(ArgOrIpld(i))) = Good(ArgOrIpld(i))
<1>1. CASE ResultFromIpld(i).ok
  <2>1. PICK b, v : b \in Branch /\ ResultFromIpld(i) = Good(<<b, v>>)
    BY Zenon, <1>1, ResultShape
  <2>2. ArgOrIpld(i) = <<"Arg", <<b, v>>>>
    BY <2>1, GoodVal DEF ArgOrIpld
  <2>3. InputToIpld(ArgOrIpld(i)) = ResultToIpld(<<b, v>>)
    BY <2>2 DEF InputToIpld
  <2>4. ~ Is("map", ResultToIpld(<<b, v>>))
    BY <2>1, ResultBack DEF Is
  <2>5. ArgOrIpld(ResultToIpld(<<b, v>>)) = <<"Arg", <<b, v>>>>
    BY <2>1, ResultBack, GoodVal DEF ArgOrIpld
  <2> QED BY <2>2, <2>3, <2>4, <2>5 DEF InputFromIpld
<1>2. CASE ~ ResultFromIpld(i).ok
  <2>1. ArgOrIpld(i) = <<"Ipld", i>>
    BY <1>2 DEF ArgOrIpld
  <2>2. InputToIpld(ArgOrIpld(i)) = i
    BY <2>1 DEF InputToIpld
  <2> QED BY <2>2
<1> QED BY <1>1, <1>2

\* A promise read from a map names its kind and a pointer.
LEMMA PromisedShape ==
    ASSUME NEW i, NEW b, Promised(i, b).ok
    PROVE  \E c : Promised(i, b) = Good(<<"Deferred", [instruction |-> c, result |-> b]>>)
  BY Zenon, GoodVal DEF Promised, Then

\* An input that has been read (TryFrom<Ipld> for Input) and is written
\* (From<Input> for Ipld) is read as the same input.
LEMMA InputBack ==
    ASSUME NEW i, NEW v, InputFromIpld(i) = Good(v)
    PROVE  InputFromIpld(InputToIpld(v)) = Good(v)
<1>1. \/ InputFromIpld(i) = Good(ArgOrIpld(i))
      \/ \E b \in {"Ok", "Error", "Ptr"} : InputFromIpld(i) = Promised(i, b)
  BY DEF InputFromIpld
<1>2. CASE InputFromIpld(i) = Good(ArgOrIpld(i))
  <2>1. v = ArgOrIpld(i)
    BY Zenon, <1>2, GoodVal
  <2> QED BY <1>2, <2>1, ArgOrIpldBack
<1>3. ASSUME NEW b \in {"Ok", "Error", "Ptr"}, InputFromIpld(i) = Promised(i, b)
      PROVE  InputFromIpld(InputToIpld(v)) = Good(v)
  <2>1. PICK c : Promised(i, b) = Good(<<"Deferred", [instruction |-> c, result |-> b]>>)
    BY Zenon, <1>3, PromisedShape, GoodVal
  <2>2. v = <<"Deferred", [instruction |-> c, result |-> b]>>
    BY Zenon, <1>3, <2>1, GoodVal
  <2>3. InputToIpld(v) = AwaitToIpld([instruction |-> c, result |-> b])
    BY <2>2 DEF InputToIpld
  <2> QED BY Zenon, <2>2, <2>3, AwaitBack
<1> QED BY <1>1, <1>2, <1>3

-----------------------------------------------------------------------------
(* Instructions, tasks and workflows *)

\* A nonce that has been read is read back as it is.
LEMMA NonceBack ==
    ASSUME NEW i, NEW n, NonceFromIpld(i) = Good(n)
    PROVE  NonceFromIpld(NonceToIpld(n)) = Good(n)
<1>1. \/ n = <<"Empty">>
      \/ n = <<"Nonce96", i[2]>> /\ Len(i[2]) = 12
      \/ n = <<"Nonce128", i[2]>> /\ Len(i[2]) = 16
  BY GoodVal DEF NonceFromIpld
<1>2. CASE n = <<"Empty">>
  BY <1>2 DEF NonceFromIpld, NonceToIpld, String, Is
<1>3. CASE n = <<"Nonce96", i[2]>> /\ Len(i[2]) = 12
  BY <1>3 DEF NonceFromIpld, NonceToIpld, Bytes, Is
<1>4. CASE n = <<"Nonce128", i[2]>> /\ Len(i[2]) = 16
  BY <1>4 DEF NonceFromIpld, NonceToIpld, Bytes, Is
<1> QED BY <1>1, <1>2, <1>3, <1>4

\* A list of links is read element by element.
LEMMA LinksBack ==
    ASSUME NEW s, s = [n \in DOMAIN s |-> s[n]]
    PROVE  UcanPrfFromIpld(UcanPrfToIpld(s)) = Good(s)
<1> DEFINE t == [n \in DOMAIN s |-> Link(s[n])]
<1>1. DOMAIN t = DOMAIN s /\ \A n \in DOMAIN s : t[n] = Link(s[n])
  OBVIOUS
<1>2. \A n \in DOMAIN s : from_ipld("link", Link(s[n])) = Good(s[n])
  BY DEF from_ipld, Link, Is
<1>3. UcanPrfToIpld(s) = <<"list", t>>
  BY DEF UcanPrfToIpld, List
<1> HIDE DEF t
<1>4. \A n \in DOMAIN t : from_ipld("link", t[n]).ok
  BY <1>1, <1>2, GoodVal
<1>5. [n \in DOMAIN t |-> from_ipld("link", t[n]).val] = [n \in DOMAIN s |-> s[n]]
  BY <1>1, <1>2, GoodVal
<1> QED BY <1>3, <1>4, <1>5 DEF UcanPrfFromIpld, Each, Is

\* Proofs that have been read are a sequence of pointers, or none.
LEMMA PrfShape ==
    ASSUME NEW i, NEW s, UcanPrfFromIpld(i) = Good(s)
    PROVE  s = [n \in DOMAIN s |-> s[n]]
<1>1. CASE Is("list", i)
  <2> DEFINE out == [n \in DOMAIN i[2] |-> from_ipld("link", i[2][n])]
  <2>1. s = [n \in DOMAIN i[2] |-> out[n].val]
    BY <1>1, GoodVal DEF UcanPrfFromIpld, Each
  <2> HIDE DEF out
  <2> QED BY <2>1
<1>2. CASE ~ Is("list", i)
  <2>1. s = <<>>
    BY <1>2, GoodVal DEF UcanPrfFromIpld
  <2> QED BY <2>1
<1> QED BY <1>1, <1>2

\* The resource of an instruction that has been read is a URL in normal form,
\* which Url::parse leaves as it is.
UrlKind == {"url", "ipfs", "path"}

\* The resource of an instruction that has been read is in normal form.
LEMMA ResourceShape ==
    ASSUME NEW i, NEW rsc, ResourceUrl(i) = Good(rsc)
    PROVE  rsc[1] \in UrlKind
<1>1. \/ ResourceUrl(i) = Good(<<"ipfs", i[2]>>)
      \/ ResourceUrl(i) = ParseUrl(i[2])
  BY GoodVal DEF ResourceUrl
<1>2. \/ rsc = <<"ipfs", i[2]>>
      \/ rsc = i[2] /\ i[2][1] \in UrlKind
      \/ rsc = <<"url", i[2][2]>>
  BY <1>1, GoodSame, GoodVal DEF ParseUrl, UrlKind
<1> QED BY <1>2 DEF UrlKind

\* In that form it is written (rsc of an instruction) and read back as it is.
LEMMA ResourceBack ==
    ASSUME NEW rsc, rsc[1] \in UrlKind
    PROVE  ParseUrl(rsc) = Good(rsc) /\ ResourceUrl(String(rsc)) = Good(rsc)
  BY DEF ParseUrl, ResourceUrl, String, Is, UrlKind

\* A conversion that succeeds is a good outcome of its value.
Sound(r) == r.ok => r = Good(r.val)

\* The conversions of the parts of instructions and tasks are of this kind.
LEMMA SoundParts ==
    ASSUME NEW i
    PROVE  /\ Sound(ResourceUrl(i))
           /\ Sound(InputFromIpld(i))
           /\ Sound(NonceFromIpld(i))
           /\ Sound(UcanPrfFromIpld(i))
<1>1. Sound(Bad) /\ \A v : Sound(Good(v))
  BY GoodVal DEF Sound
<1>2. Sound(ResourceUrl(i))
  BY <1>1 DEF ResourceUrl, ParseUrl
<1>3. \A b : Sound(Promised(i, b))
  BY <1>1 DEF Promised, Then
<1>4. Sound(InputFromIpld(i))
  BY <1>1, <1>3 DEF InputFromIpld
<1>5. Sound(NonceFromIpld(i))
  BY <1>1 DEF NonceFromIpld
<1>6. Sound(UcanPrfFromIpld(i))
  BY <1>1 DEF UcanPrfFromIpld, Each
<1> QED BY <1>2, <1>4, <1>5, <1>6

\* What the fields of an instruction that has been read come from.
LEMMA InstructionParts ==
    ASSUME NEW i, NEW s, InstructionFromIpld(i) = Good(s)
    PROVE  /\ s = [rsc |-> s.rsc, op |-> s.op, input |-> s.input, nnc |-> s.nnc]
           /\ \E j : ResourceUrl(j) = Good(s.rsc)
           /\ Is("map", i) /\ Has(i, "input") /\ InputFromIpld(Get(i, "input")) = Good(s.input)
           /\ \/ s.nnc = <<"Empty">>
              \/ \E j : NonceFromIpld(j) = Good(s.nnc)
<1> DEFINE rsc == IF Field(i, "rsc").ok THEN ResourceUrl(Field(i, "rsc").val) ELSE Bad
           op == IF Field(i, "op").ok THEN from_ipld("string", Field(i, "op").val) ELSE Bad
           input == IF Field(i, "input").ok THEN InputFromIpld(Field(i, "input").val) ELSE Bad
           nnc == IF Has(i, "nnc") THEN NonceFromIpld(Get(i, "nnc")) ELSE Good(<<"Empty">>)
<1>1. InstructionFromIpld(i) =
        IF Is("map", i) /\ rsc.ok /\ op.ok /\ input.ok /\ nnc.ok
        THEN Good([rsc |-> rsc.val, op |-> op.val, input |-> input.val, nnc |-> nnc.val])
        ELSE Bad
  BY GoodVal, Zenon DEF InstructionFromIpld, Then, AsMap
<1> HIDE DEF rsc, op, input, nnc
<1>2. Is("map", i) /\ rsc.ok /\ op.ok /\ input.ok /\ nnc.ok
  BY Zenon, <1>1, GoodVal
<1>3. s = [rsc |-> rsc.val, op |-> op.val, input |-> input.val, nnc |-> nnc.val]
  BY Zenon, <1>1, <1>2, GoodSame
<1>4. ResourceUrl(Field(i, "rsc").val) = Good(s.rsc)
  <2>1. rsc = ResourceUrl(Field(i, "rsc").val)
    BY <1>2, GoodVal DEF rsc
  <2> QED BY <2>1, <1>2, <1>3, SoundParts DEF Sound
<1>5. Has(i, "input") /\ InputFromIpld(Get(i, "input")) = Good(s.input)
  <2>1. Field(i, "input").ok /\ input = InputFromIpld(Field(i, "input").val)
    BY <1>2, GoodVal DEF input
  <2>2. Has(i, "input") /\ Field(i, "input").val = Get(i, "input")
    BY <2>1, GoodVal DEF Field
  <2> QED BY <2>1, <2>2, <1>2, <1>3, SoundParts DEF Sound
<1>6. s.nnc = <<"Empty">> \/ NonceFromIpld(Get(i, "nnc")) = Good(s.nnc)
  <2>1. nnc = NonceFromIpld(Get(i, "nnc")) \/ nnc = Good(<<"Empty">>)
    BY DEF nnc
  <2> QED BY <2>1, <1>2, <1>3, SoundParts, GoodVal DEF Sound
<1> QED BY <1>2, <1>3, <1>4, <1>5, <1>6

\* So is that of an instruction (Instruction::try_from).
LEMMA SoundInstruction ==
    ASSUME NEW i
    PROVE  Sound(InstructionFromIpld(i))
<1>1. Sound(Bad) /\ \A v : Sound(Good(v))
  BY GoodVal DEF Sound
<1> QED BY <1>1, Zenon DEF InstructionFromIpld, Then, AsMap

\* An instruction that has been read is written and read back as it is, so
\* that two instructions with one identifier (to_cid) are one instruction.
LEMMA InstructionBack ==
    ASSUME NEW i, NEW s, InstructionFromIpld(i) = Good(s)
    PROVE  /\ InstructionFromIpld(InstructionToIpld(s)) = Good(s)
           /\ Is("map", InstructionToIpld(s))
<1> DEFINE r == [rsc |-> String(s.rsc), op |-> String(s.op),
                 input |-> InputToIpld(s.input), nnc |-> NonceToIpld(s.nnc)]
           m == InstructionToIpld(s)
<1>1. /\ s = [rsc |-> s.rsc, op |-> s.op, input |-> s.input, nnc |-> s.nnc]
      /\ ResourceUrl(String(s.rsc)) = Good(s.rsc)
      /\ InputFromIpld(InputToIpld(s.input)) = Good(s.input)
      /\ NonceFromIpld(NonceToIpld(s.nnc)) = Good(s.nnc)
  <2>1. \E j : ResourceUrl(j) = Good(s.rsc)
    BY InstructionParts, Zenon
  <2>2. \E j : InputFromIpld(j) = Good(s.input)
    BY InstructionParts, Zenon
  <2>3. s.nnc = <<"Empty">> \/ \E j : NonceFromIpld(j) = Good(s.nnc)
    BY InstructionParts, Zenon
  <2>4. NonceFromIpld(NonceToIpld(<<"Empty">>)) = Good(<<"Empty">>)
    BY DEF NonceFromIpld, NonceToIpld, String, Is
  <2>5. s = [rsc |-> s.rsc, op |-> s.op, input |-> s.input, nnc |-> s.nnc]
    BY InstructionParts, Zenon
  <2> QED BY <2>1, <2>2, <2>3, <2>4, <2>5, ResourceShape, ResourceBack, InputBack, NonceBack
<1>2. from_ipld("string", String(s.op)) = Good(s.op)
  BY DEF from_ipld, String, Is
<1>3. /\ Field(m, "rsc") = Good(String(s.rsc))
      /\ Field(m, "op") = Good(String(s.op))
      /\ Field(m, "input") = Good(InputToIpld(s.input))
      /\ Has(m, "nnc") /\ Get(m, "nnc") = NonceToIpld(s.nnc)
      /\ Is("map", m) /\ AsMap(m) = Good(m)
  <2>1. m = Fields(r)
    BY DEF InstructionToIpld
  <2>2. DOMAIN r = {"rsc", "op", "input", "nnc"}
    OBVIOUS
  <2>3. /\ r["rsc"] = String(s.rsc) /\ r["op"] = String(s.op)
        /\ r["input"] = InputToIpld(s.input) /\ r["nnc"] = NonceToIpld(s.nnc)
    OBVIOUS
  <2> HIDE DEF r, m
  <2> QED BY <2>1, <2>2, <2>3, FieldsField, FieldsHas, FieldsGet, FieldsMap
<1> HIDE DEF m
<1>4. InstructionFromIpld(m)
        = Good([rsc |-> s.rsc, op |-> s.op, input |-> s.input, nnc |-> s.nnc])
  BY <1>1, <1>2, <1>3, GoodVal DEF InstructionFromIpld, Then
<1> QED BY <1>1, <1>3, <1>4 DEF m

\* The instruction of a task that has been read, or the pointer to one, is read
\* back as it is.
LEMMA RunBack ==
    ASSUME NEW i, NEW run, RunFromIpld(i) = Good(run)
    PROVE  RunFromIpld(RunToIpld(run)) = Good(run)
<1>1. CASE Is("map", i)
  <2>1. RunFromIpld(i) = IF InstructionFromIpld(i).ok
                         THEN Good(<<"Expanded", InstructionFromIpld(i).val>>) ELSE Bad
    BY <1>1 DEF RunFromIpld, Then, Is
  <2>2. InstructionFromIpld(i).ok /\ run = <<"Expanded", InstructionFromIpld(i).val>>
    BY Zenon, <2>1, GoodVal, GoodSame
  <2>3. PICK s : InstructionFromIpld(i) = Good(s) /\ run = <<"Expanded", s>>
    BY <2>2, SoundInstruction DEF Sound
  <2>4. RunToIpld(run) = InstructionToIpld(s)
    BY <2>3 DEF RunToIpld
  <2>5. /\ InstructionFromIpld(InstructionToIpld(s)) = Good(s)
        /\ Is("map", InstructionToIpld(s))
    BY <2>3, InstructionBack
  <2>6. ~ Is("link", InstructionToIpld(s))
    BY <2>5 DEF Is
  <2> QED BY <2>6, <2>3, <2>4, <2>5, GoodVal DEF RunFromIpld, Then
<1>2. CASE Is("link", i)
  <2>1. run = <<"Ptr", i[2]>>
    BY <1>2, GoodSame DEF RunFromIpld, Is
  <2> QED BY <2>1 DEF RunFromIpld, RunToIpld, Link, Is
<1> QED BY <1>1, <1>2, GoodVal DEF RunFromIpld

\* So are those of a run and of a task (RunInstruction and Task::try_from).
LEMMA SoundTask ==
    ASSUME NEW i
    PROVE  Sound(RunFromIpld(i)) /\ Sound(TaskFromIpld(i))
<1>1. Sound(Bad) /\ \A v : Sound(Good(v))
  BY GoodVal DEF Sound
<1>2. Sound(RunFromIpld(i))
  BY <1>1 DEF RunFromIpld, Then
<1>3. Sound(TaskFromIpld(i))
  BY <1>1, Zenon DEF TaskFromIpld, Then, AsMap
<1> QED BY <1>2, <1>3

\* A pointer that may be missing, as it is written and read back.
LEMMA CauseBack ==
    ASSUME NEW m, NEW s, NEW o, o = None \/ \E c : o = Some(c),
           Has(m, s), Get(m, s) = OrNull(o, Link)
    PROVE  Optional(m, s, PointerFromIpld) = o
<1>1. CASE o = None
  BY <1>1 DEF OrNull, Optional
<1>2. ASSUME NEW c, o = Some(c) PROVE Optional(m, s, PointerFromIpld) = o
  <2>1. o # None /\ o[1] = c
    BY <1>2 DEF None, Some
  <2>2. Get(m, s) = Link(c) /\ Link(c) # Null
    BY <2>1 DEF OrNull, Link, Null
  <2>3. PointerFromIpld(Link(c)) = Good(c)
    BY Zenon DEF PointerFromIpld, from_ipld, Link, Is
  <2> QED BY <1>2, <2>2, <2>3, GoodVal DEF Optional
<1> QED BY <1>1, <1>2

\* What the fields of a task that has been read come from.
LEMMA TaskParts ==
    ASSUME NEW i, NEW t, TaskFromIpld(i) = Good(t)
    PROVE  /\ t = [run |-> t.run, cause |-> t.cause, meta |-> t.meta, prf |-> t.prf]
           /\ Is("map", i) /\ Has(i, "run") /\ RunFromIpld(Get(i, "run")) = Good(t.run)
           /\ t.cause = None \/ \E c : t.cause = Some(c)
           /\ \E j : UcanPrfFromIpld(j) = Good(t.prf)
<1> DEFINE run == IF Field(i, "run").ok THEN RunFromIpld(Field(i, "run").val) ELSE Bad
           meta == Field(i, "meta")
           prf == IF Field(i, "prf").ok THEN UcanPrfFromIpld(Field(i, "prf").val) ELSE Bad
           cause == Optional(i, "cause", PointerFromIpld)
<1>1. TaskFromIpld(i) =
        IF Is("map", i) /\ run.ok /\ meta.ok /\ prf.ok
        THEN Good([run |-> run.val, cause |-> cause, meta |-> meta.val, prf |-> prf.val])
        ELSE Bad
  BY GoodVal, Zenon DEF TaskFromIpld, Then, AsMap, Optional
<1>2. cause = None \/ \E c : cause = Some(c)
  BY DEF Optional
<1> HIDE DEF run, meta, prf, cause
<1>3. Is("map", i) /\ run.ok /\ meta.ok /\ prf.ok
  BY Zenon, <1>1, GoodVal
<1>4. t = [run |-> run.val, cause |-> cause, meta |-> meta.val, prf |-> prf.val]
  BY Zenon, <1>1, <1>3, GoodVal, GoodSame
<1>5. Has(i, "run") /\ RunFromIpld(Get(i, "run")) = Good(t.run)
  <2>1. Field(i, "run").ok /\ run = RunFromIpld(Field(i, "run").val)
    BY <1>3, GoodVal DEF run
  <2>2. Has(i, "run") /\ Field(i, "run").val = Get(i, "run")
    BY <2>1, GoodVal DEF Field
  <2> QED BY <2>1, <2>2, <1>3, <1>4, SoundTask DEF Sound
<1>6. UcanPrfFromIpld(Field(i, "prf").val) = Good(t.prf)
  <2>1. prf = UcanPrfFromIpld(Field(i, "prf").val)
    BY <1>3, GoodVal DEF prf
  <2> QED BY <2>1, <1>3, <1>4, SoundParts DEF Sound
<1> QED BY <1>2, <1>3, <1>4, <1>5, <1>6

\* A task that has been read is written and read back as it is.
LEMMA TaskBack ==
    ASSUME NEW i, NEW t, TaskFromIpld(i) = Good(t)
    PROVE  TaskFromIpld(TaskToIpld(t)) = Good(t)
<1> DEFINE r == [run |-> RunToIpld(t.run), cause |-> OrNull(t.cause, Link),
                 meta |-> t.meta, prf |-> UcanPrfToIpld(t.prf)]
           m == TaskToIpld(t)
<1>1. t = [run |-> t.run, cause |-> t.cause, meta |-> t.meta, prf |-> t.prf]
  BY TaskParts, Zenon
<1>2. RunFromIpld(RunToIpld(t.run)) = Good(t.run)
  <2>1. \E j : RunFromIpld(j) = Good(t.run)
    BY TaskParts, Zenon
  <2> QED BY <2>1, RunBack
<1>3. UcanPrfFromIpld(UcanPrfToIpld(t.prf)) = Good(t.prf)
  <2>1. \E j : UcanPrfFromIpld(j) = Good(t.prf)
    BY TaskParts, Zenon
  <2>2. t.prf = [n \in DOMAIN t.prf |-> t.prf[n]]
    BY <2>1, PrfShape, Zenon
  <2> QED BY <2>2, LinksBack, Zenon
<1>4. /\ Field(m, "run") = Good(RunToIpld(t.run))
      /\ Field(m, "meta") = Good(t.meta)
      /\ Field(m, "prf") = Good(UcanPrfToIpld(t.prf))
      /\ Has(m, "cause") /\ Get(m, "cause") = OrNull(t.cause, Link)
      /\ AsMap(m) = Good(m)
  <2>1. m = Fields(r)
    BY DEF TaskToIpld
  <2>2. DOMAIN r = {"run", "cause", "meta", "prf"}
    BY DEF OrNull
  <2>3. /\ r["run"] = RunToIpld(t.run) /\ r["cause"] = OrNull(t.cause, Link)
        /\ r["meta"] = t.meta /\ r["prf"] = UcanPrfToIpld(t.prf)
    BY DEF OrNull
  <2> HIDE DEF r, m
  <2> QED BY <2>1, <2>2, <2>3, FieldsField, FieldsHas, FieldsGet, FieldsMap
<1> HIDE DEF m
<1>5. Optional(m, "cause", PointerFromIpld) = t.cause
  <2>1. t.cause = None \/ \E c : t.cause = Some(c)
    BY TaskParts, Zenon
  <2> QED BY <1>4, <2>1, CauseBack
<1>6. TaskFromIpld(m)
        = Good([run |-> t.run, cause |-> t.cause, meta |-> t.meta, prf |-> t.prf])
  BY <1>2, <1>3, <1>4, <1>5, GoodVal DEF TaskFromIpld, Then
<1> QED BY <1>1, <1>6 DEF m

\* An invocation is written with its task and read back as it is.
LEMMA InvocationBack ==
    ASSUME NEW i, NEW t, TaskFromIpld(i) = Good(t)
    PROVE  InvocationFromIpld(InvocationToIpld(t)) = Good(t)
<1>1. Field(Fields([task |-> TaskToIpld(t)]), "task") = Good(TaskToIpld(t))
  <2>1. "task" \in DOMAIN [task |-> TaskToIpld(t)] /\ [task |-> TaskToIpld(t)]["task"] = TaskToIpld(t)
    OBVIOUS
  <2> QED BY <2>1, FieldsField
<1> QED BY <1>1, TaskBack, FieldsMap, GoodVal DEF InvocationFromIpld, InvocationToIpld, Then

\* The tasks of a workflow that has been read.
LEMMA WorkflowParts ==
    ASSUME NEW i, NEW w, WorkflowFromIpld(i) = Good(w)
    PROVE  /\ Is("map", i) /\ Has(i, "tasks") /\ Is("list", Get(i, "tasks"))
           /\ DOMAIN w = DOMAIN Get(i, "tasks")[2]
           /\ w = [n \in DOMAIN w |-> w[n]]
           /\ \A n \in DOMAIN w : TaskFromIpld(Get(i, "tasks")[2][n]) = Good(w[n])
<1> DEFINE s == Field(i, "tasks").val[2]
           out == [n \in DOMAIN s |-> TaskFromIpld(s[n])]
<1>0. Is("map", i) /\ Field(i, "tasks").ok /\ Is("list", Field(i, "tasks").val)
  BY GoodVal DEF WorkflowFromIpld, Then, AsMap, from_ipld
<1>1. /\ \A n \in DOMAIN s : out[n].ok
      /\ Good(w) = Good([n \in DOMAIN s |-> out[n].val])
  <2>1. AsMap(i) = Good(i) /\ from_ipld("list", Field(i, "tasks").val) = Good(s)
    BY <1>0 DEF AsMap, from_ipld
  <2>2. Each(s, TaskFromIpld) = Good(w)
    BY <2>1, <1>0, GoodVal DEF WorkflowFromIpld, Then
  <2> QED BY <2>2, GoodVal DEF Each
<1>2. DOMAIN out = DOMAIN s /\ \A n \in DOMAIN s : out[n] = TaskFromIpld(s[n])
  OBVIOUS
<1> HIDE DEF out
<1>3. /\ Is("map", i) /\ Field(i, "tasks").ok /\ Is("list", Field(i, "tasks").val)
      /\ \A n \in DOMAIN s : out[n].ok
      /\ w = [n \in DOMAIN s |-> out[n].val]
  BY <1>0, <1>1, GoodSame
<1>4. Has(i, "tasks") /\ Field(i, "tasks").val = Get(i, "tasks")
  BY <1>3, GoodVal DEF Field
<1>5. DOMAIN w = DOMAIN s /\ \A n \in DOMAIN s : w[n] = out[n].val
  BY <1>3
<1>6. \A n \in DOMAIN w : TaskFromIpld(s[n]) = Good(w[n])
  BY <1>2, <1>3, <1>5, SoundTask DEF Sound
<1> QED BY <1>3, <1>4, <1>5, <1>6

\* A workflow that has been read is written and read back as it is.
LEMMA WorkflowBack ==
    ASSUME NEW i, NEW w, WorkflowFromIpld(i) = Good(w)
    PROVE  WorkflowFromIpld(WorkflowToIpld(w)) = Good(w)
<1> DEFINE t == [n \in DOMAIN w |-> TaskToIpld(w[n])]
           r == [tasks |-> List(t)]
           out == [n \in DOMAIN t |-> TaskFromIpld(t[n])]
<1>1. DOMAIN t = DOMAIN w /\ \A n \in DOMAIN w : t[n] = TaskToIpld(w[n])
  OBVIOUS
<1>2. \A n \in DOMAIN w : TaskFromIpld(t[n]) = Good(w[n])
  BY <1>1, WorkflowParts, TaskBack
<1>3. WorkflowToIpld(w) = Fields(r)
  BY DEF WorkflowToIpld
<1> HIDE DEF t
<1>4. Field(Fields(r), "tasks") = Good(List(t))
  <2>1. "tasks" \in DOMAIN r /\ r["tasks"] = List(t)
    OBVIOUS
  <2> QED BY <2>1, FieldsField
<1>5. from_ipld("list", List(t)) = Good(t)
  BY DEF from_ipld, List, Is
<1>6. \A n \in DOMAIN t : out[n].ok
  BY <1>1, <1>2, GoodVal
<1>7. [n \in DOMAIN t |-> out[n].val] = w
  <2>1. w = [n \in DOMAIN w |-> w[n]]
    BY WorkflowParts, Zenon
  <2> QED BY <1>1, <1>2, <2>1, GoodVal
<1>8. Each(t, TaskFromIpld) = Good(w)
  BY <1>6, <1>7 DEF Each
<1> HIDE DEF r
<1> QED BY <1>3, <1>4, <1>5, <1>8, FieldsMap, GoodVal DEF WorkflowFromIpld, Then

-----------------------------------------------------------------------------
(* The limits a task's metadata state *)

\* A number that has been read as a u64 is read back as it is.
LEMMA NumberBack ==
    ASSUME NEW j, U64FromIpld(j).ok
    PROVE  \E n : U64FromIpld(j) = Good(n) /\ U64FromIpld(Integer(n)) = Good(n)
<1>1. Is("int", j)
  BY GoodVal DEF U64FromIpld, Then, from_ipld
<1>2. U64FromIpld(j) = IF j[2] >= 0 THEN Good(j[2]) ELSE Bad
  BY <1>1, GoodVal DEF U64FromIpld, Then, from_ipld
<1>3. U64FromIpld(Integer(j[2])) = IF j[2] >= 0 THEN Good(j[2]) ELSE Bad
  <2>1. from_ipld("int", Integer(j[2])) = Good(j[2])
    BY DEF from_ipld, Integer, Is
  <2> QED BY <2>1, GoodVal DEF U64FromIpld, Then
<1> QED BY <1>2, <1>3, GoodVal

\* A limit: none, or a number that is read back.
Limit(o) == o = None \/ \E n : o = Some(n) /\ U64FromIpld(Integer(n)) = Good(n)

\* The default of a time that is no number is a number.
LEMMA DefaultBack == U64FromIpld(Integer(DefaultTime)) = Good(DefaultTime)
  BY GoodVal DEF U64FromIpld, Then, from_ipld, Integer, Is, DefaultTime

\* What is read as a limit is one.
LEMMA LimitShape ==
    ASSUME NEW m, NEW s
    PROVE  Limit(Optional(m, s, U64FromIpld)) /\ Limit(Optional(m, s, TimeFromIpld))
<1>1. Limit(Optional(m, s, U64FromIpld))
  BY NumberBack, GoodVal DEF Optional, Limit
<1>2. \E n : TimeFromIpld(Get(m, s)) = Good(n) /\ U64FromIpld(Integer(n)) = Good(n)
  BY NumberBack, DefaultBack DEF TimeFromIpld
<1>3. Limit(Optional(m, s, TimeFromIpld))
  BY <1>2, GoodVal DEF Optional, Limit
<1> QED BY <1>1, <1>3

\* A limit is written and read back as it is.
LEMMA LimitBack ==
    ASSUME NEW m, NEW s, NEW o, Limit(o), Has(m, s), Get(m, s) = OrNull(o, Integer)
    PROVE  Optional(m, s, U64FromIpld) = o /\ Optional(m, s, TimeFromIpld) = o
<1>1. CASE o = None
  BY <1>1 DEF OrNull, Optional
<1>2. ASSUME NEW n, o = Some(n), U64FromIpld(Integer(n)) = Good(n)
      PROVE  Optional(m, s, U64FromIpld) = o /\ Optional(m, s, TimeFromIpld) = o
  <2>1. o # None /\ o[1] = n
    BY <1>2 DEF None, Some
  <2>2. Get(m, s) = Integer(n) /\ Integer(n) # Null
    BY <2>1 DEF OrNull, Integer, Null
  <2>3. TimeFromIpld(Integer(n)) = Good(n)
    BY <1>2, GoodVal DEF TimeFromIpld
  <2> QED BY <1>2, <2>2, <2>3, GoodVal DEF Optional
<1> QED BY Zenon, <1>1, <1>2 DEF Limit

\* Resources: a map is read as three limits.
LEMMA LimitsRead ==
    ASSUME NEW i
    PROVE  ResourcesFromIpld(i) =
             IF Is("map", i)
             THEN Good([fuel |-> Optional(i, "fuel", U64FromIpld),
                        memory |-> Optional(i, "memory", U64FromIpld),
                        time |-> Optional(i, "time", TimeFromIpld)])
             ELSE Bad
<1>1. CASE Is("map", i)
  <2>1. AsMap(i) = Good(i)
    BY <1>1 DEF AsMap
  <2> QED BY <1>1, <2>1, GoodVal, Zenon DEF ResourcesFromIpld, Then
<1>2. CASE ~ Is("map", i)
  BY <1>2, GoodVal DEF ResourcesFromIpld, Then, AsMap
<1> QED BY <1>1, <1>2

\* Limits that have been read are written and read back as they are.
LEMMA LimitsBack ==
    ASSUME NEW i, ResourcesFromIpld(i).ok
    PROVE  ResourcesFromIpld(ResourcesToIpld(ResourcesFromIpld(i).val)) = ResourcesFromIpld(i)
<1>1. PICK fuel, memory, time :
         /\ Limit(fuel) /\ Limit(memory) /\ Limit(time)
         /\ ResourcesFromIpld(i) = Good([fuel |-> fuel, memory |-> memory, time |-> time])
  BY Zenon, LimitsRead, LimitShape, GoodVal
<1> DEFINE v == [fuel |-> fuel, memory |-> memory, time |-> time]
           r == [fuel |-> OrNull(fuel, Integer), memory |-> OrNull(memory, Integer),
                 time |-> OrNull(time, Integer)]
           m == Fields(r)
<1>2. ResourcesFromIpld(i).val = v
  BY <1>1, GoodVal
<1>3. ResourcesToIpld(v) = m
  BY DEF ResourcesToIpld
<1>4. DOMAIN r = {"fuel", "memory", "time"}
  BY DEF OrNull
<1>5. /\ r["fuel"] = OrNull(fuel, Integer) /\ r["memory"] = OrNull(memory, Integer)
      /\ r["time"] = OrNull(time, Integer)
  BY DEF OrNull
<1> HIDE DEF r
<1>6. /\ Has(m, "fuel") /\ Get(m, "fuel") = OrNull(fuel, Integer)
      /\ Has(m, "memory") /\ Get(m, "memory") = OrNull(memory, Integer)
      /\ Has(m, "time") /\ Get(m, "time") = OrNull(time, Integer)
      /\ Is("map", m)
  BY <1>4, <1>5, FieldsHas, FieldsGet, FieldsMap
<1> HIDE DEF m
<1>7. /\ Optional(m, "fuel", U64FromIpld) = fuel
      /\ Optional(m, "memory", U64FromIpld) = memory
      /\ Optional(m, "time", TimeFromIpld) = time
  BY <1>1, <1>6, LimitBack
<1>8. ResourcesFromIpld(m) = Good(v)
  BY <1>6, <1>7, LimitsRead, Zenon
<1> QED BY <1>1, <1>2, <1>3, <1>8

-----------------------------------------------------------------------------
(* Receipts: read from a map that has all or some of the fields written *)

\* A record without one of its fields, and a map without one of its keys.
Drop(r, s) == [k \in DOMAIN r \ {s} |-> r[k]]

\* A struct written without one of its fields is a map without that key.
LEMMA DropFields ==
    ASSUME NEW r, NEW s
    PROVE  Map([j \in DOMAIN Fields(r)[2] \ {Lit(s)} |-> Fields(r)[2][j]]) = Fields(Drop(r, s))
<1> DEFINE f == [k \in {Lit(t) : t \in DOMAIN r} |-> r[k[2]]]
           g == [k \in {Lit(t) : t \in DOMAIN Drop(r, s)} |-> Drop(r, s)[k[2]]]
<1>1. Fields(r)[2] = f /\ Fields(Drop(r, s)) = Map(g)
  BY DEF Fields, Map
<1>2. {Lit(t) : t \in DOMAIN Drop(r, s)} = {Lit(t) : t \in DOMAIN r} \ {Lit(s)}
  BY DEF Drop, Lit
<1>3. \A k \in {Lit(t) : t \in DOMAIN r} \ {Lit(s)} : Drop(r, s)[k[2]] = f[k]
  BY DEF Drop, Lit
<1>4. [j \in DOMAIN f \ {Lit(s)} |-> f[j]] = g
  BY <1>2, <1>3
<1> QED BY Zenon, <1>1, <1>4

\* The keys of a map made of a record are its fields.
LEMMA FieldsKey ==
    ASSUME NEW r, NEW k \in DOMAIN Fields(r)[2]
    PROVE  \E s \in DOMAIN r : k = Lit(s)
  BY DEF Fields, Map

\* The receipts of a run: made by the worker, without issuer or proofs.
Ours(r) ==
    /\ r = [ran |-> r.ran, out |-> r.out, meta |-> r.meta, issuer |-> None, prf |-> <<>>]
    /\ \E b \in Branch : \E v : r.out = <<b, v>>

\* What is written of each field.
LEMMA ReceiptFieldsOf ==
    ASSUME NEW r
    PROVE  LET f == ReceiptFields(r) IN
           /\ DOMAIN f = {"ran", "out", "meta", "iss", "prf"}
           /\ f["ran"] = Link(r.ran) /\ f["out"] = ResultToIpld(r.out) /\ f["meta"] = r.meta
           /\ f["prf"] = UcanPrfToIpld(r.prf)
           /\ r.issuer = None => f["iss"] = Null
  BY DEF ReceiptFields, OrNull

\* An invocation receipt is read once the fields without a default are there.
LEMMA InvocationReceiptRead ==
    ASSUME NEW r, Ours(r), NEW g,
           \A t \in DOMAIN g \cap DOMAIN ReceiptFields(r) : g[t] = ReceiptFields(r)[t]
    PROVE  InvocationReceiptFromIpld(Fields(g)) =
             IF {"ran", "out", "meta", "prf"} \subseteq DOMAIN g THEN Good(r) ELSE Bad
<1> DEFINE i == Fields(g)
           f == ReceiptFields(r)
           ran_ == IF Field(i, "ran").ok THEN PointerFromIpld(Field(i, "ran").val) ELSE Bad
           out_ == IF Field(i, "out").ok THEN ResultFromIpld(Field(i, "out").val) ELSE Bad
           meta_ == Field(i, "meta")
           prf_ == IF Field(i, "prf").ok THEN UcanPrfFromIpld(Field(i, "prf").val) ELSE Bad
           iss_ == Optional(i, "iss", IssuerFromIpld)
<1>1. InvocationReceiptFromIpld(i) =
        IF ran_.ok /\ out_.ok /\ meta_.ok /\ prf_.ok
        THEN Good([ran |-> ran_.val, out |-> out_.val, meta |-> meta_.val,
                   issuer |-> iss_, prf |-> prf_.val])
        ELSE Bad
  <2>1. AsMap(i) = Good(i)
    BY FieldsMap
  <2> HIDE DEF i
  <2> QED BY <2>1, GoodVal, Zenon DEF InvocationReceiptFromIpld, Then
<1>2. \A t \in {"ran", "out", "meta", "prf"} :
         Field(i, t) = IF t \in DOMAIN g THEN Good(f[t]) ELSE Bad
  <2>1. \A t : Field(i, t) = IF t \in DOMAIN g THEN Good(g[t]) ELSE Bad
    BY FieldsField
  <2>2. {"ran", "out", "meta", "prf"} \subseteq DOMAIN f
    BY ReceiptFieldsOf
  <2> HIDE DEF i, f
  <2> QED BY <2>1, <2>2 DEF f
<1>3. r.issuer = None /\ r.prf = <<>>
  BY DEF Ours
<1>4. iss_ = None
  <2>1. ~ Has(i, "iss") \/ Get(i, "iss") = Null
    <3>1. "iss" \in DOMAIN f /\ f["iss"] = Null
      BY <1>3, ReceiptFieldsOf
    <3> QED BY <3>1, FieldsHas, FieldsGet
  <2> HIDE DEF i
  <2> QED BY <2>1 DEF Optional
<1>5. PointerFromIpld(f["ran"]) = Good(r.ran)
  BY ReceiptFieldsOf DEF PointerFromIpld, from_ipld, Link, Is
<1>6. ResultFromIpld(f["out"]) = Good(r.out)
  BY ReceiptFieldsOf, ResultBack DEF Ours
<1>7. UcanPrfFromIpld(f["prf"]) = Good(r.prf)
  <2>1. r.prf = [n \in DOMAIN r.prf |-> r.prf[n]]
    BY <1>3
  <2> QED BY <2>1, ReceiptFieldsOf, LinksBack
<1>8. f["meta"] = r.meta
  BY ReceiptFieldsOf
<1>9. r = [ran |-> r.ran, out |-> r.out, meta |-> r.meta, issuer |-> None, prf |-> r.prf]
  BY DEF Ours
<1> HIDE DEF i, f, iss_
<1>10. CASE {"ran", "out", "meta", "prf"} \subseteq DOMAIN g
  <2>1. ran_ = Good(r.ran) /\ out_ = Good(r.out) /\ meta_ = Good(r.meta) /\ prf_ = Good(r.prf)
    BY <1>2, <1>5, <1>6, <1>7, <1>8, <1>10, GoodVal
  <2> QED BY <2>1, <1>1, <1>4, <1>9, <1>10, GoodVal DEF i
<1>11. CASE ~ ({"ran", "out", "meta", "prf"} \subseteq DOMAIN g)
  <2>1. ran_ = Bad \/ out_ = Bad \/ meta_ = Bad \/ prf_ = Bad
    BY <1>2, <1>11, GoodVal
  <2> QED BY <2>1, <1>1, <1>11, GoodVal DEF i
<1> QED BY <1>10, <1>11

\* A receipt made of an invocation receipt, and the way back.
LEMMA ReceiptParts ==
    ASSUME NEW c, NEW r, Ours(r)
    PROVE  LET w == try_with(c, r) IN
           /\ InvocationReceiptOf(w) = r
           /\ w.cid = to_cid(InvocationReceiptToIpld(r)) /\ w.instruction = c /\ w.version = Version
           /\ w.ran = r.ran /\ w.out = r.out /\ w.meta = r.meta /\ w.issuer = None /\ w.prf = <<>>
           /\ ReceiptFields(w) = ReceiptFields(r)
<1> DEFINE w == try_with(c, r)
<1>1. w = [cid |-> to_cid(InvocationReceiptToIpld(r)), ran |-> r.ran, instruction |-> c,
           out |-> r.out, meta |-> r.meta, issuer |-> r.issuer, prf |-> r.prf, version |-> Version]
  BY Zenon DEF try_with, Receipt
<1>2. r.issuer = None /\ r.prf = <<>>
  BY DEF Ours
<1> HIDE DEF w
<1>3. /\ w.cid = to_cid(InvocationReceiptToIpld(r)) /\ w.instruction = c /\ w.version = Version
      /\ w.ran = r.ran /\ w.out = r.out /\ w.meta = r.meta /\ w.issuer = None /\ w.prf = <<>>
  BY <1>1, <1>2
<1>4. InvocationReceiptOf(w) = r
  <2>1. r = [ran |-> r.ran, out |-> r.out, meta |-> r.meta, issuer |-> None, prf |-> <<>>]
    BY DEF Ours
  <2> QED BY <1>3, <2>1 DEF InvocationReceiptOf
<1>5. ReceiptFields(w) = ReceiptFields(r)
  BY <1>2, <1>3, Zenon DEF ReceiptFields, OrNull
<1> QED BY <1>3, <1>4, <1>5 DEF w

\* The fields of a receipt as From<Receipt> for Ipld writes them.
AllFields(r) ==
    [k \in DOMAIN ReceiptFields(r) \union {"cid", "instruction", "version"} |->
       CASE k = "cid"         -> Link(r.cid)
         [] k = "instruction" -> Link(r.instruction)
         [] k = "version"     -> String(Lit(r.version))
         [] OTHER             -> ReceiptFields(r)[k]]

\* The fields of a receipt without a default.
Needed == {"ran", "out", "meta", "prf"}

\* The map From<Receipt> for Ipld makes has these fields.
LEMMA AllFieldsOf ==
    ASSUME NEW r
    PROVE  /\ ReceiptToIpld(r) = Fields(AllFields(r))
           /\ DOMAIN AllFields(r) = DOMAIN ReceiptFields(r) \union {"cid", "instruction", "version"}
           /\ AllFields(r)["cid"] = Link(r.cid) /\ AllFields(r)["instruction"] = Link(r.instruction)
           /\ AllFields(r)["version"] = String(Lit(r.version))
           /\ \A t \in DOMAIN ReceiptFields(r) : AllFields(r)[t] = ReceiptFields(r)[t]
<1>1. ReceiptToIpld(r) = Fields(AllFields(r))
  BY Zenon DEF ReceiptToIpld, AllFields
<1>2. DOMAIN ReceiptFields(r) = {"ran", "out", "meta", "iss", "prf"}
  BY ReceiptFieldsOf
<1> QED BY <1>1, <1>2 DEF AllFields

\* A receipt is read from a map that has its fields, whoever issued it.
LEMMA ReceiptRead ==
    ASSUME NEW c, NEW r, Ours(r), NEW g,
           \A t \in DOMAIN g \cap DOMAIN AllFields(try_with(c, r)) :
              g[t] = AllFields(try_with(c, r))[t]
    PROVE  ReceiptFromIpld(Fields(g)) =
             IF Needed \union {"cid", "instruction", "version"} \subseteq DOMAIN g
             THEN Good(try_with(c, r)) ELSE Bad
<1> DEFINE i == Fields(g)
           w == try_with(c, r)
           f == AllFields(w)
           cid_ == IF Field(i, "cid").ok THEN PointerFromIpld(Field(i, "cid").val) ELSE Bad
           ins_ == IF Field(i, "instruction").ok THEN PointerFromIpld(Field(i, "instruction").val) ELSE Bad
           ver_ == IF Field(i, "version").ok THEN from_ipld("string", Field(i, "version").val) ELSE Bad
           inv_ == InvocationReceiptFromIpld(i)
<1>1. ReceiptFromIpld(i) =
        IF cid_.ok /\ ins_.ok /\ ver_.ok /\ inv_.ok
        THEN Good([Receipt(cid_.val, ins_.val, inv_.val) EXCEPT !.version = ver_.val[2]])
        ELSE Bad
  <2>1. AsMap(i) = Good(i)
    BY FieldsMap
  <2> HIDE DEF i
  <2> QED BY <2>1, GoodVal, Zenon DEF ReceiptFromIpld, Then
<1>2. ReceiptFields(w) = ReceiptFields(r)
  BY ReceiptParts
<1>3. /\ DOMAIN f = DOMAIN ReceiptFields(r) \union {"cid", "instruction", "version"}
      /\ f["cid"] = Link(w.cid) /\ f["instruction"] = Link(w.instruction)
      /\ f["version"] = String(Lit(w.version))
      /\ \A t \in DOMAIN ReceiptFields(r) : f[t] = ReceiptFields(r)[t]
  BY Zenon, <1>2, AllFieldsOf
<1>4. inv_ = IF Needed \subseteq DOMAIN g THEN Good(r) ELSE Bad
  <2>1. \A t \in DOMAIN g \cap DOMAIN ReceiptFields(r) : g[t] = ReceiptFields(r)[t]
    BY <1>3, Zenon
  <2> QED BY <2>1, InvocationReceiptRead DEF Needed
<1>5. \A t \in {"cid", "instruction", "version"} :
         Field(i, t) = IF t \in DOMAIN g THEN Good(f[t]) ELSE Bad
  <2>1. \A t : Field(i, t) = IF t \in DOMAIN g THEN Good(g[t]) ELSE Bad
    BY FieldsField
  <2>2. \A t \in {"cid", "instruction", "version"} : t \in DOMAIN g => g[t] = f[t]
    BY <1>3
  <2> HIDE DEF i, f
  <2> QED BY <2>1, <2>2
<1>6. /\ PointerFromIpld(f["cid"]) = Good(w.cid)
      /\ PointerFromIpld(f["instruction"]) = Good(c)
      /\ from_ipld("string", f["version"]) = Good(Lit(Version))
  <2>1. w.instruction = c /\ w.version = Version
    BY ReceiptParts
  <2> QED BY <1>3, <2>1 DEF PointerFromIpld, from_ipld, Link, String, Is
<1>7. [Receipt(w.cid, c, r) EXCEPT !.version = Lit(Version)[2]] = w
  <2>1. Lit(Version)[2] = Version
    BY DEF Lit
  <2>2. w = Receipt(w.cid, c, r)
    BY ReceiptParts DEF try_with
  <2>3. [Receipt(w.cid, c, r) EXCEPT !.version = Version] = Receipt(w.cid, c, r)
    BY DEF Receipt
  <2> QED BY <2>1, <2>2, <2>3
<1> HIDE DEF i, f, w, inv_
<1>8. CASE Needed \union {"cid", "instruction", "version"} \subseteq DOMAIN g
  <2>1. cid_ = Good(w.cid) /\ ins_ = Good(c) /\ ver_ = Good(Lit(Version)) /\ inv_ = Good(r)
    BY <1>4, <1>5, <1>6, <1>8, GoodVal
  <2> QED BY <2>1, <1>1, <1>7, <1>8, GoodVal DEF i, w
<1>9. CASE ~ (Needed \union {"cid", "instruction", "version"} \subseteq DOMAIN g)
  <2>1. cid_ = Bad \/ ins_ = Bad \/ ver_ = Bad \/ inv_ = Bad
    BY <1>4, <1>5, <1>9, GoodVal
  <2> QED BY <2>1, <1>1, <1>9, GoodVal DEF i
<1> QED BY <1>8, <1>9

\* The map of one entry that capsules are.
Capsule(code, rest) == Map([k \in {Lit(code)} |-> rest])

\* pop_first finds the one entry of a capsule.
LEMMA CapsuleParts ==
    ASSUME NEW code, NEW rest
    PROVE  LET i == Capsule(code, rest) IN
           /\ Is("map", i) /\ DOMAIN i[2] = {Lit(code)} /\ i[2][Lit(code)] = rest
           /\ (CHOOSE k \in DOMAIN i[2] : TRUE) = Lit(code)
           /\ Get(i, code) = rest
  BY DEF Capsule, Map, Is, Get

\* The fields of a receipt in a DHT record.
CapsuleFields(r) ==
    [n \in DOMAIN ReceiptFields(r) \union {"version"} |->
       IF n = "version" THEN String(Lit(Version)) ELSE ReceiptFields(r)[n]]

\* Receipt::invocation_capsule makes a capsule of these fields.
LEMMA CapsuleFieldsOf ==
    ASSUME NEW r
    PROVE  /\ invocation_capsule(r) = Capsule("ipvm/receipt", Fields(CapsuleFields(r)))
           /\ DOMAIN CapsuleFields(r) = DOMAIN ReceiptFields(r) \union {"version"}
           /\ CapsuleFields(r)["version"] = String(Lit(Version))
           /\ \A t \in DOMAIN ReceiptFields(r) : CapsuleFields(r)[t] = ReceiptFields(r)[t]
<1>1. invocation_capsule(r) = Capsule("ipvm/receipt", Fields(CapsuleFields(r)))
  BY Zenon DEF invocation_capsule, Capsule, CapsuleFields
<1>2. DOMAIN ReceiptFields(r) = {"ran", "out", "meta", "iss", "prf"}
  BY ReceiptFieldsOf
<1> QED BY <1>1, <1>2 DEF CapsuleFields

\* decode_capsule makes of a DHT record the receipt that has been put, and
\* refuses one without a version or a field of the receipt.
LEMMA CapsuleRead ==
    ASSUME NEW c, NEW r, Ours(r), NEW g,
           \A t \in DOMAIN g \cap DOMAIN CapsuleFields(r) : g[t] = CapsuleFields(r)[t]
    PROVE  decode_capsule(c, Capsule("ipvm/receipt", Fields(g))) =
             IF Needed \union {"version"} \subseteq DOMAIN g THEN Good(try_with(c, r)) ELSE Bad
<1> DEFINE i == Capsule("ipvm/receipt", Fields(g))
           rest == Fields(g)
           h == Drop(g, "version")
<1>1. /\ Is("map", i) /\ DOMAIN i[2] # {}
      /\ (CHOOSE k \in DOMAIN i[2] : TRUE) = Lit("ipvm/receipt")
      /\ i[2][Lit("ipvm/receipt")] = rest
  BY CapsuleParts
<1>2. Is("map", rest)
  BY FieldsMap
<1>3. Lit("ipvm/receipt") # Lit("ipvm/workflow")
  BY DEF Lit
<1>4. /\ DOMAIN ReceiptFields(r) = {"ran", "out", "meta", "iss", "prf"}
      /\ "version" \in DOMAIN g => g["version"] = String(Lit(Version))
      /\ \A t \in DOMAIN g \cap DOMAIN ReceiptFields(r) : g[t] = ReceiptFields(r)[t]
  <2>1. DOMAIN ReceiptFields(r) = {"ran", "out", "meta", "iss", "prf"}
    BY ReceiptFieldsOf
  <2>2. DOMAIN CapsuleFields(r) = DOMAIN ReceiptFields(r) \union {"version"}
    BY CapsuleFieldsOf, Zenon
  <2>3. "version" \in DOMAIN g => g["version"] = String(Lit(Version))
    BY <2>2, CapsuleFieldsOf, Zenon
  <2>4. \A t \in DOMAIN g \cap DOMAIN ReceiptFields(r) : g[t] = ReceiptFields(r)[t]
    BY <2>2, CapsuleFieldsOf, Zenon
  <2> QED BY <2>1, <2>3, <2>4
<1>5. InvocationReceiptFromIpld(Without(rest, "version")) =
        IF Needed \subseteq DOMAIN g THEN Good(r) ELSE Bad
  <2>1. Without(rest, "version") = Fields(h)
    BY DropFields, Zenon DEF Without
  <2>2. DOMAIN h = DOMAIN g \ {"version"} /\ \A t \in DOMAIN h : h[t] = g[t]
    BY DEF Drop
  <2> HIDE DEF h, rest
  <2>3. \A t \in DOMAIN h \cap DOMAIN ReceiptFields(r) : h[t] = ReceiptFields(r)[t]
    BY <1>4, <2>2
  <2>4. InvocationReceiptFromIpld(Fields(h)) = IF Needed \subseteq DOMAIN h THEN Good(r) ELSE Bad
    BY <2>3, InvocationReceiptRead DEF Needed
  <2>5. Needed \subseteq DOMAIN h <=> Needed \subseteq DOMAIN g
    BY <2>2 DEF Needed
  <2> QED BY <2>1, <2>4, <2>5
<1>6. Has(rest, "version") <=> "version" \in DOMAIN g
  BY FieldsHas
<1>7. "version" \in DOMAIN g => Get(rest, "version") = String(Lit(Version))
  BY <1>4, FieldsGet
<1> HIDE DEF i, rest
<1>8. decode_capsule(c, i) =
        IF ~ Has(rest, "version") THEN Bad
        ELSE IF Get(rest, "version") # String(Lit(Version)) THEN Bad
        ELSE IF InvocationReceiptFromIpld(Without(rest, "version")).ok
        THEN Good(try_with(c, InvocationReceiptFromIpld(Without(rest, "version")).val))
        ELSE Bad
  BY Zenon, <1>1, <1>2, <1>3 DEF decode_capsule, Then
<1>9. CASE Needed \union {"version"} \subseteq DOMAIN g
  BY <1>5, <1>6, <1>7, <1>8, <1>9, GoodVal DEF i, rest
<1>10. CASE ~ (Needed \union {"version"} \subseteq DOMAIN g)
  BY <1>5, <1>6, <1>7, <1>8, <1>10, GoodVal DEF i, rest
<1> QED BY <1>9, <1>10

\* A gossiped message is read as the receipt in its payload.
LEMMA MessageRead ==
    ASSUME NEW payload
    PROVE  MessageFromIpld(MessageToIpld(<<"Nonce96", Nonce96>>, payload)) = ReceiptFromIpld(payload)
<1> DEFINE nonce == NonceToIpld(<<"Nonce96", Nonce96>>)
           h == [nonce |-> nonce]
           r == [header |-> Fields(h), payload |-> payload]
<1>1. NonceFromIpld(nonce) = Good(<<"Nonce96", Nonce96>>)
  BY NonceAssumption DEF NonceFromIpld, NonceToIpld, Bytes, Is
<1>2. DOMAIN h = {"nonce"} /\ h["nonce"] = nonce
  OBVIOUS
<1> HIDE DEF nonce
<1>3. HeaderFromIpld(Fields(h)) = Good(<<"Nonce96", Nonce96>>)
  <2>1. Field(Fields(h), "nonce") = Good(nonce)
    BY <1>2, FieldsField
  <2> HIDE DEF h
  <2> QED BY <1>1, <2>1, FieldsMap, GoodVal DEF HeaderFromIpld, Then
<1>4. DOMAIN r = {"header", "payload"} /\ r["header"] = Fields(h) /\ r["payload"] = payload
  OBVIOUS
<1>5. MessageToIpld(<<"Nonce96", Nonce96>>, payload) = Fields(r)
  BY DEF MessageToIpld, nonce
<1> HIDE DEF r, h
<1>6. Field(Fields(r), "header") = Good(Fields(h)) /\ Field(Fields(r), "payload") = Good(payload)
  BY <1>4, FieldsField
<1> QED BY <1>3, <1>5, <1>6, FieldsMap, GoodVal DEF MessageFromIpld, Then

\* A row of the receipts table is read as the receipt that was stored.
LEMMA RowRead ==
    ASSUME NEW c, NEW r, Ours(r)
    PROVE  ReceiptFromRow(ReceiptRow(try_with(c, r))) = Good(try_with(c, r))
<1> DEFINE w == try_with(c, r)
           row == ReceiptRow(w)
<1>1. /\ w.ran = r.ran /\ w.out = r.out /\ w.meta = r.meta /\ w.issuer = None /\ w.prf = <<>>
      /\ w.instruction = c /\ w.version = Version
  BY ReceiptParts
<1>2. w = [cid |-> w.cid, ran |-> w.ran, instruction |-> w.instruction, out |-> w.out,
           meta |-> w.meta, prf |-> w.prf, version |-> w.version, issuer |-> w.issuer]
  BY DEF try_with, Receipt
<1> HIDE DEF w
<1>3. /\ ParseCid(row.cid) = Good(w.cid) /\ ParseCid(row.ran) = Good(w.ran)
      /\ ParseCid(row.instruction) = Good(w.instruction)
  BY DEF ReceiptRow, ParseCid
<1>4. ResultFromIpld(row.out) = Good(w.out)
  BY <1>1, ResultBack DEF ReceiptRow, Ours
<1>5. UcanPrfFromIpld(row.prf) = Good(w.prf)
  <2>1. w.prf = [n \in DOMAIN w.prf |-> w.prf[n]]
    BY <1>1
  <2>2. row.prf = UcanPrfToIpld(w.prf)
    BY DEF ReceiptRow
  <2> QED BY <2>1, <2>2, LinksBack
<1>6. row.issuer = None /\ row.meta = w.meta /\ row.version = w.version
  BY <1>1 DEF ReceiptRow
<1> HIDE DEF row
<1>7. ReceiptFromRow(row) =
        Good([cid |-> w.cid, ran |-> w.ran, instruction |-> w.instruction, out |-> w.out,
              meta |-> w.meta, prf |-> w.prf, version |-> w.version, issuer |-> None])
  BY <1>3, <1>4, <1>5, <1>6, GoodVal DEF ReceiptFromRow, Then
<1> QED BY <1>1, <1>2, <1>7 DEF w, row

-----------------------------------------------------------------------------
(* Workflow information and notifications *)

\* Resources as Builder indexes them: URLs in normal form, and identifiers.
IsRsc(r) == (\E u : r = <<"Url", u>> /\ u[1] \in UrlKind) \/ \E c : r = <<"Cid", c>>

\* An index of them: a list of resources for every instruction.
IsIndex(f) ==
    /\ f = [c \in DOMAIN f |-> f[c]]
    /\ \A c \in DOMAIN f : /\ f[c] = [n \in DOMAIN f[c] |-> f[c][n]]
                           /\ \A n \in DOMAIN f[c] : IsRsc(f[c][n])

\* Resource: a URL is written as a string, an identifier as a link, and each
\* is read back as it is.
LEMMA RscBack ==
    ASSUME NEW r, IsRsc(r)
    PROVE  RscFromIpld(RscToIpld(r)) = Good(r)
<1>1. ASSUME NEW u, r = <<"Url", u>>, u[1] \in UrlKind PROVE RscFromIpld(RscToIpld(r)) = Good(r)
  <2>1. RscToIpld(r) = String(u)
    BY <1>1 DEF RscToIpld
  <2>2. ParseUrl(String(u)[2]) = Good(u)
    BY Zenon, <1>1, ResourceBack DEF String
  <2>3. Is("string", String(u)) /\ ~ Is("link", String(u))
    BY DEF String, Is
  <2> QED BY <1>1, <2>1, <2>2, <2>3, GoodVal DEF RscFromIpld, Then
<1>2. ASSUME NEW c, r = <<"Cid", c>> PROVE RscFromIpld(RscToIpld(r)) = Good(r)
  BY <1>2 DEF RscFromIpld, RscToIpld, Link, Is
<1> QED BY <1>1, <1>2 DEF IsRsc

\* The list of the resources of one instruction.
LEMMA RscsBack ==
    ASSUME NEW s, s = [n \in DOMAIN s |-> s[n]], \A n \in DOMAIN s : IsRsc(s[n])
    PROVE  LET t == [n \in DOMAIN s |-> RscToIpld(s[n])] IN
           from_ipld("list", List(t)) = Good(t) /\ Each(t, RscFromIpld) = Good(s)
<1> DEFINE t == [n \in DOMAIN s |-> RscToIpld(s[n])]
           out == [n \in DOMAIN t |-> RscFromIpld(t[n])]
<1>1. DOMAIN t = DOMAIN s /\ \A n \in DOMAIN s : t[n] = RscToIpld(s[n])
  OBVIOUS
<1>2. \A n \in DOMAIN s : RscFromIpld(t[n]) = Good(s[n])
  BY <1>1, RscBack
<1> HIDE DEF t
<1>3. from_ipld("list", List(t)) = Good(t)
  BY DEF from_ipld, List, Is
<1>4. \A n \in DOMAIN t : out[n].ok
  BY <1>1, <1>2, GoodVal
<1>5. [n \in DOMAIN t |-> out[n].val] = s
  BY <1>1, <1>2, GoodVal
<1>6. Each(t, RscFromIpld) = Good(s)
  BY <1>4, <1>5 DEF Each
<1> QED BY <1>3, <1>6 DEF t

\* An index of resources is written and read back as it is.
LEMMA IndexBack ==
    ASSUME NEW f, IsIndex(f)
    PROVE  IndexedResourcesFromIpld(IndexedResourcesToIpld(f)) = Good(f)
<1> DEFINE keys == {<<"cid", c>> : c \in DOMAIN f}
           T(s) == [n \in DOMAIN s |-> RscToIpld(s[n])]
           h == [k \in keys |-> List(T(f[k[2]]))]
           m == IndexedResourcesToIpld(f)
           Rscs(k) == Then(ParseCid(k), LAMBDA c :
                      Then(from_ipld("list", m[2][k]), LAMBDA s : Each(s, RscFromIpld)))
<1>1. m = Map(h) /\ m[2] = h
  BY DEF IndexedResourcesToIpld, Map
<1>2. DOMAIN m[2] = keys
  BY Zenon, <1>1
<1>3. \A c \in DOMAIN f : m[2][<<"cid", c>>] = List(T(f[c]))
  BY <1>1
<1>4. \A c \in DOMAIN f : Rscs(<<"cid", c>>) = Good(f[c])
  <2> TAKE c \in DOMAIN f
  <2>1. ParseCid(<<"cid", c>>) = Good(c)
    BY DEF ParseCid
  <2>2. from_ipld("list", List(T(f[c]))) = Good(T(f[c])) /\ Each(T(f[c]), RscFromIpld) = Good(f[c])
    BY RscsBack DEF IsIndex
  <2> HIDE DEF T, m
  <2> QED BY <1>3, <2>1, <2>2, GoodVal DEF Then
<1>5. IndexedResourcesFromIpld(m) =
        IF \E k \in DOMAIN m[2] : ~ Rscs(k).ok THEN Bad
        ELSE Good([c \in {k[2] : k \in DOMAIN m[2]} |-> Rscs(<<"cid", c>>).val])
  <2>1. AsMap(m) = Good(m)
    BY <1>1 DEF AsMap, Map, Is
  <2> HIDE DEF m
  <2> QED BY Zenon, <2>1, GoodVal DEF IndexedResourcesFromIpld, Then
<1> HIDE DEF Rscs, m
<1>6. ~ \E k \in DOMAIN m[2] : ~ Rscs(k).ok
  BY <1>2, <1>4, GoodVal
<1>7. {k[2] : k \in DOMAIN m[2]} = DOMAIN f
  <2>1. \A k \in keys : k[2] \in DOMAIN f
    OBVIOUS
  <2>2. \A c \in DOMAIN f : <<"cid", c>> \in keys /\ <<"cid", c>>[2] = c
    OBVIOUS
  <2> HIDE DEF keys
  <2>3. {k[2] : k \in keys} = DOMAIN f
    BY Zenon, <2>1, <2>2
  <2> QED BY <1>2, <2>3
<1>8. [c \in {k[2] : k \in DOMAIN m[2]} |-> Rscs(<<"cid", c>>).val] = f
  BY <1>4, <1>7, GoodVal DEF IsIndex
<1> QED BY Zenon, <1>5, <1>6, <1>8 DEF m

\* Workflow information as the worker sends it (Info::capsule).
IsInfo(f) ==
    /\ f = [cid |-> f.cid, name |-> f.name, num_tasks |-> f.num_tasks, progress |-> f.progress,
            progress_count |-> f.progress_count, resources |-> f.resources]
    /\ \E s : f.name = Some(s)
    /\ f.num_tasks \in Nat /\ f.progress_count \in Nat
    /\ f.progress = [n \in DOMAIN f.progress |-> f.progress[n]]
    /\ IsIndex(f.resources)

\* The name of a run as it is written and read.
NameText(s) == String(Lit(s))
NameFromIpld(j) == Then(from_ipld("string", j), LAMBDA t : Good(t[2]))

\* What From<Info> for Ipld writes of each field.
InfoFields(f) ==
    [cid |-> Link(f.cid), name |-> OrNull(f.name, NameText),
     num_tasks |-> Integer(f.num_tasks), progress |-> UcanPrfToIpld(f.progress),
     progress_count |-> Integer(f.progress_count), resources |-> IndexedResourcesToIpld(f.resources)]

\* The fields of workflow information without a default.
InfoNeeded == {"cid", "num_tasks", "progress", "progress_count", "resources"}

\* From<Info> for Ipld makes a map of these fields.
LEMMA InfoFieldsOf ==
    ASSUME NEW f
    PROVE  /\ InfoToIpld(f) = Fields(InfoFields(f))
           /\ DOMAIN InfoFields(f) = InfoNeeded \union {"name"}
           /\ InfoFields(f)["cid"] = Link(f.cid)
           /\ InfoFields(f)["name"] = OrNull(f.name, NameText)
           /\ InfoFields(f)["num_tasks"] = Integer(f.num_tasks)
           /\ InfoFields(f)["progress"] = UcanPrfToIpld(f.progress)
           /\ InfoFields(f)["progress_count"] = Integer(f.progress_count)
           /\ InfoFields(f)["resources"] = IndexedResourcesToIpld(f.resources)
<1>1. InfoToIpld(f) = Fields(InfoFields(f))
  BY Zenon DEF InfoToIpld, InfoFields, UcanPrfToIpld, OrNull, NameText
<1> QED BY <1>1 DEF InfoFields, InfoNeeded, OrNull

\* A number of the code is read back.
LEMMA NatBack ==
    ASSUME NEW n \in Nat
    PROVE  U64FromIpld(Integer(n)) = Good(n)
<1>1. from_ipld("int", Integer(n)) = Good(n)
  BY DEF from_ipld, Integer, Is
<1> QED BY <1>1, GoodVal DEF U64FromIpld, Then

\* Workflow information is read from a map that has its fields; without a name
\* it is the information of a run without one.
LEMMA InfoRead ==
    ASSUME NEW f, IsInfo(f), NEW g,
           \A t \in DOMAIN g \cap DOMAIN InfoFields(f) : g[t] = InfoFields(f)[t]
    PROVE  InfoFromIpld(Fields(g)) =
             IF InfoNeeded \subseteq DOMAIN g
             THEN Good(IF "name" \in DOMAIN g THEN f ELSE [f EXCEPT !.name = None])
             ELSE Bad
<1> DEFINE i == Fields(g)
           q == InfoFields(f)
           PrgFrom(j) == IF Is("list", j) THEN UcanPrfFromIpld(j) ELSE Bad
           cid_ == IF Field(i, "cid").ok THEN PointerFromIpld(Field(i, "cid").val) ELSE Bad
           num_ == IF Field(i, "num_tasks").ok THEN U64FromIpld(Field(i, "num_tasks").val) ELSE Bad
           prg_ == IF Field(i, "progress").ok THEN PrgFrom(Field(i, "progress").val) ELSE Bad
           cnt_ == IF Field(i, "progress_count").ok THEN U64FromIpld(Field(i, "progress_count").val) ELSE Bad
           rsc_ == IF Field(i, "resources").ok THEN IndexedResourcesFromIpld(Field(i, "resources").val) ELSE Bad
           name_ == Optional(i, "name", NameFromIpld)
<1>1. InfoFromIpld(i) =
        IF cid_.ok /\ num_.ok /\ prg_.ok /\ cnt_.ok /\ rsc_.ok
        THEN Good([cid |-> cid_.val, num_tasks |-> num_.val, progress |-> prg_.val,
                   progress_count |-> cnt_.val, resources |-> rsc_.val, name |-> name_])
        ELSE Bad
  <2>1. AsMap(i) = Good(i)
    BY FieldsMap
  <2> HIDE DEF i
  <2> QED BY <2>1, GoodVal, Zenon DEF InfoFromIpld, Then, Optional, NameFromIpld
<1>2. \A t \in InfoNeeded : Field(i, t) = IF t \in DOMAIN g THEN Good(q[t]) ELSE Bad
  <2>1. \A t : Field(i, t) = IF t \in DOMAIN g THEN Good(g[t]) ELSE Bad
    BY FieldsField
  <2>2. InfoNeeded \subseteq DOMAIN q
    BY InfoFieldsOf, Zenon
  <2> HIDE DEF i, q
  <2> QED BY <2>1, <2>2 DEF q
<1>3. name_ = IF "name" \in DOMAIN g THEN f.name ELSE None
  <2>1. PICK s : f.name = Some(s)
    BY DEF IsInfo
  <2>2. OrNull(f.name, NameText) = NameText(s) /\ NameText(s) # Null
    BY <2>1 DEF OrNull, Some, None, NameText, String, Null
  <2>3. NameFromIpld(NameText(s)) = Good(s)
    BY GoodVal DEF NameFromIpld, NameText, Then, from_ipld, String, Lit, Is
  <2>4. "name" \in DOMAIN g => g["name"] = NameText(s)
    BY Zenon, <2>2, InfoFieldsOf
  <2>5. Has(i, "name") <=> "name" \in DOMAIN g
    BY FieldsHas
  <2>6. "name" \in DOMAIN g => Get(i, "name") = NameText(s)
    BY <2>4, FieldsGet
  <2> HIDE DEF i
  <2> QED BY <2>1, <2>2, <2>3, <2>5, <2>6, GoodVal DEF Optional
<1>4. PointerFromIpld(q["cid"]) = Good(f.cid)
  BY InfoFieldsOf DEF PointerFromIpld, from_ipld, Link, Is
<1>5. U64FromIpld(q["num_tasks"]) = Good(f.num_tasks)
  BY InfoFieldsOf, NatBack DEF IsInfo
<1>6. PrgFrom(q["progress"]) = Good(f.progress)
  <2>1. Is("list", UcanPrfToIpld(f.progress))
    BY DEF UcanPrfToIpld, List, Is
  <2>2. UcanPrfFromIpld(UcanPrfToIpld(f.progress)) = Good(f.progress)
    BY LinksBack DEF IsInfo
  <2> QED BY <2>1, <2>2, InfoFieldsOf
<1>7. U64FromIpld(q["progress_count"]) = Good(f.progress_count)
  BY InfoFieldsOf, NatBack DEF IsInfo
<1>8. IndexedResourcesFromIpld(q["resources"]) = Good(f.resources)
  BY InfoFieldsOf, IndexBack DEF IsInfo
<1> HIDE DEF i, q, name_, PrgFrom
<1>9. CASE InfoNeeded \subseteq DOMAIN g
  <2>1. /\ cid_ = Good(f.cid) /\ num_ = Good(f.num_tasks) /\ prg_ = Good(f.progress)
        /\ cnt_ = Good(f.progress_count) /\ rsc_ = Good(f.resources)
    BY <1>2, <1>4, <1>5, <1>6, <1>7, <1>8, <1>9, GoodVal DEF InfoNeeded
  <2>2. f = [cid |-> f.cid, name |-> f.name, num_tasks |-> f.num_tasks, progress |-> f.progress,
             progress_count |-> f.progress_count, resources |-> f.resources]
    BY Zenon DEF IsInfo
  <2>3. [f EXCEPT !.name = None] =
        [cid |-> f.cid, name |-> None, num_tasks |-> f.num_tasks, progress |-> f.progress,
         progress_count |-> f.progress_count, resources |-> f.resources]
    BY <2>2
  <2>4. InfoFromIpld(i) =
          Good([cid |-> f.cid, num_tasks |-> f.num_tasks, progress |-> f.progress,
                progress_count |-> f.progress_count, resources |-> f.resources, name |-> name_])
    BY <2>1, <1>1, GoodVal
  <2>5. CASE "name" \in DOMAIN g
    BY <2>2, <2>4, <2>5, <1>3, <1>9 DEF i
  <2>6. CASE "name" \notin DOMAIN g
    BY <2>3, <2>4, <2>6, <1>3, <1>9 DEF i
  <2> QED BY <2>5, <2>6
<1>10. CASE ~ (InfoNeeded \subseteq DOMAIN g)
  <2>1. cid_ = Bad \/ num_ = Bad \/ prg_ = Bad \/ cnt_ = Bad \/ rsc_ = Bad
    BY <1>2, <1>10, GoodVal DEF InfoNeeded
  <2> QED BY <2>1, <1>1, <1>10, GoodVal DEF i
<1> QED BY <1>9, <1>10

\* decode_capsule of a workflow's record reads the information in it.
LEMMA InfoCapsuleRead ==
    ASSUME NEW c, NEW g
    PROVE  decode_capsule(c, Capsule("ipvm/workflow", Fields(g))) = InfoFromIpld(Fields(g))
<1> DEFINE i == Capsule("ipvm/workflow", Fields(g))
           rest == Fields(g)
<1>1. /\ Is("map", i) /\ DOMAIN i[2] # {}
      /\ (CHOOSE k \in DOMAIN i[2] : TRUE) = Lit("ipvm/workflow")
      /\ i[2][Lit("ipvm/workflow")] = rest
  BY CapsuleParts
<1>2. Is("map", rest)
  BY FieldsMap
<1>3. Lit("ipvm/receipt") # Lit("ipvm/workflow")
  BY DEF Lit
<1> HIDE DEF i, rest
<1>4. decode_capsule(c, i) = InfoFromIpld(rest)
  BY Zenon, <1>1, <1>2, <1>3 DEF decode_capsule, Then
<1> QED BY <1>4 DEF i, rest

\* What From<EventNotification> for Ipld writes of each field.
EventFields(e) ==
    [type |-> String(<<"net", e.typ>>), data |-> e.data, timestamp |-> Integer(e.timestamp)]

\* From<EventNotification> for Ipld makes a map of these fields.
LEMMA EventFieldsOf ==
    ASSUME NEW e
    PROVE  /\ EventNotificationToIpld(e) = Fields(EventFields(e))
           /\ DOMAIN EventFields(e) = {"type", "data", "timestamp"}
           /\ EventFields(e)["type"] = String(<<"net", e.typ>>)
           /\ EventFields(e)["data"] = e.data
           /\ EventFields(e)["timestamp"] = Integer(e.timestamp)
<1>1. EventNotificationToIpld(e) = Fields(EventFields(e))
  BY Zenon DEF EventNotificationToIpld, EventFields
<1> QED BY <1>1 DEF EventFields

\* The names of notifications that FromStr knows as Display writes them: all
\* but that of PutReceiptDht.
LEMMA NameRead ==
    ASSUME NEW s \in SwarmName
    PROVE  from_str(s) = IF s = "putReceiptDht" THEN Bad ELSE Good(s)
  BY DEF from_str, SwarmName

\* A notification is read from a map that has its three fields, unless its name
\* is the one that is spelled in two ways.
LEMMA EventRead ==
    ASSUME NEW e, e = [typ |-> e.typ, data |-> e.data, timestamp |-> e.timestamp],
           e.typ \in SwarmName, NEW g,
           \A t \in DOMAIN g \cap DOMAIN EventFields(e) : g[t] = EventFields(e)[t]
    PROVE  EventNotificationFromIpld(Fields(g)) =
             IF {"type", "data", "timestamp"} \subseteq DOMAIN g /\ e.typ # "putReceiptDht"
             THEN Good(e) ELSE Bad
<1> DEFINE i == Fields(g)
           q == EventFields(e)
           txt_ == IF Field(i, "type").ok THEN from_ipld("string", Field(i, "type").val) ELSE Bad
           typ_ == EventNotificationTyp(txt_.val)
           data_ == Field(i, "data")
           time_ == IF Field(i, "timestamp").ok THEN from_ipld("int", Field(i, "timestamp").val) ELSE Bad
<1>1. EventNotificationFromIpld(i) =
        IF txt_.ok /\ typ_.ok /\ data_.ok /\ time_.ok
        THEN Good([typ |-> typ_.val, data |-> data_.val, timestamp |-> time_.val])
        ELSE Bad
  <2>1. AsMap(i) = Good(i)
    BY FieldsMap
  <2> HIDE DEF i
  <2> QED BY <2>1, GoodVal, Zenon DEF EventNotificationFromIpld, Then
<1>2. \A t \in {"type", "data", "timestamp"} :
         Field(i, t) = IF t \in DOMAIN g THEN Good(q[t]) ELSE Bad
  <2>1. \A t : Field(i, t) = IF t \in DOMAIN g THEN Good(g[t]) ELSE Bad
    BY FieldsField
  <2>2. {"type", "data", "timestamp"} = DOMAIN q
    BY EventFieldsOf, Zenon
  <2> HIDE DEF i, q
  <2> QED BY <2>1, <2>2 DEF q
<1>3. /\ from_ipld("string", q["type"]) = Good(<<"net", e.typ>>)
      /\ q["data"] = e.data
      /\ from_ipld("int", q["timestamp"]) = Good(e.timestamp)
  <2>1. /\ q["type"] = String(<<"net", e.typ>>) /\ q["data"] = e.data
        /\ q["timestamp"] = Integer(e.timestamp)
    BY EventFieldsOf, Zenon
  <2> HIDE DEF q
  <2> QED BY <2>1 DEF from_ipld, String, Integer, Is
<1>4. from_str(e.typ) = IF e.typ = "putReceiptDht" THEN Bad ELSE Good(e.typ)
  BY NameRead
<1> HIDE DEF i, q
<1>5. CASE {"type", "data", "timestamp"} \subseteq DOMAIN g
  <2>1. /\ txt_ = Good(<<"net", e.typ>>) /\ data_ = Good(e.data) /\ time_ = Good(e.timestamp)
    BY <1>2, <1>3, <1>5, GoodVal
  <2>2. txt_.val[1] = "net" /\ txt_.val[2] = e.typ
    BY <2>1, GoodVal
  <2>3. typ_ = IF e.typ = "putReceiptDht" THEN Bad ELSE Good(e.typ)
    BY <2>2, <1>4 DEF EventNotificationTyp
  <2> HIDE DEF txt_, typ_, data_, time_
  <2> QED BY <2>1, <2>3, <1>1, <1>5, GoodVal DEF i
<1>6. CASE ~ ({"type", "data", "timestamp"} \subseteq DOMAIN g)
  <2>1. txt_ = Bad \/ data_ = Bad \/ time_ = Bad
    BY <1>2, <1>6, GoodVal
  <2> HIDE DEF txt_, typ_, data_, time_
  <2> QED BY <2>1, <1>1, <1>6, GoodVal DEF i
<1> QED BY <1>5, <1>6

-----------------------------------------------------------------------------
(* Writings: read whole, or with one field missing *)

\* A field of a map is replaced.
LEMMA ReplaceField ==
    ASSUME NEW r, NEW s \in DOMAIN r, NEW x
    PROVE  Map([Fields(r)[2] EXCEPT ![Lit(s)] = x]) = Fields([r EXCEPT ![s] = x])
<1> DEFINE p == [r EXCEPT ![s] = x]
           keys == {Lit(t) : t \in DOMAIN r}
           f == [k \in keys |-> r[k[2]]]
           g == [k \in keys |-> p[k[2]]]
<1>1. Fields(r)[2] = f
  BY DEF Fields, Map
<1>2. DOMAIN p = DOMAIN r /\ p[s] = x /\ \A t \in DOMAIN r : t # s => p[t] = r[t]
  OBVIOUS
<1> HIDE DEF p
<1>3. Fields(p) = Map(g)
  BY <1>2 DEF Fields
<1>4. \A k \in keys : [f EXCEPT ![Lit(s)] = x][k] = g[k]
  BY <1>2 DEF Lit
<1>5. [f EXCEPT ![Lit(s)] = x] = g
  BY Zenon, <1>4
<1> QED BY <1>1, <1>3, <1>5 DEF p

\* A writing is read as ReadAs says, whole and without any one of its fields.
ReadRight(m) ==
    /\ Reading(m, m.body) = ReadAs(m, None)
    /\ m.by # "sql" => \A k \in DOMAIN Inner(m)[2] : Reading(m, Cut(m, k)) = ReadAs(m, Some(k))

\* ReadAs for a field that is missing.
LEMMA ReadAsCut ==
    ASSUME NEW m, NEW s, m.by # "notify"
    PROVE  ReadAs(m, Some(Lit(s))) =
             IF s = "iss" THEN Good(m.sent)
             ELSE IF s = "name" THEN Good([m.sent EXCEPT !.name = None])
             ELSE Bad
<1>1. /\ Some(Lit(s)) \in {None, Some(Lit("iss"))} <=> s = "iss"
      /\ Some(Lit(s)) = Some(Lit("name")) <=> s = "name"
  BY DEF Some, None, Lit
<1> QED BY <1>1 DEF ReadAs

\* A whole writing that is no notification is to be read as what was sent.
LEMMA ReadAsWhole ==
    ASSUME NEW m, m.by # "notify"
    PROVE  ReadAs(m, None) = Good(m.sent)
  BY DEF ReadAs, None, Some, Lit

\* The row of a receipt.
LEMMA SqlRight ==
    ASSUME NEW c, NEW r, Ours(r)
    PROVE  LET w == try_with(c, r) IN
           ReadRight([by |-> "sql", body |-> ReceiptRow(w), sent |-> w])
<1> DEFINE w == try_with(c, r)
           m == [by |-> "sql", body |-> ReceiptRow(w), sent |-> w]
<1>1. m.by = "sql" /\ m.body = ReceiptRow(w) /\ m.sent = w
  OBVIOUS
<1> HIDE DEF m
<1>2. ReadAs(m, None) = Good(w)
  BY <1>1, ReadAsWhole
<1>3. Reading(m, m.body) = Good(w)
  BY <1>1, RowRead DEF Reading
<1> QED BY <1>1, <1>2, <1>3 DEF ReadRight, m

\* A gossiped message.
LEMMA GossipRight ==
    ASSUME NEW c, NEW r, Ours(r)
    PROVE  LET w == try_with(c, r) IN
           ReadRight([by |-> "gossip", body |-> MessageToIpld(<<"Nonce96", Nonce96>>, ReceiptToIpld(w)),
                      sent |-> w])
<1> DEFINE w == try_with(c, r)
           nonce == <<"Nonce96", Nonce96>>
           f == AllFields(w)
           m == [by |-> "gossip", body |-> MessageToIpld(nonce, ReceiptToIpld(w)), sent |-> w]
           M(p) == [header |-> Fields([nonce |-> NonceToIpld(nonce)]), payload |-> p]
<1>1. m.by = "gossip" /\ m.body = MessageToIpld(nonce, ReceiptToIpld(w)) /\ m.sent = w
  OBVIOUS
<1>2. ReceiptToIpld(w) = Fields(f)
  BY Zenon, AllFieldsOf
<1>3. DOMAIN f = Needed \union {"iss", "cid", "instruction", "version"}
  BY Zenon, AllFieldsOf, ReceiptFieldsOf DEF Needed
<1>4. \A p : MessageToIpld(nonce, p) = Fields(M(p))
  BY DEF MessageToIpld
<1>5. \A p, x : "payload" \in DOMAIN M(p) /\ M(p)["payload"] = p /\ [M(p) EXCEPT !["payload"] = x] = M(x)
  OBVIOUS
<1>6. \A p : MessageFromIpld(MessageToIpld(nonce, p)) = ReceiptFromIpld(p)
  BY MessageRead
<1> HIDE DEF m, f, w, nonce, M
<1>7. Reading(m, m.body) = ReadAs(m, None)
  <2>1. Reading(m, m.body) = ReceiptFromIpld(Fields(f))
    BY <1>1, <1>2, <1>6 DEF Reading
  <2>2. ReceiptFromIpld(Fields(f)) = Good(w)
    BY <1>3, ReceiptRead DEF f, w
  <2> QED BY <1>1, <2>1, <2>2, ReadAsWhole
<1>8. Inner(m) = Fields(f)
  <2>1. Inner(m) = Get(m.body, "payload")
    BY <1>1 DEF Inner
  <2> QED BY <2>1, <1>1, <1>2, <1>4, <1>5, FieldsGet
<1>9. ASSUME NEW k \in DOMAIN Inner(m)[2]
      PROVE  Reading(m, Cut(m, k)) = ReadAs(m, Some(k))
  <2>1. PICK s \in DOMAIN f : k = Lit(s)
    BY <1>8, <1>9, FieldsKey
  <2>2. InnerWithout(m, k) = Fields(Drop(f, s))
    BY <1>8, <2>1, DropFields, Zenon DEF InnerWithout
  <2>3. Cut(m, k) = Map([m.body[2] EXCEPT ![Lit("payload")] = Fields(Drop(f, s))])
    BY <1>1, <2>2 DEF Cut
  <2>4. Cut(m, k) = MessageToIpld(nonce, Fields(Drop(f, s)))
    BY <2>3, <1>1, <1>4, <1>5, ReplaceField
  <2>5. Reading(m, Cut(m, k)) = ReceiptFromIpld(Fields(Drop(f, s)))
    BY <2>4, <1>1, <1>6 DEF Reading
  <2>6. DOMAIN Drop(f, s) = DOMAIN f \ {s} /\ \A t \in DOMAIN Drop(f, s) : Drop(f, s)[t] = f[t]
    BY DEF Drop
  <2>7. ReceiptFromIpld(Fields(Drop(f, s))) =
          IF Needed \union {"cid", "instruction", "version"} \subseteq DOMAIN f \ {s}
          THEN Good(w) ELSE Bad
    BY <2>6, ReceiptRead DEF f, w
  <2>8. Needed \union {"cid", "instruction", "version"} \subseteq DOMAIN f \ {s} <=> s = "iss"
    BY <1>3, <2>1 DEF Needed
  <2>9. s # "name"
    BY <1>3, <2>1 DEF Needed
  <2> QED BY Zenon, <1>1, <2>1, <2>5, <2>7, <2>8, <2>9, ReadAsCut
<1>10. ReadRight(m)
  BY <1>7, <1>9 DEF ReadRight
<1> QED BY <1>10 DEF m, w, nonce

\* The entry of a capsule is replaced.
LEMMA ReplaceCapsule ==
    ASSUME NEW code, NEW rest, NEW x
    PROVE  Map([Capsule(code, rest)[2] EXCEPT ![Lit(code)] = x]) = Capsule(code, x)
<1> DEFINE f == [k \in {Lit(code)} |-> rest]
<1>1. Capsule(code, rest)[2] = f
  BY DEF Capsule, Map
<1>2. [f EXCEPT ![Lit(code)] = x] = [k \in {Lit(code)} |-> x]
  OBVIOUS
<1> QED BY <1>1, <1>2 DEF Capsule

\* A receipt in a DHT record.
LEMMA DhtRight ==
    ASSUME NEW c, NEW r, Ours(r)
    PROVE  LET w == try_with(c, r) IN
           ReadRight([by |-> "dht", body |-> invocation_capsule(InvocationReceiptOf(w)), sent |-> w])
<1> DEFINE w == try_with(c, r)
           f == CapsuleFields(r)
           m == [by |-> "dht", body |-> invocation_capsule(InvocationReceiptOf(w)), sent |-> w]
<1>1. m.by = "dht" /\ m.body = Capsule("ipvm/receipt", Fields(f)) /\ m.sent = w /\ w.instruction = c
  <2>1. InvocationReceiptOf(w) = r /\ w.instruction = c
    BY ReceiptParts, Zenon
  <2>2. m.body = invocation_capsule(r)
    BY <2>1, Zenon
  <2>3. m.body = Capsule("ipvm/receipt", Fields(f))
    BY <2>2, CapsuleFieldsOf, Zenon
  <2> QED BY <2>1, <2>3, Zenon
<1>2. DOMAIN f = Needed \union {"iss", "version"}
  BY Zenon, CapsuleFieldsOf, ReceiptFieldsOf DEF Needed
<1> HIDE DEF m, f, w
<1>3. \A body : Reading(m, body) = decode_capsule(c, body)
  BY <1>1 DEF Reading
<1>4. Reading(m, m.body) = ReadAs(m, None)
  <2>1. decode_capsule(c, Capsule("ipvm/receipt", Fields(f))) = Good(w)
    BY <1>2, CapsuleRead DEF f, w
  <2> QED BY <1>1, <1>3, <2>1, ReadAsWhole
<1>5. Inner(m) = Fields(f)
  <2>1. Inner(m) = Get(m.body, "ipvm/receipt")
    BY <1>1 DEF Inner
  <2> QED BY <2>1, <1>1, CapsuleParts
<1>6. ASSUME NEW k \in DOMAIN Inner(m)[2]
      PROVE  Reading(m, Cut(m, k)) = ReadAs(m, Some(k))
  <2>1. PICK s \in DOMAIN f : k = Lit(s)
    BY <1>5, <1>6, FieldsKey
  <2>2. InnerWithout(m, k) = Fields(Drop(f, s))
    BY <1>5, <2>1, DropFields DEF InnerWithout
  <2>3. Cut(m, k) = Map([m.body[2] EXCEPT ![Lit("ipvm/receipt")] = Fields(Drop(f, s))])
    BY <1>1, <2>2 DEF Cut
  <2>4. Cut(m, k) = Capsule("ipvm/receipt", Fields(Drop(f, s)))
    BY <2>3, <1>1, ReplaceCapsule
  <2>5. DOMAIN Drop(f, s) = DOMAIN f \ {s} /\ \A t \in DOMAIN Drop(f, s) : Drop(f, s)[t] = f[t]
    BY DEF Drop
  <2>6. Reading(m, Cut(m, k)) =
          IF Needed \union {"version"} \subseteq DOMAIN f \ {s} THEN Good(w) ELSE Bad
    <3>1. decode_capsule(c, Capsule("ipvm/receipt", Fields(Drop(f, s)))) =
            IF Needed \union {"version"} \subseteq DOMAIN Drop(f, s) THEN Good(w) ELSE Bad
      BY <2>5, CapsuleRead DEF f, w
    <3> QED BY <3>1, <2>4, <2>5, <1>3
  <2>7. Needed \union {"version"} \subseteq DOMAIN f \ {s} <=> s = "iss"
    BY <1>2, <2>1 DEF Needed
  <2>8. s # "name"
    BY <1>2, <2>1 DEF Needed
  <2> QED BY Zenon, <1>1, <2>1, <2>6, <2>7, <2>8, ReadAsCut
<1>7. ReadRight(m)
  BY <1>4, <1>6 DEF ReadRight
<1> QED BY <1>7 DEF m, w

\* Workflow information in a DHT record.
LEMMA InfoRight ==
    ASSUME NEW shared, IsInfo(shared)
    PROVE  ReadRight([by |-> "info", body |-> capsule(shared), sent |-> shared])
<1> DEFINE f == InfoFields(shared)
           m == [by |-> "info", body |-> capsule(shared), sent |-> shared]
<1>1. m.by = "info" /\ m.body = Capsule("ipvm/workflow", Fields(f)) /\ m.sent = shared
  BY InfoFieldsOf DEF capsule, Capsule
<1>2. DOMAIN f = InfoNeeded \union {"name"}
  BY InfoFieldsOf, Zenon
<1> HIDE DEF m, f
<1>3. \A g : Reading(m, Capsule("ipvm/workflow", Fields(g))) = InfoFromIpld(Fields(g))
  BY <1>1, InfoCapsuleRead DEF Reading
<1>4. Reading(m, m.body) = ReadAs(m, None)
  <2>1. InfoFromIpld(Fields(f)) = Good(shared)
    BY Zenon, <1>2, InfoRead DEF f
  <2> QED BY <1>1, <1>3, <2>1, ReadAsWhole
<1>5. Inner(m) = Fields(f)
  <2>1. Inner(m) = Get(m.body, "ipvm/workflow")
    BY <1>1 DEF Inner
  <2> QED BY <2>1, <1>1, CapsuleParts
<1>6. ASSUME NEW k \in DOMAIN Inner(m)[2]
      PROVE  Reading(m, Cut(m, k)) = ReadAs(m, Some(k))
  <2>1. PICK s \in DOMAIN f : k = Lit(s)
    BY <1>5, <1>6, FieldsKey
  <2>2. InnerWithout(m, k) = Fields(Drop(f, s))
    BY <1>5, <2>1, DropFields DEF InnerWithout
  <2>3. Cut(m, k) = Map([m.body[2] EXCEPT ![Lit("ipvm/workflow")] = Fields(Drop(f, s))])
    BY <1>1, <2>2 DEF Cut
  <2>4. Cut(m, k) = Capsule("ipvm/workflow", Fields(Drop(f, s)))
    BY <2>3, <1>1, ReplaceCapsule
  <2>5. DOMAIN Drop(f, s) = DOMAIN f \ {s} /\ \A t \in DOMAIN Drop(f, s) : Drop(f, s)[t] = f[t]
    BY DEF Drop
  <2>6. InfoFromIpld(Fields(Drop(f, s))) =
          IF InfoNeeded \subseteq DOMAIN f \ {s}
          THEN Good(IF "name" \in DOMAIN f \ {s} THEN shared ELSE [shared EXCEPT !.name = None])
          ELSE Bad
    BY <2>5, InfoRead DEF f
  <2>7. /\ InfoNeeded \subseteq DOMAIN f \ {s} <=> s = "name"
        /\ "name" \in DOMAIN f \ {s} <=> s # "name"
        /\ s # "iss"
    BY <1>2, <2>1 DEF InfoNeeded
  <2> QED BY <1>1, <1>3, <2>1, <2>4, <2>6, <2>7, ReadAsCut
<1>7. ReadRight(m)
  BY <1>4, <1>6 DEF ReadRight
<1> QED BY <1>7 DEF m

\* A notification to a websocket client.
LEMMA NotifyRight ==
    ASSUME NEW e, e = [typ |-> e.typ, data |-> e.data, timestamp |-> e.timestamp], e.typ \in SwarmName
    PROVE  ReadRight([by |-> "notify", body |-> EventNotificationToIpld(e), sent |-> e])
<1> DEFINE f == EventFields(e)
           m == [by |-> "notify", body |-> EventNotificationToIpld(e), sent |-> e]
<1>1. m.by = "notify" /\ m.body = Fields(f) /\ m.sent = e
  BY Zenon, EventFieldsOf
<1>2. DOMAIN f = {"type", "data", "timestamp"}
  BY Zenon, EventFieldsOf
<1> HIDE DEF m, f
<1>3. \A body : Reading(m, body) = EventNotificationFromIpld(body)
  BY <1>1 DEF Reading
<1>4. Reading(m, m.body) = ReadAs(m, None)
  <2>1. EventNotificationFromIpld(Fields(f)) = IF e.typ # "putReceiptDht" THEN Good(e) ELSE Bad
    BY <1>2, EventRead DEF f
  <2>2. ReadAs(m, None) = IF e.typ # "putReceiptDht" THEN Good(e) ELSE Bad
    BY <1>1 DEF ReadAs, None, Some
  <2> QED BY <1>1, <1>3, <2>1, <2>2
<1>5. Inner(m) = Fields(f)
  BY <1>1 DEF Inner
<1>6. ASSUME NEW k \in DOMAIN Inner(m)[2]
      PROVE  Reading(m, Cut(m, k)) = ReadAs(m, Some(k))
  <2>1. PICK s \in DOMAIN f : k = Lit(s)
    BY <1>5, <1>6, FieldsKey
  <2>2. InnerWithout(m, k) = Fields(Drop(f, s))
    BY <1>5, <2>1, DropFields DEF InnerWithout
  <2>3. Cut(m, k) = Fields(Drop(f, s))
    BY <1>1, <2>2 DEF Cut
  <2>4. DOMAIN Drop(f, s) = DOMAIN f \ {s} /\ \A t \in DOMAIN Drop(f, s) : Drop(f, s)[t] = f[t]
    BY DEF Drop
  <2>5. EventNotificationFromIpld(Fields(Drop(f, s))) = Bad
    BY <1>2, <2>1, <2>4, EventRead DEF f
  <2>6. ReadAs(m, Some(k)) = Bad
    <3>1. s # "iss" /\ s # "name"
      BY <1>2, <2>1
    <3>2. Some(k) \notin {None, Some(Lit("iss"))} /\ Some(k) # Some(Lit("name"))
      BY <2>1, <3>1 DEF Some, None, Lit
    <3> QED BY <3>2 DEF ReadAs
  <2> QED BY <1>3, <2>3, <2>5, <2>6
<1>7. ReadRight(m)
  BY <1>4, <1>6 DEF ReadRight
<1> QED BY <1>7 DEF m

-----------------------------------------------------------------------------
(* What has been read as a workflow: sequences of tasks and of arguments *)

\* A field of a map that is part of a document is part of it.
LEMMA NodeGet ==
    ASSUME NEW i \in Node, Is("map", i), NEW s, Has(i, s)
    PROVE  Get(i, s) \in Node
  BY NodeAssumption DEF Has, Get

\* The tasks of a workflow are a sequence, and each has been read from a part
\* of the document (Workflow::try_from).
LEMMA TasksShape ==
    ASSUME NEW i \in Node, NEW w, WorkflowFromIpld(i) = Good(w)
    PROVE  /\ Len(w) \in Nat /\ DOMAIN w = 1..Len(w)
           /\ \A n \in DOMAIN w : \E j \in Node : TaskFromIpld(j) = Good(w[n])
<1> DEFINE s == Get(i, "tasks")[2]
<1>1. /\ Is("map", i) /\ Has(i, "tasks") /\ Is("list", Get(i, "tasks"))
      /\ DOMAIN w = DOMAIN s
      /\ w = [n \in DOMAIN w |-> w[n]]
      /\ \A n \in DOMAIN w : TaskFromIpld(s[n]) = Good(w[n])
  BY WorkflowParts, Zenon
<1>2. s \in Seq(Node)
  <2>1. Get(i, "tasks") \in Node
    BY <1>1, NodeGet, Zenon
  <2> QED BY <1>1, <2>1, NodeAssumption
<1> HIDE DEF s
<1>3. Len(s) \in Nat /\ DOMAIN s = 1..Len(s) /\ \A n \in DOMAIN s : s[n] \in Node
  BY <1>2
<1>4. DOMAIN w = 1..Len(s)
  BY <1>1, <1>3
<1>5. Len(w) = Len(s)
  BY <1>1, <1>3, <1>4
<1>6. ASSUME NEW n \in DOMAIN w
      PROVE  \E j \in Node : TaskFromIpld(j) = Good(w[n])
  BY <1>1, <1>3, <1>6
<1> QED BY <1>3, <1>4, <1>5, <1>6

\* An input that has been read as plain IPLD is the value it was read from.
LEMMA PlainInput ==
    ASSUME NEW i, NEW v, InputFromIpld(i) = Good(v), v[1] = "Ipld"
    PROVE  v[2] = i
<1>1. CASE InputFromIpld(i) = Good(ArgOrIpld(i))
  <2>1. v = ArgOrIpld(i)
    BY Zenon, <1>1, GoodSame
  <2> QED BY <2>1 DEF ArgOrIpld
<1>2. CASE \E b : InputFromIpld(i) = Promised(i, b)
  <2>1. PICK b : InputFromIpld(i) = Promised(i, b)
    BY <1>2
  <2>2. Promised(i, b).ok
    BY Zenon, <2>1, GoodVal
  <2>3. PICK c : Promised(i, b) = Good(<<"Deferred", [instruction |-> c, result |-> b]>>)
    BY <2>2, PromisedShape, Zenon
  <2>4. v = <<"Deferred", [instruction |-> c, result |-> b]>>
    BY Zenon, <2>1, <2>3, GoodSame
  <2> QED BY <2>4
<1> QED BY <1>1, <1>2, Zenon DEF InputFromIpld

\* What Parse reads: the arguments are those of a list in the input.
LEMMA ParseParts ==
    ASSUME NEW v, parse(v).ok
    PROVE  /\ v[1] = "Ipld" /\ Is("map", v[2]) /\ Has(v[2], "args") /\ Is("list", Get(v[2], "args"))
           /\ parse(v).val.args = [n \in DOMAIN Get(v[2], "args")[2] |-> ArgFromIpld(Get(v[2], "args")[2][n])]
<1> DEFINE i == v[2]
           func == IF Field(i, "func").ok THEN from_ipld("string", Field(i, "func").val) ELSE Bad
           args == IF Field(i, "args").ok THEN ArgsFromIpld(Field(i, "args").val) ELSE Bad
<1>1. parse(v) = IF v[1] = "Ipld" /\ Is("map", i) /\ func.ok /\ args.ok
                 THEN Good([fun |-> func.val, args |-> args.val]) ELSE Bad
  BY GoodVal, Zenon DEF parse, Then, AsMap
<1> HIDE DEF i, func, args
<1>2. v[1] = "Ipld" /\ Is("map", i) /\ func.ok /\ args.ok
  BY <1>1, GoodVal
<1>3. parse(v).val.args = args.val
  BY <1>1, <1>2, GoodVal
<1>4. Has(i, "args") /\ args = ArgsFromIpld(Get(i, "args"))
  <2>1. Field(i, "args").ok
    BY <1>2, GoodVal DEF args
  <2>2. Has(i, "args") /\ Field(i, "args").val = Get(i, "args")
    BY <2>1, GoodVal DEF Field
  <2> QED BY <2>1, <2>2 DEF args
<1> DEFINE l == Get(i, "args")
<1>5. ArgsFromIpld(l) = IF Is("list", l) THEN Good([n \in DOMAIN l[2] |-> ArgFromIpld(l[2][n])]) ELSE Bad
  BY GoodVal, Zenon DEF ArgsFromIpld, Then, from_ipld
<1>6. Is("list", l) /\ args.val = [n \in DOMAIN l[2] |-> ArgFromIpld(l[2][n])]
  BY <1>2, <1>4, <1>5, GoodVal
<1> QED BY <1>2, <1>3, <1>4, <1>6 DEF i

\* The instruction of a task that has been read expanded.
LEMMA TaskInstruction ==
    ASSUME NEW i \in Node, NEW t, TaskFromIpld(i) = Good(t), t.run[1] = "Expanded"
    PROVE  \E j \in Node : InstructionFromIpld(j) = Good(t.run[2])
<1> DEFINE j == Get(i, "run")
<1>1. Is("map", i) /\ Has(i, "run") /\ RunFromIpld(j) = Good(t.run)
  BY TaskParts, Zenon
<1>2. j \in Node
  BY <1>1, NodeGet, Zenon
<1> HIDE DEF j
<1>3. CASE Is("map", j)
  <2>1. ~ Is("link", j)
    BY <1>3 DEF Is
  <2>2. RunFromIpld(j) = IF InstructionFromIpld(j).ok
                         THEN Good(<<"Expanded", InstructionFromIpld(j).val>>) ELSE Bad
    BY <1>3, <2>1 DEF RunFromIpld, Then
  <2>3. InstructionFromIpld(j).ok /\ t.run = <<"Expanded", InstructionFromIpld(j).val>>
    BY Zenon, <1>1, <2>2, GoodVal, GoodSame
  <2>4. InstructionFromIpld(j) = Good(t.run[2])
    BY <2>3, SoundInstruction DEF Sound
  <2> QED BY <1>2, <2>4
<1>4. CASE ~ Is("map", j)
  <2>1. RunFromIpld(j) = Good(<<"Ptr", j[2]>>) \/ RunFromIpld(j) = Bad
    BY <1>4 DEF RunFromIpld
  <2>2. t.run = <<"Ptr", j[2]>>
    BY <1>1, <2>1, GoodVal, GoodSame
  <2> QED BY <2>2
<1> QED BY <1>3, <1>4

\* The arguments of a task that can be parsed are a sequence of inputs.
LEMMA ArgsShape ==
    ASSUME NEW i \in Node, NEW s, InstructionFromIpld(i) = Good(s), parse(s.input).ok
    PROVE  \E l \in Seq(Node) : parse(s.input).val.args = [n \in DOMAIN l |-> ArgFromIpld(l[n])]
<1> DEFINE v == s.input
           l == Get(v[2], "args")
<1>1. /\ v[1] = "Ipld" /\ Is("map", v[2]) /\ Has(v[2], "args") /\ Is("list", l)
      /\ parse(v).val.args = [n \in DOMAIN l[2] |-> ArgFromIpld(l[2][n])]
  BY ParseParts, Zenon
<1>2. Is("map", i) /\ Has(i, "input") /\ InputFromIpld(Get(i, "input")) = Good(v)
  BY InstructionParts, Zenon
<1>3. Get(i, "input") \in Node
  BY <1>2, NodeGet, Zenon
<1>4. v[2] = Get(i, "input")
  BY <1>1, <1>2, PlainInput, Zenon
<1>5. l \in Node
  BY <1>1, <1>3, <1>4, NodeGet, Zenon
<1>6. l[2] \in Seq(Node)
  BY <1>1, <1>5, NodeAssumption
<1> QED BY <1>1, <1>6, Zenon

-----------------------------------------------------------------------------
(* Numbers: the least, the greatest, and sets in their order *)

\* The order of the natural numbers is well-founded.
LEMMA NatOrder ==
    \E R : /\ IsWellFoundedOn(R, Nat)
           /\ \A y, x \in Nat : y < x => <<y, x>> \in R
<1>1. \A y, x \in Nat : y < x => <<y, x>> \in OpToRel(<, Nat)
  BY DEF OpToRel
<1> QED BY <1>1, NatLessThanWellFounded, Zenon

\* A set of natural numbers has a least element: the index of the batch a
\* worker is at, for one.
LEMMA NatMin ==
    ASSUME NEW T, T \subseteq Nat, T # {}
    PROVE  \E m \in T : \A k \in T : m <= k
<1>1. PICK R : /\ IsWellFoundedOn(R, Nat)
               /\ \A y, x \in Nat : y < x => <<y, x>> \in R
  BY NatOrder, Zenon
<1>2. IsWellFoundedOn(R, Nat)
  BY <1>1, Zenon
<1>3. PICK x \in T : \A y \in T : ~ (<<y, x>> \in R)
  BY <1>2, WFMin, Zenon
<1>4. \A y, z \in Nat : y < z => <<y, z>> \in R
  BY <1>1, Zenon
<1>5. \A y \in T : ~ (y < x)
  BY <1>3, <1>4, Zenon
<1> QED BY <1>5, SMT

\* A bounded one has a greatest, which Max chooses: the last task with an
\* instruction (lookup_table), the last batch a node reads from.
LEMMA MaxOf ==
    ASSUME NEW S, S \subseteq Nat, S # {}, NEW k \in Nat, \A x \in S : x <= k
    PROVE  Max(S) \in S /\ \A x \in S : x <= Max(S)
<1> DEFINE T == {u \in Nat : \A x \in S : x <= u}
<1>1. PICK m \in T : \A u \in T : m <= u
  <2>1. T \subseteq Nat /\ T # {}
    OBVIOUS
  <2> HIDE DEF T
  <2> QED BY <2>1, NatMin, Zenon
<1>2. m \in Nat /\ \A x \in S : x <= m
  BY <1>1
<1>3. m \in S
  <2>1. SUFFICES ASSUME m \notin S PROVE FALSE
    OBVIOUS
  <2>2. \A x \in S : x < m
    BY <1>2, <2>1
  <2>3. PICK e \in S : e \in Nat /\ e < m
    BY Zenon, <2>2
  <2>4. m - 1 \in Nat
    BY <1>2, <2>3
  <2>5. \A x \in S : x <= m - 1
    BY <1>2, <2>2
  <2>6. m - 1 \in T
    BY <2>4, <2>5
  <2> QED BY <1>1, <1>2, <2>6
<1>4. \E x \in S : \A y \in S : x >= y
  BY <1>2, <1>3
<1>5. Max(S) \in S /\ \A y \in S : Max(S) >= y
  BY <1>4, Zenon DEF Max
<1> QED BY <1>5

\* The elements of a set of natural numbers in their order.
Ordered(f, S) ==
    /\ f \in [1..Cardinality(S) -> S]
    /\ \A a, b \in DOMAIN f : a < b => f[a] < f[b]

\* A set that gains a new greatest element is put in order at its end.
LEMMA OrderedMore ==
    ASSUME NEW S, IsFiniteSet(S), S \subseteq Nat, NEW m \in Nat, \A x \in S : x < m,
           NEW f, Ordered(f, S)
    PROVE  \E g : Ordered(g, S \union {m})
<1> DEFINE c == Cardinality(S)
           g == [a \in 1..(c + 1) |-> IF a = c + 1 THEN m ELSE f[a]]
<1>1. c \in Nat
  BY FS_CardinalityType, Zenon
<1>2. Cardinality(S \union {m}) = c + 1
  <2>1. m \notin S
    OBVIOUS
  <2> QED BY <2>1, FS_AddElement, Zenon
<1>3. f \in [1..c -> S] /\ \A a, b \in 1..c : a < b => f[a] < f[b]
  BY DEF Ordered
<1> HIDE DEF c
<1>4. g \in [1..(c + 1) -> S \union {m}]
  BY <1>1, <1>3
<1>5. ASSUME NEW a \in 1..(c + 1), NEW b \in 1..(c + 1), a < b
      PROVE  g[a] < g[b]
  <2>1. a \in 1..c /\ g[a] = f[a] /\ f[a] \in S
    BY <1>1, <1>3, <1>5
  <2>2. CASE b = c + 1
    BY Zenon, <2>1, <2>2
  <2>3. CASE b # c + 1
    <3>1. b \in 1..c /\ g[b] = f[b]
      BY <1>1, <1>5, <2>3
    <3> QED BY <1>3, <1>5, <2>1, <3>1
  <2> QED BY <2>2, <2>3
<1>6. DOMAIN g = 1..(c + 1)
  OBVIOUS
<1> HIDE DEF g
<1>7. Ordered(g, S \union {m})
  BY Zenon, <1>2, <1>4, <1>5, <1>6 DEF Ordered
<1> QED BY <1>7, Zenon

\* A finite set of indices can be put in order: Args::links and its like
\* collect what they filter in the order of the vector.
LEMMA OrderedExists ==
    ASSUME NEW N \in Nat, NEW S \in SUBSET (1..N)
    PROVE  \E f : Ordered(f, S)
<1> DEFINE Fails(k) == \E U \in SUBSET (1..k) : \A f : ~ Ordered(f, U)
           T == {k \in Nat : Fails(k)}
<1> SUFFICES T = {}
  <2>1. ASSUME T = {} PROVE ~ Fails(N)
    BY <2>1
  <2> QED BY <2>1
<1> SUFFICES ASSUME T # {} PROVE FALSE
  OBVIOUS
<1>1. PICK k \in T : \A j \in T : k <= j
  <2>1. T \subseteq Nat
    OBVIOUS
  <2> HIDE DEF T
  <2> QED BY <2>1, NatMin, Zenon
<1>2. PICK U \in SUBSET (1..k) : \A f : ~ Ordered(f, U)
  BY <1>1
<1>3. k \in Nat /\ \A j \in Nat : j < k => ~ Fails(j)
  <2>1. k \in Nat /\ \A j \in Nat : Fails(j) => k <= j
    BY <1>1, Zenon
  <2> HIDE DEF Fails
  <2> QED BY <2>1
<1> HIDE DEF Fails, T
<1>4. IsFiniteSet(U)
  <2>1. IsFiniteSet(1..k)
    BY <1>3, FS_Interval
  <2> QED BY <2>1, FS_Subset, Zenon
<1>5. CASE U = {}
  <2>1. Cardinality(U) = 0
    BY <1>5, FS_EmptySet, Zenon
  <2>2. Ordered([a \in 1..0 |-> 0], U)
    BY <2>1, <1>5 DEF Ordered
  <2> QED BY <1>2, <2>2
<1>6. CASE U # {}
  <2>1. k > 0
    <3>1. PICK x \in U : x \in 1..k
      BY Zenon, <1>6
    <3> QED BY <1>3, <3>1
  <2>2. \A V \in SUBSET (1..(k - 1)) : \E f : Ordered(f, V)
    <3>1. ~ Fails(k - 1)
      BY <1>3, <2>1
    <3> QED BY <3>1 DEF Fails
  <2>3. CASE k \notin U
    <3>1. U \in SUBSET (1..(k - 1))
      BY <1>3, <2>1, <2>3
    <3> QED BY <1>2, <2>2, <3>1
  <2>4. CASE k \in U
    <3> DEFINE V == U \ {k}
    <3>1. V \in SUBSET (1..(k - 1)) /\ V \subseteq Nat /\ \A x \in V : x < k
      BY <1>3, <2>1
    <3>2. IsFiniteSet(V)
      BY <1>4, FS_RemoveElement, Zenon
    <3>3. V \union {k} = U
      BY <2>4
    <3> HIDE DEF V
    <3>4. PICK f : Ordered(f, V)
      BY <2>2, <3>1
    <3>5. \E g : Ordered(g, V \union {k})
      BY Zenon, <1>3, <3>1, <3>2, <3>4, OrderedMore
    <3> QED BY <1>2, <3>3, <3>5
  <2> QED BY <2>3, <2>4
<1> QED BY <1>5, <1>6

\* A set in order is all of it.
LEMMA OrderedAll ==
    ASSUME NEW S, NEW f, IsFiniteSet(S), S \subseteq Nat, Ordered(f, S)
    PROVE  \A x \in S : \E a \in DOMAIN f : x = f[a]
<1> DEFINE c == Cardinality(S)
<1>1. c \in Nat
  BY FS_CardinalityType, Zenon
<1>2. Cardinality(1..c) = c
  BY <1>1, FS_Interval
<1>3. f \in [1..c -> S] /\ \A a, b \in 1..c : a < b => f[a] < f[b]
  BY DEF Ordered
<1> HIDE DEF c
<1>4. f \in Injection(1..c, S)
  <2>1. ASSUME NEW a \in 1..c, NEW b \in 1..c, f[a] = f[b] PROVE a = b
    <3>1. f[a] \in Nat
      BY Zenon, <1>3
    <3>2. a \in Nat /\ b \in Nat /\ ~ (a < b) /\ ~ (b < a)
      BY <1>1, <1>3, <2>1, <3>1
    <3> QED BY <3>2
  <2> QED BY <1>3, <2>1 DEF Injection, IsInjective
<1>5. f \in Surjection(1..c, S)
  <2>1. Cardinality(1..c) = Cardinality(S)
    BY <1>2 DEF c
  <2> QED BY <1>4, <2>1, FS_Injection, Zenon
<1> QED BY <1>3, <1>5 DEF Surjection

-----------------------------------------------------------------------------
(* Builder: the index of the resources and the batches *)

\* Args::links: every argument that is a link is in the list.
LEMMA LinksOf ==
    ASSUME NEW N \in Nat, NEW args, DOMAIN args = 1..N
    PROVE  /\ Len(links(args)) \in Nat /\ DOMAIN links(args) = 1..Len(links(args))
           /\ \A n \in DOMAIN args :
                (args[n][1] = "Ipld" /\ Is("link", args[n][2])) =>
                   \E k \in DOMAIN links(args) : links(args)[k] = args[n][2][2]
<1> DEFINE at == {n \in DOMAIN args : args[n][1] = "Ipld" /\ Is("link", args[n][2])}
           nth == CHOOSE f \in [1..Cardinality(at) -> at] : \A a, b \in DOMAIN f : a < b => f[a] < f[b]
           c == Cardinality(at)
<1>1. links(args) = [k \in DOMAIN nth |-> args[nth[k]][2][2]]
  BY Zenon DEF links
<1>2. at \in SUBSET (1..N) /\ at \subseteq Nat
  OBVIOUS
<1>3. \A n \in DOMAIN args : (args[n][1] = "Ipld" /\ Is("link", args[n][2])) => n \in at
  OBVIOUS
<1> HIDE DEF at
<1>4. IsFiniteSet(at)
  <2>1. IsFiniteSet(1..N)
    BY FS_Interval
  <2> QED BY <1>2, <2>1, FS_Subset, Zenon
<1>5. c \in Nat
  BY <1>4, FS_CardinalityType, Zenon
<1>6. Ordered(nth, at)
  <2>1. PICK f : Ordered(f, at)
    BY <1>2, OrderedExists, Zenon
  <2>2. f \in [1..Cardinality(at) -> at] /\ \A a, b \in DOMAIN f : a < b => f[a] < f[b]
    BY <2>1, Zenon DEF Ordered
  <2>3. nth \in [1..Cardinality(at) -> at] /\ \A a, b \in DOMAIN nth : a < b => nth[a] < nth[b]
    BY <2>2, Zenon
  <2> HIDE DEF nth
  <2> QED BY <2>3, Zenon DEF Ordered
<1> HIDE DEF nth
<1>7. DOMAIN nth = 1..c /\ \A x \in at : \E a \in DOMAIN nth : x = nth[a]
  <2>1. DOMAIN nth = 1..c
    BY <1>6 DEF Ordered
  <2>2. \A x \in at : \E a \in DOMAIN nth : x = nth[a]
    BY <1>2, <1>4, <1>6, OrderedAll, Zenon
  <2> QED BY <2>1, <2>2, Zenon
<1> HIDE DEF c
<1>8. DOMAIN links(args) = 1..c /\ \A k \in 1..c : links(args)[k] = args[nth[k]][2][2]
  BY <1>1, <1>7
<1>9. Len(links(args)) = c
  BY <1>1, <1>5, <1>7
<1>10. ASSUME NEW n \in at
       PROVE  \E k \in 1..c : links(args)[k] = args[n][2][2]
  BY <1>7, <1>8
<1> QED BY <1>3, <1>5, <1>8, <1>9, <1>10

\* Going once through a sequence of links is the sequence.
LEMMA OnceAround ==
    ASSUME NEW L \in Nat, NEW C \in Nat, C >= 1, NEW k \in 1..L
    PROVE  k \in 1..(C * L) /\ ((k - 1) % L) + 1 = k
<1>1. C * L \in Nat /\ C * L >= L
  <2>1. PICK d \in Nat : C = d + 1
    BY DEF Nat
  <2>2. C * L = d * L + L
    BY <2>1
  <2>3. d * L \in Nat
    BY <2>1
  <2> QED BY <2>2, <2>3
<1>2. (k - 1) % L = k - 1
  OBVIOUS
<1> QED BY <1>1, <1>2

\* A workflow that has been read and whose graph has been built.
Ready(w) == (\E i \in Node : WorkflowFromIpld(i) = Good(w)) /\ graph(w).ok

\* Builder::graph: every task is expanded and can be parsed.
LEMMA GraphParts ==
    ASSUME NEW w, graph(w).ok
    PROVE  /\ \A n \in DOMAIN w : Expanded(w, n) /\ Parsed(w, n).ok
           /\ build_schedule(w).ok
           /\ graph(w) = Good([schedule |-> build_schedule(w).val, indexed_resources |-> IndexedResources(w)])
<1>1. graph(w) = IF (\A n \in DOMAIN w : Expanded(w, n)) /\ (\A n \in DOMAIN w : Parsed(w, n).ok)
                    /\ build_schedule(w).ok
                 THEN Good([schedule |-> build_schedule(w).val, indexed_resources |-> IndexedResources(w)])
                 ELSE Bad
  BY Zenon DEF graph, Then
<1> QED BY <1>1, GoodVal, Zenon

\* The instruction of a task has been read from a part of the document.
LEMMA NodeInstruction ==
    ASSUME NEW w, Ready(w), NEW n \in DOMAIN w
    PROVE  \E j \in Node : InstructionFromIpld(j) = Good(InstrOf(w, n))
<1>1. PICK i \in Node : WorkflowFromIpld(i) = Good(w)
  BY DEF Ready
<1>2. PICK j \in Node : TaskFromIpld(j) = Good(w[n])
  BY <1>1, TasksShape, Zenon
<1>3. w[n].run[1] = "Expanded"
  BY GraphParts, Zenon DEF Ready, Expanded
<1> QED BY <1>2, <1>3, TaskInstruction, Zenon DEF InstrOf

\* Tasks of one identifier have one instruction: the index Builder keeps per
\* identifier is that of each of them.
LEMMA SameInstruction ==
    ASSUME NEW w, Ready(w), NEW m \in DOMAIN w, NEW n \in DOMAIN w,
           instruction_cid(w[m]) = instruction_cid(w[n])
    PROVE  InstrOf(w, m) = InstrOf(w, n)
<1>1. w[m].run[1] = "Expanded" /\ w[n].run[1] = "Expanded"
  BY GraphParts, Zenon DEF Ready, Expanded
<1>2. to_cid(InstructionToIpld(InstrOf(w, m))) = to_cid(InstructionToIpld(InstrOf(w, n)))
  BY <1>1, Zenon DEF instruction_cid, InstrOf
<1>3. InstructionToIpld(InstrOf(w, m)) = InstructionToIpld(InstrOf(w, n))
  BY <1>2 DEF to_cid
<1>4. \E j : InstructionFromIpld(j) = Good(InstrOf(w, m))
  BY NodeInstruction, Zenon
<1>5. \E j : InstructionFromIpld(j) = Good(InstrOf(w, n))
  BY NodeInstruction, Zenon
<1>6. InstructionFromIpld(InstructionToIpld(InstrOf(w, m))) = Good(InstrOf(w, m))
  BY <1>4, InstructionBack, Zenon
<1>7. InstructionFromIpld(InstructionToIpld(InstrOf(w, n))) = Good(InstrOf(w, n))
  BY <1>5, InstructionBack, Zenon
<1>8. Good(InstrOf(w, m)) = Good(InstrOf(w, n))
  BY <1>3, <1>6, <1>7, Zenon
<1> QED BY <1>8, GoodSame, Zenon

\* The arguments of a task: a sequence, each element read by Args::try_from.
LEMMA NodeArgs ==
    ASSUME NEW w, Ready(w), NEW n \in DOMAIN w
    PROVE  \E l \in Seq(Node) : ArgsOf(w, n) = [k \in DOMAIN l |-> ArgFromIpld(l[k])]
<1>1. PICK j \in Node : InstructionFromIpld(j) = Good(InstrOf(w, n))
  BY NodeInstruction, Zenon
<1>2. parse(InstrOf(w, n).input).ok
  BY GraphParts, Zenon DEF Ready, Parsed
<1> QED BY <1>1, <1>2, ArgsShape, Zenon DEF ArgsOf, Parsed

\* What Builder indexes for one instruction.
RscsOf(w, some, times) ==
    LET cids == links(ArgsOf(w, some)) IN
    <<<<"Url", InstrOf(w, some).rsc>>>>
    \o [k \in 1..(times * Len(cids)) |-> <<"Cid", cids[((k - 1) % Len(cids)) + 1]>>]

\* It has the module of the task and every link that is an argument of it.
LEMMA RscsHave ==
    ASSUME NEW w, Ready(w), NEW n \in DOMAIN w, NEW times \in Nat, times >= 1
    PROVE  LET s == RscsOf(w, n, times) IN
           /\ Len(s) \in Nat /\ DOMAIN s = 1..Len(s)
           /\ s[1] = <<"Url", InstrOf(w, n).rsc>> /\ 1 \in DOMAIN s
           /\ \A k \in DOMAIN s : k > 1 => \E c : s[k] = <<"Cid", c>>
           /\ s = [k \in DOMAIN s |-> s[k]]
           /\ \A k \in DOMAIN ArgsOf(w, n) :
                (ArgsOf(w, n)[k][1] = "Ipld" /\ Is("link", ArgsOf(w, n)[k][2])) =>
                   <<"Cid", ArgsOf(w, n)[k][2][2]>> \in Range(s)
<1> DEFINE args == ArgsOf(w, n)
           cids == links(args)
           L == Len(cids)
           url == <<"Url", InstrOf(w, n).rsc>>
           more == [k \in 1..(times * L) |-> <<"Cid", cids[((k - 1) % L) + 1]>>]
           s == <<url>> \o more
<1>1. RscsOf(w, n, times) = s
  BY Zenon DEF RscsOf
<1>2. PICK N \in Nat : DOMAIN args = 1..N
  <2>1. PICK l \in Seq(Node) : args = [k \in DOMAIN l |-> ArgFromIpld(l[k])]
    BY NodeArgs
  <2>2. DOMAIN l = 1..Len(l) /\ Len(l) \in Nat
    OBVIOUS
  <2> QED BY Zenon, <2>1, <2>2
<1>3. /\ L \in Nat /\ DOMAIN cids = 1..L
      /\ \A k \in DOMAIN args : (args[k][1] = "Ipld" /\ Is("link", args[k][2])) =>
                                   \E a \in DOMAIN cids : cids[a] = args[k][2][2]
  BY <1>2, LinksOf, Zenon
<1> HIDE DEF args, cids, L
<1>4. times * L \in Nat
  BY <1>3
<1> DEFINE T == times * L
           Item(k) == <<"Cid", cids[((k - 1) % L) + 1]>>
<1>5. more \in Seq({Item(k) : k \in 1..T}) /\ Len(more) = T /\ \A k \in 1..T : more[k] = Item(k)
  <2>1. T \in Nat
    BY <1>4
  <2>2. more = [k \in 1..T |-> Item(k)]
    OBVIOUS
  <2> HIDE DEF more, T, Item
  <2> QED BY <2>1, <2>2
<1>6. more = [k \in 1..T |-> more[k]] /\ T \in Nat
  BY <1>4
<1> HIDE DEF more, T, url
<1>7. /\ Len(s) = T + 1 /\ DOMAIN s = 1..(T + 1) /\ s[1] = url
      /\ \A k \in 1..T : s[k + 1] = more[k]
      /\ s = [k \in DOMAIN s |-> s[k]]
  <2> DEFINE U == {url} \union {Item(k) : k \in 1..T}
  <2>1. <<url>> \in Seq(U) /\ Len(<<url>>) = 1 /\ <<url>>[1] = url
    OBVIOUS
  <2>2. more \in Seq(U)
    <3>1. {Item(k) : k \in 1..T} \subseteq U
      OBVIOUS
    <3>2. \A A, B : A \subseteq B => Seq(A) \subseteq Seq(B)
      OBVIOUS
    <3> QED BY <1>5, <3>1, <3>2
  <2> HIDE DEF U, Item
  <2>3. s \in Seq(U) /\ Len(s) = 1 + T
    BY <1>5, <2>1, <2>2
  <2>4. s[1] = url /\ \A k \in 1..T : s[k + 1] = more[k]
    BY <1>5, <1>6, <2>1, <2>2
  <2> HIDE DEF s
  <2> QED BY <1>6, <2>3, <2>4
<1> HIDE DEF s
<1>8. ASSUME NEW k \in DOMAIN s, k > 1 PROVE \E c : s[k] = <<"Cid", c>>
  <2>1. k - 1 \in 1..T /\ (k - 1) + 1 = k
    BY <1>6, <1>7, <1>8
  <2>2. s[k] = Item(k - 1)
    BY Zenon, <1>5, <1>7, <2>1
  <2> QED BY <2>2
<1>9. ASSUME NEW k \in DOMAIN args, args[k][1] = "Ipld", Is("link", args[k][2])
      PROVE  <<"Cid", args[k][2][2]>> \in Range(s)
  <2>1. PICK a \in 1..L : cids[a] = args[k][2][2]
    BY <1>3, <1>9
  <2>2. a \in 1..T /\ ((a - 1) % L) + 1 = a
    BY <1>3, OnceAround DEF T
  <2>3. s[a + 1] = <<"Cid", args[k][2][2]>>
    <3>1. s[a + 1] = more[a] /\ more[a] = Item(a)
      BY <1>5, <1>7, <2>2, Zenon
    <3>2. Item(a) = <<"Cid", cids[a]>>
      BY <2>2
    <3> QED BY <2>1, <3>1, <3>2, Zenon
  <2>4. a + 1 \in DOMAIN s
    BY <1>6, <1>7, <2>2
  <2> QED BY <2>3, <2>4 DEF Range
<1>10. Len(s) \in Nat /\ DOMAIN s = 1..Len(s) /\ 1 \in DOMAIN s
  BY <1>6, <1>7
<1> QED BY <1>1, <1>7, <1>8, <1>9, <1>10 DEF args, url

\* The entry of an identifier is that of some task with it.
LEMMA IndexEntry ==
    ASSUME NEW w, Ready(w), NEW c \in CidsOf(w)
    PROVE  \E some \in DOMAIN w, times \in Nat :
             /\ instruction_cid(w[some]) = c /\ times >= 1
             /\ IndexedResources(w)[c] = RscsOf(w, some, times)
<1> DEFINE same == {n \in DOMAIN w : instruction_cid(w[n]) = c}
           some == CHOOSE n \in same : TRUE
<1>1. IndexedResources(w)[c] = RscsOf(w, some, Cardinality(same))
  BY Zenon DEF IndexedResources, RscsOf
<1>2. same # {} /\ same \subseteq DOMAIN w
  BY DEF CidsOf
<1>3. some \in same
  BY <1>2, Zenon
<1>4. instruction_cid(w[some]) = c /\ some \in DOMAIN w
  BY <1>3
<1> HIDE DEF same, some
<1>5. IsFiniteSet(same)
  <2>1. PICK i \in Node : WorkflowFromIpld(i) = Good(w)
    BY DEF Ready
  <2>2. Len(w) \in Nat /\ DOMAIN w = 1..Len(w)
    BY <2>1, TasksShape, Zenon
  <2>3. IsFiniteSet(DOMAIN w)
    BY <2>2, FS_Interval
  <2> QED BY <1>2, <2>3, FS_Subset, Zenon
<1>6. Cardinality(same) \in Nat /\ Cardinality(same) # 0
  BY <1>2, <1>5, FS_CardinalityType, FS_EmptySet, Zenon
<1>7. Cardinality(same) >= 1
  BY <1>6
<1> QED BY <1>1, <1>4, <1>6, <1>7, Zenon

\* The resources Fetch::get_resources asks for.
Wanted(index) == UNION {Range(rs) : rs \in Range(index)}

\* Every task finds its module among the resources, and every link that is an
\* argument of its own.
LEMMA IndexHas ==
    ASSUME NEW w, Ready(w), NEW n \in DOMAIN w
    PROVE  /\ <<"Url", InstrOf(w, n).rsc>> \in Wanted(IndexedResources(w))
           /\ \A k \in DOMAIN ArgsOf(w, n) :
                (ArgsOf(w, n)[k][1] = "Ipld" /\ Is("link", ArgsOf(w, n)[k][2])) =>
                   <<"Cid", ArgsOf(w, n)[k][2][2]>> \in Wanted(IndexedResources(w))
<1> DEFINE c == instruction_cid(w[n])
           index == IndexedResources(w)
<1>1. c \in CidsOf(w) /\ DOMAIN index = CidsOf(w)
  BY DEF CidsOf, IndexedResources
<1>2. PICK some \in DOMAIN w, times \in Nat :
             /\ instruction_cid(w[some]) = c /\ times >= 1
             /\ index[c] = RscsOf(w, some, times)
  BY <1>1, IndexEntry, Zenon
<1>3. InstrOf(w, some) = InstrOf(w, n)
  BY <1>2, SameInstruction, Zenon
<1>4. ArgsOf(w, some) = ArgsOf(w, n)
  BY <1>3 DEF ArgsOf, Parsed
<1> DEFINE s == RscsOf(w, some, times)
           args == ArgsOf(w, some)
<1>5. s[1] = <<"Url", InstrOf(w, some).rsc>> /\ 1 \in DOMAIN s
  BY <1>2, RscsHave, Zenon
<1>6. \A k \in DOMAIN args : (args[k][1] = "Ipld" /\ Is("link", args[k][2])) =>
                                 <<"Cid", args[k][2][2]>> \in Range(s)
  BY <1>2, RscsHave, Zenon
<1> HIDE DEF index, c, s, args
<1>7. Range(s) \subseteq Wanted(index)
  <2>1. s \in Range(index)
    BY <1>1, <1>2 DEF Range, s
  <2> QED BY <2>1 DEF Wanted
<1>8. <<"Url", InstrOf(w, n).rsc>> \in Wanted(index)
  <2>1. s[1] \in Range(s)
    BY <1>5 DEF Range
  <2> QED BY <1>3, <1>5, <1>7, <2>1
<1>9. \A k \in DOMAIN args : (args[k][1] = "Ipld" /\ Is("link", args[k][2])) =>
                                 <<"Cid", args[k][2][2]>> \in Wanted(index)
  BY <1>6, <1>7
<1> QED BY <1>4, <1>8, <1>9 DEF index, args

\* The index has the form in which workflow information is read back.
LEMMA IndexShape ==
    ASSUME NEW w, Ready(w)
    PROVE  IsIndex(IndexedResources(w))
<1> DEFINE index == IndexedResources(w)
<1>1. index = [c \in DOMAIN index |-> index[c]] /\ DOMAIN index = CidsOf(w)
  <2> DEFINE Entry(c) ==
               LET same == {n \in DOMAIN w : instruction_cid(w[n]) = c}
               IN  RscsOf(w, CHOOSE n \in same : TRUE, Cardinality(same))
  <2>1. index = [c \in CidsOf(w) |-> Entry(c)]
    BY Zenon DEF IndexedResources, RscsOf
  <2> HIDE DEF index, Entry
  <2> QED BY <2>1
<1>2. ASSUME NEW c \in CidsOf(w)
      PROVE  /\ index[c] = [n \in DOMAIN index[c] |-> index[c][n]]
             /\ \A n \in DOMAIN index[c] : IsRsc(index[c][n])
  <2>1. PICK some \in DOMAIN w, times \in Nat :
               /\ instruction_cid(w[some]) = c /\ times >= 1
               /\ index[c] = RscsOf(w, some, times)
    BY IndexEntry, Zenon
  <2> HIDE DEF index
  <2>2. /\ Len(index[c]) \in Nat /\ DOMAIN index[c] = 1..Len(index[c])
        /\ index[c][1] = <<"Url", InstrOf(w, some).rsc>>
        /\ \A k \in DOMAIN index[c] : k > 1 => \E d : index[c][k] = <<"Cid", d>>
        /\ index[c] = [n \in DOMAIN index[c] |-> index[c][n]]
    BY <2>1, RscsHave
  <2>3. InstrOf(w, some).rsc[1] \in UrlKind
    <3>1. PICK j \in Node : InstructionFromIpld(j) = Good(InstrOf(w, some))
      BY NodeInstruction, Zenon
    <3>2. \E k : ResourceUrl(k) = Good(InstrOf(w, some).rsc)
      BY <3>1, InstructionParts, Zenon
    <3> QED BY <3>2, ResourceShape, Zenon
  <2>4. ASSUME NEW n \in DOMAIN index[c] PROVE IsRsc(index[c][n])
    <3>1. CASE n = 1
      BY <2>2, <2>3, <3>1 DEF IsRsc
    <3>2. CASE n > 1
      BY <2>2, <3>2 DEF IsRsc
    <3> QED BY <2>2, <3>1, <3>2
  <2> QED BY <2>2, <2>4
<1> HIDE DEF index
<1>3. IsIndex(index)
  BY <1>1, <1>2 DEF IsIndex
<1> QED BY <1>3 DEF index

\* lookup_table: the node under an identifier is a task with it.
LEMMA LookupNode ==
    ASSUME NEW w, Ready(w), NEW c \in CidsOf(w)
    PROVE  lookup_table(w)[c] \in DOMAIN w
<1> DEFINE S == {n \in DOMAIN w : instruction_cid(w[n]) = c}
<1>1. lookup_table(w)[c] = Max(S)
  BY Zenon DEF lookup_table
<1>2. PICK i \in Node : WorkflowFromIpld(i) = Good(w)
  BY DEF Ready
<1>3. Len(w) \in Nat /\ DOMAIN w = 1..Len(w)
  BY <1>2, TasksShape, Zenon
<1>4. S \subseteq DOMAIN w /\ S # {}
  BY DEF CidsOf
<1> HIDE DEF S
<1>5. S \subseteq Nat /\ \A x \in S : x <= Len(w)
  BY <1>3, <1>4
<1>6. Max(S) \in S
  BY <1>3, <1>4, <1>5, MaxOf
<1> QED BY <1>1, <1>4, <1>6

\* What a node reads are nodes.
LEMMA ReadsNodes ==
    ASSUME NEW w, Ready(w), NEW n \in DOMAIN w
    PROVE  reads(w, n) \subseteq DOMAIN w
<1>1. \A c \in CidsOf(w) : lookup_table(w)[c] \in DOMAIN w
  BY LookupNode
<1> QED BY <1>1, Zenon DEF reads

\* A schedule: each node is in one batch, after all nodes it reads.
Scheduled(w, s, batch) ==
    /\ batch \in [DOMAIN w -> DOMAIN s]
    /\ DOMAIN s \subseteq Nat
    /\ \A b \in DOMAIN s : s[b] = {n \in DOMAIN w : batch[n] = b}
    /\ \A n \in DOMAIN w : \A m \in reads(w, n) : batch[m] < batch[n]

\* A batch that is one more than the greatest of those it comes after.
LEMMA LayerAfter ==
    ASSUME NEW w, Ready(w), NEW batch \in [DOMAIN w -> Nat],
           NEW top \in Nat, \A n \in DOMAIN w : batch[n] <= top,
           Layered(w, batch), NEW n \in DOMAIN w, NEW m \in reads(w, n)
    PROVE  batch[m] < batch[n]
<1>1. Before(w, n) = reads(w, n)
  BY DEF Before, Barrier
<1> DEFINE S == {0} \union {batch[k] : k \in Before(w, n)}
<1>2. batch[n] = 1 + Max(S)
  BY Zenon DEF Layered
<1>3. reads(w, n) \subseteq DOMAIN w
  BY ReadsNodes, Zenon
<1>4. S \subseteq Nat /\ S # {} /\ (\A x \in S : x <= top) /\ batch[m] \in S
  BY <1>1, <1>3
<1> HIDE DEF S
<1>5. Max(S) \in S /\ batch[m] <= Max(S)
  BY Zenon, <1>4, MaxOf
<1>6. Max(S) \in Nat /\ batch[m] \in Nat
  BY Zenon, <1>4, <1>5
<1> QED BY <1>2, <1>5, <1>6

\* The schedule dagga finds is one: Builder::graph gives dagga the reads of
\* every node.
LEMMA ScheduleOf ==
    ASSUME NEW w, Ready(w)
    PROVE  \E batch : Scheduled(w, build_schedule(w).val, batch)
<1> DEFINE batches == {f \in [DOMAIN w -> 1..Len(w)] : Layered(w, f)}
           batch == CHOOSE f \in batches : TRUE
           S == {0} \union {batch[n] : n \in DOMAIN w}
           s == [b \in 1..Max(S) |-> {n \in DOMAIN w : batch[n] = b}]
<1>1. build_schedule(w) = IF batches = {} THEN Bad ELSE Good(s)
  BY Zenon DEF build_schedule
<1>2. build_schedule(w).ok
  BY GraphParts, Zenon DEF Ready
<1>3. batches # {}
  BY <1>1, <1>2, GoodVal, Zenon
<1>4. batch \in batches
  BY <1>3, Zenon
<1>5. batch \in [DOMAIN w -> 1..Len(w)] /\ Layered(w, batch)
  BY <1>4, Zenon
<1>6. build_schedule(w).val = s
  BY <1>1, <1>3, GoodVal, Zenon
<1> HIDE DEF batch, batches
<1>7. PICK i \in Node : WorkflowFromIpld(i) = Good(w)
  BY DEF Ready
<1>8. Len(w) \in Nat
  BY <1>7, TasksShape, Zenon
<1>9. S \subseteq Nat /\ S # {} /\ (\A x \in S : x <= Len(w)) /\ \A n \in DOMAIN w : batch[n] \in S
  BY <1>5, <1>8
<1> HIDE DEF S
<1>10. Max(S) \in Nat /\ \A n \in DOMAIN w : batch[n] <= Max(S)
  <2>1. Max(S) \in S /\ \A x \in S : x <= Max(S)
    BY Zenon, <1>8, <1>9, MaxOf
  <2> QED BY Zenon, <1>9, <2>1
<1>11. batch \in [DOMAIN w -> 1..Max(S)]
  BY <1>5, <1>8, <1>10
<1>12. ASSUME NEW n \in DOMAIN w, NEW m \in reads(w, n)
       PROVE  batch[m] < batch[n]
  <2>1. batch \in [DOMAIN w -> Nat] /\ \A k \in DOMAIN w : batch[k] <= Len(w)
    BY <1>5, <1>8
  <2> QED BY <2>1, <1>5, <1>8, LayerAfter
<1>13. DOMAIN s = 1..Max(S) /\ \A b \in DOMAIN s : s[b] = {n \in DOMAIN w : batch[n] = b}
  OBVIOUS
<1> HIDE DEF s
<1>14. Scheduled(w, s, batch)
  BY <1>10, <1>11, <1>12, <1>13 DEF Scheduled
<1> QED BY <1>6, <1>14

\* The worker is at the first batch that is not done.
LEMMA AtBatch ==
    ASSUME NEW batch, Scheduled(wf, Batches, batch), NEW n \in Current
    PROVE  /\ n \in DOMAIN wf /\ n \notin ran
           /\ \A b \in DOMAIN Batches : b < batch[n] => Batches[b] \subseteq ran
<1> DEFINE left == {b \in DOMAIN Batches : ~ Batches[b] \subseteq ran}
           at == CHOOSE b \in left : \A a \in left : b <= a
<1>1. Current = IF left = {} THEN {} ELSE Batches[at] \ ran
  BY Zenon DEF Current
<1>2. left # {} /\ n \in Batches[at] /\ n \notin ran
  BY <1>1
<1>3. left \subseteq Nat /\ DOMAIN Batches \subseteq Nat
  BY DEF Scheduled
<1>4. at \in left /\ \A a \in left : at <= a
  <2> HIDE DEF left
  <2>1. \E b \in left : \A a \in left : b <= a
    BY <1>2, <1>3, NatMin, Zenon
  <2> QED BY <2>1, Zenon
<1>5. \A b \in DOMAIN Batches : b \notin left => Batches[b] \subseteq ran
  OBVIOUS
<1>6. at \in DOMAIN Batches
  BY <1>4
<1> HIDE DEF left, at
<1>7. n \in DOMAIN wf /\ batch[n] = at
  BY <1>2, <1>6 DEF Scheduled
<1>8. ASSUME NEW b \in DOMAIN Batches, b < at PROVE b \notin left
  <2>1. b \in Nat /\ at \in Nat
    BY <1>3, <1>6
  <2> QED BY <1>4, <1>8, <2>1
<1> QED BY <1>2, <1>5, <1>7, <1>8

\* A task is taken up once all it reads have had their turn.
LEMMA TurnAfterReads ==
    ASSUME NEW batch, Scheduled(wf, Batches, batch), NEW n \in Current, NEW m \in reads(wf, n),
           reads(wf, n) \subseteq DOMAIN wf
    PROVE  m \in ran \ {n}
<1>1. /\ n \in DOMAIN wf /\ n \notin ran
      /\ \A b \in DOMAIN Batches : b < batch[n] => Batches[b] \subseteq ran
  BY AtBatch
<1>2. m \in DOMAIN wf /\ batch[m] < batch[n] /\ batch[m] \in DOMAIN Batches
  BY <1>1 DEF Scheduled
<1>3. m \in Batches[batch[m]]
  BY <1>2 DEF Scheduled
<1> QED BY <1>1, <1>2, <1>3

-----------------------------------------------------------------------------
(* The invariants *)

\* A writing on its way: read as ReadAs says, and a receipt that has the
\* identifier Receipt::try_with gives it.
Faithful(m) ==
    /\ ReadRight(m)
    /\ m.by \in {"sql", "gossip", "dht"} =>
         m.sent = try_with(m.sent.instruction, InvocationReceiptOf(m.sent))

\* The state up to a run: what has been read, built and fetched.
Prepared ==
    /\ doc \in Node
    /\ stage \in {"read", "built", "run"} => WorkflowFromIpld(doc) = Good(wf)
    /\ stage \in {"built", "run"} =>
         /\ graph(wf).ok /\ plan = Some(graph(wf).val)
         /\ info = Some(DefaultInfo(to_cid(WorkflowToIpld(wf)), Some(Name), Len(wf),
                                    IndexedResources(wf)))
    /\ stage = "run" => fetched = Wanted(IndexedResources(wf))
    /\ stage \in {"doc", "read", "built"} => call = None

\* The links among the arguments of the last call were found.
LinksFound ==
    call # None =>
        \A n \in DOMAIN call[1].given :
          LET v == call[1].given[n] IN
          (v[1] = "Ipld" /\ Is("link", v[2])) => v[2][2] \in DOMAIN call[1].lookup

Inv == Prepared /\ PromisesKept /\ LinksFound

\* What is written of receipts and read of them.
Sent == (\A m \in wire : Faithful(m)) /\ ReceivedIsSent /\ ContentAddressed

\* Args::resolve leaves a promise open only when the lookup does not find it.
LEMMA PromiseOpen ==
    ASSUME NEW i, NEW lookup, resolve(ArgFromIpld(i), lookup)[1] = "Deferred"
    PROVE  /\ ArgFromIpld(i)[1] = "Deferred"
           /\ resolve(ArgFromIpld(i), lookup) = ArgFromIpld(i)
           /\ ArgFromIpld(i)[2].instruction \notin DOMAIN lookup
<1> DEFINE v == ArgFromIpld(i)
           r == ResultFromIpld(i)
           a == AwaitFromIpld(i)
<1>1. v = IF r.ok THEN <<"Arg", r.val>> ELSE IF a.ok THEN <<"Deferred", a.val>> ELSE <<"Ipld", i>>
  BY Zenon DEF ArgFromIpld
<1> HIDE DEF v, r, a
<1>2. CASE r.ok
  <2>1. v[1] = "Arg"
    BY <1>1, <1>2
  <2>2. resolve(v, lookup) = v
    BY <2>1 DEF resolve
  <2> QED BY <2>1, <2>2 DEF v
<1>3. CASE ~ r.ok /\ a.ok
  <2>1. v[1] = "Deferred"
    BY <1>1, <1>3
  <2>2. resolve(v, lookup) = ResolvePromise(v[2], lookup)
    BY <2>1 DEF resolve
  <2>3. ResolvePromise(v[2], lookup) = IF v[2].instruction \in DOMAIN lookup
                                       THEN <<"Arg", lookup[v[2].instruction]>> ELSE <<"Deferred", v[2]>>
    BY DEF ResolvePromise
  <2>4. v[2].instruction \notin DOMAIN lookup
    BY <2>2, <2>3 DEF v
  <2>5. <<"Deferred", v[2]>> = v
    BY <1>1, <1>3
  <2> QED BY <2>1, <2>2, <2>3, <2>4, <2>5 DEF v
<1>4. CASE ~ r.ok /\ ~ a.ok
  <2>1. v[1] = "Ipld" /\ v[2] = i
    BY <1>1, <1>4
  <2>2. resolve(v, lookup) = <<"Ipld", ResolveLinks(i, lookup)>>
    BY <2>1, <1>4 DEF resolve, a
  <2> QED BY <2>2 DEF v
<1> QED BY <1>2, <1>3, <1>4

\* The batches of the graph the worker runs are those the builder has made.
LEMMA BatchesOf ==
    ASSUME Ready(wf), plan = Some(graph(wf).val)
    PROVE  Batches = build_schedule(wf).val
<1>1. graph(wf).val = [schedule |-> build_schedule(wf).val, indexed_resources |-> IndexedResources(wf)]
  BY GraphParts, GoodVal, Zenon DEF Ready
<1>2. \A s, x : [schedule |-> s, indexed_resources |-> x].schedule = s
  OBVIOUS
<1>3. \A g : Some(g)[1] = g
  BY DEF Some
<1>4. graph(wf).val.schedule = build_schedule(wf).val
  BY <1>1, <1>2, Zenon
<1>5. plan[1] = graph(wf).val
  BY <1>3, Zenon
<1> QED BY <1>4, <1>5, Zenon DEF Batches

\* A call of a task whose turn it is keeps the promises.
LEMMA CallKeepsPromises ==
    ASSUME Ready(wf), plan = Some(graph(wf).val), NEW n \in Current, NEW lookup,
           NEW k \in DOMAIN ArgsOf(wf, n),
           resolve_args(ArgsOf(wf, n), lookup)[k][1] = "Deferred",
           resolve_args(ArgsOf(wf, n), lookup)[k][2].instruction \in CidsOf(wf)
    PROVE  LET c == resolve_args(ArgsOf(wf, n), lookup)[k][2].instruction IN
           lookup_table(wf)[c] \in ran \ {n} /\ c \notin DOMAIN lookup
<1> DEFINE args == ArgsOf(wf, n)
           c == resolve_args(args, lookup)[k][2].instruction
<1>1. PICK batch : Scheduled(wf, Batches, batch)
  <2>2. Batches = build_schedule(wf).val
    BY BatchesOf, Zenon
  <2> QED BY <2>2, ScheduleOf
<1>2. n \in DOMAIN wf
  BY <1>1, AtBatch
<1>3. PICK l \in Seq(Node) : args = [j \in DOMAIN l |-> ArgFromIpld(l[j])]
  BY <1>2, NodeArgs
<1>4. resolve_args(args, lookup)[k] = resolve(args[k], lookup)
  BY DEF resolve_args
<1>5. args[k] = ArgFromIpld(l[k])
  BY <1>3
<1> HIDE DEF args
<1>6. /\ args[k][1] = "Deferred" /\ resolve(args[k], lookup) = args[k]
      /\ args[k][2].instruction \notin DOMAIN lookup
  BY <1>4, <1>5, PromiseOpen DEF args
<1>7. c = args[k][2].instruction /\ c \notin DOMAIN lookup /\ c \in CidsOf(wf)
  BY <1>4, <1>6 DEF args
<1>8. lookup_table(wf)[c] \in reads(wf, n)
  <2>1. c \in deferreds(args)
    BY <1>6, <1>7 DEF deferreds, args
  <2> HIDE DEF c
  <2> QED BY <1>7, <2>1 DEF reads, args
<1>9. reads(wf, n) \subseteq DOMAIN wf
  BY <1>2, ReadsNodes, Zenon
<1>10. lookup_table(wf)[c] \in ran \ {n}
  BY Zenon, <1>1, <1>8, <1>9, TurnAfterReads
<1> QED BY <1>7, <1>10 DEF args

\* A call of a task finds the links among its arguments.
LEMMA CallFindsLinks ==
    ASSUME Ready(wf), fetched = Wanted(IndexedResources(wf)), NEW n \in DOMAIN wf,
           NEW lookup \in Lookups, NEW k \in DOMAIN ArgsOf(wf, n),
           ArgsOf(wf, n)[k][1] = "Ipld", Is("link", ArgsOf(wf, n)[k][2])
    PROVE  ArgsOf(wf, n)[k][2][2] \in DOMAIN lookup
<1> DEFINE c == ArgsOf(wf, n)[k][2][2]
<1>1. <<"Cid", c>> \in fetched
  BY Zenon, IndexHas
<1> HIDE DEF c
<1>2. c \in DOMAIN Blobs
  <2>1. c \in {rsc[2] : rsc \in {f \in fetched : f[1] = "Cid"}}
    BY <1>1
  <2> QED BY <2>1 DEF Blobs
<1>3. DOMAIN Blobs \subseteq DOMAIN lookup
  BY DEF Lookups, Over
<1> QED BY <1>2, <1>3 DEF c

\* The receipts of a run are ours.
LEMMA ReceiptOurs ==
    ASSUME NEW n, NEW out
    PROVE  \E c, r : Ours(r) /\ ReceiptOf(n, out) = try_with(c, r)
<1> DEFINE c == instruction_cid(wf[n])
           r == [ran |-> to_cid(InvocationToIpld(wf[n])), out |-> <<"ok", out>>,
                 meta |-> Fields([op |-> String(Parsed(wf, n).val.fun)]),
                 issuer |-> None, prf |-> <<>>]
<1>1. ReceiptOf(n, out) = try_with(c, r)
  BY Zenon DEF ReceiptOf
<1>2. Ours(r)
  BY DEF Ours, Branch
<1> HIDE DEF r
<1> QED BY <1>1, <1>2

\* The information a worker shares after a task is well formed.
LEMMA SharedInfo ==
    ASSUME Ready(wf), NEW cid, NEW own,
           info = Some(DefaultInfo(own, Some(Name), Len(wf), IndexedResources(wf)))
    PROVE  IsInfo(increment_progress(info[1], cid))
<1> DEFINE f == increment_progress(info[1], cid)
           index == IndexedResources(wf)
<1>1. PICK i \in Node : WorkflowFromIpld(i) = Good(wf)
  BY DEF Ready
<1>2. Len(wf) \in Nat
  BY <1>1, TasksShape, Zenon
<1>3. IsIndex(index)
  BY IndexShape, Zenon
<1> HIDE DEF index
<1>4. f = [cid |-> own, name |-> Some(Name), num_tasks |-> Len(wf), progress |-> <<cid>>,
           progress_count |-> 2, resources |-> index]
  <2> DEFINE g == info[1]
             name == Some(Name)
             tasks == Len(wf)
  <2>1. g = [cid |-> own, name |-> name, num_tasks |-> tasks, progress |-> <<>>,
             progress_count |-> 0, resources |-> index]
    BY DEF DefaultInfo, Some, index
  <2>2. f = [[g EXCEPT !.progress = Append(g.progress, cid)] EXCEPT !.progress_count = Len(g.progress) + 2]
    BY Zenon DEF increment_progress
  <2>3. Append(<<>>, cid) = <<cid>> /\ Len(<<>>) + 2 = 2
    OBVIOUS
  <2> HIDE DEF f, g, name, tasks
  <2>4. g.progress = <<>>
    BY <2>1
  <2>5. f = [[g EXCEPT !.progress = <<cid>>] EXCEPT !.progress_count = 2]
    BY <2>2, <2>3, <2>4
  <2>6. f = [cid |-> own, name |-> name, num_tasks |-> tasks, progress |-> <<cid>>,
             progress_count |-> 2, resources |-> index]
    BY Zenon, <2>1, <2>5
  <2> QED BY Zenon, <2>6 DEF name, tasks
<1> HIDE DEF f
<1> DEFINE one == <<cid>>
           some == Some(Name)
<1>5. one = [n \in DOMAIN one |-> one[n]]
  OBVIOUS
<1> HIDE DEF one, some
<1>6. /\ f.cid = own /\ f.name = some /\ f.num_tasks = Len(wf) /\ f.progress = one
      /\ f.progress_count = 2 /\ f.resources = index
      /\ f = [cid |-> f.cid, name |-> f.name, num_tasks |-> f.num_tasks, progress |-> f.progress,
              progress_count |-> f.progress_count, resources |-> f.resources]
  BY <1>4 DEF one, some
<1>7. \E s : f.name = Some(s)
  BY <1>6 DEF some
<1>8. IsInfo(f)
  BY <1>2, <1>3, <1>5, <1>6, <1>7 DEF IsInfo
<1> QED BY <1>8 DEF f

\* What publish_and_notify and commit_receipt write is faithful.
LEMMA WritingsFaithful ==
    ASSUME NEW c, NEW r, Ours(r), IsInfo(increment_progress(info[1], try_with(c, r).cid)),
           NEW m \in Writings(try_with(c, r))
    PROVE  Faithful(m)
<1> DEFINE w == try_with(c, r)
           shared == increment_progress(info[1], w.cid)
           note == [typ |-> "putReceiptDht", data |-> Fields([cid |-> Link(w.cid)]), timestamp |-> 1]
           sql == [by |-> "sql", body |-> ReceiptRow(w), sent |-> w]
           gossip == [by |-> "gossip", body |-> MessageToIpld(<<"Nonce96", Nonce96>>, ReceiptToIpld(w)), sent |-> w]
           dht == [by |-> "dht", body |-> invocation_capsule(InvocationReceiptOf(w)), sent |-> w]
           record == [by |-> "info", body |-> capsule(shared), sent |-> shared]
           Notify(e) == [by |-> "notify", body |-> EventNotificationToIpld(e), sent |-> e]
           other == [note EXCEPT !.typ = "publishedReceiptPubsub"]
<1>1. m \in {sql, gossip, dht, record} \union {Notify(e) : e \in {note, other}}
  BY Zenon DEF Writings
<1>2. ReadRight(sql) /\ ReadRight(gossip) /\ ReadRight(dht)
  BY SqlRight, GossipRight, DhtRight, Zenon
<1>3. ReadRight(record)
  BY InfoRight, Zenon
<1>4. \A e \in {note, other} : ReadRight(Notify(e))
  <2>1. \A e \in {note, other} :
          e = [typ |-> e.typ, data |-> e.data, timestamp |-> e.timestamp] /\ e.typ \in SwarmName
    <3> DEFINE d == Fields([cid |-> Link(w.cid)])
    <3> HIDE DEF d
    <3> QED BY DEF SwarmName
  <2> HIDE DEF note, other
  <2> QED BY <2>1, NotifyRight
<1>5. w = try_with(w.instruction, InvocationReceiptOf(w))
  BY ReceiptParts, Zenon
<1>6. /\ sql.sent = w /\ gossip.sent = w /\ dht.sent = w
      /\ record.by = "info" /\ \A e : Notify(e).by = "notify"
  OBVIOUS
<1> HIDE DEF w, shared, note, sql, gossip, dht, record, Notify, other
<1>7. CASE m \in {sql, gossip, dht}
  BY <1>2, <1>5, <1>6, <1>7 DEF Faithful
<1>8. CASE m = record
  BY <1>3, <1>6, <1>8 DEF Faithful
<1>9. CASE m \in {Notify(e) : e \in {note, other}}
  <2>1. PICK e \in {note, other} : m = Notify(e)
    BY <1>9
  <2>2. ReadRight(m) /\ m.by = "notify"
    BY <1>4, <1>6, <2>1
  <2> QED BY <2>2 DEF Faithful
<1> QED BY <1>1, <1>7, <1>8, <1>9

\* What is accepted of a faithful receipt has the identifier of its content.
LEMMA AcceptedAddressed ==
    ASSUME NEW m, Faithful(m), m.by \in {"sql", "gossip", "dht"}, NEW cut, ReadAs(m, cut).ok
    PROVE  LET r == ReadAs(m, cut).val IN r.cid = to_cid(InvocationReceiptToIpld(InvocationReceiptOf(r)))
<1> DEFINE w == m.sent
           inner == InvocationReceiptOf(w)
<1>1. w = Receipt(to_cid(InvocationReceiptToIpld(inner)), w.instruction, inner)
  BY Zenon DEF Faithful, try_with
<1>2. w.cid = to_cid(InvocationReceiptToIpld(inner))
  <2> HIDE DEF inner, w
  <2> QED BY <1>1 DEF Receipt
<1>3. [w EXCEPT !.name = None] = w
  <2> DEFINE id == to_cid(InvocationReceiptToIpld(inner))
  <2> HIDE DEF inner, w, id
  <2>1. w = [cid |-> id, ran |-> inner.ran, instruction |-> w.instruction, out |-> inner.out,
             meta |-> inner.meta, issuer |-> inner.issuer, prf |-> inner.prf, version |-> Version]
    BY <1>1 DEF Receipt, id
  <2> QED BY <2>1
<1>4. ReadAs(m, cut) \in {Good(w), Bad}
  BY <1>3 DEF ReadAs
<1>5. ReadAs(m, cut).val = w
  BY <1>4, GoodVal
<1> QED BY <1>2, <1>5

-----------------------------------------------------------------------------
(* The theorems *)

\* Reading a workflow succeeds with the workflow, or fails.
LEMMA SoundWorkflow ==
    ASSUME NEW i
    PROVE  Sound(WorkflowFromIpld(i))
<1>1. Sound(Bad) /\ \A v : Sound(Good(v))
  BY GoodVal DEF Sound
<1>2. \A s : Sound(Each(s, TaskFromIpld))
  BY <1>1, Zenon DEF Each
<1> QED BY <1>1, <1>2, Zenon DEF WorkflowFromIpld, Then, AsMap, Field, from_ipld

\* A workflow whose run has been prepared is ready.
LEMMA PreparedReady ==
    ASSUME Prepared, stage \in {"built", "run"}
    PROVE  Ready(wf)
  BY DEF Prepared, Ready

\* The index in the graph is that of Builder.
LEMMA GraphIndex ==
    ASSUME NEW w, graph(w).ok
    PROVE  graph(w).val.indexed_resources = IndexedResources(w)
<1>1. graph(w).val = [schedule |-> build_schedule(w).val, indexed_resources |-> IndexedResources(w)]
  BY GraphParts, GoodVal, Zenon
<1> QED BY <1>1

\* Steps that call no function keep what is stated of the last call.
LEMMA CallKept ==
    ASSUME PromisesKept, LinksFound, UNCHANGED <<call, wf>>, ran \subseteq ran'
    PROVE  PromisesKept' /\ LinksFound'
  BY Zenon DEF PromisesKept, LinksFound

\* A step that prepares a run finds no call made.
LEMMA NoCall ==
    ASSUME call = None, UNCHANGED call
    PROVE  PromisesKept' /\ LinksFound'
  BY DEF PromisesKept, LinksFound

\* A function is called with promises kept and links found.
LEMMA CallMade ==
    ASSUME Ready(wf), plan = Some(graph(wf).val), fetched = Wanted(IndexedResources(wf)),
           NEW n \in Current, NEW types, NEW lookup \in Lookups,
           call' = Some([node |-> n, lookup |-> lookup, given |-> ArgsOf(wf, n),
                         args |-> resolve_args(ArgsOf(wf, n), lookup), types |-> types]),
           UNCHANGED wf, ran \subseteq ran'
    PROVE  PromisesKept' /\ LinksFound'
<1> DEFINE given == ArgsOf(wf, n)
           args == resolve_args(given, lookup)
<1>1. /\ call'[1].node = n /\ call'[1].lookup = lookup
      /\ call'[1].given = given /\ call'[1].args = args /\ wf' = wf
  BY DEF Some
<1>2. DOMAIN args = DOMAIN given
  BY DEF resolve_args
<1>3. \A k \in DOMAIN given :
         (args[k][1] = "Deferred" /\ args[k][2].instruction \in CidsOf(wf)) =>
            /\ lookup_table(wf)[args[k][2].instruction] \in ran \ {n}
            /\ args[k][2].instruction \notin DOMAIN lookup
  BY Zenon, CallKeepsPromises
<1>4. n \in DOMAIN wf
  <2>2. Batches = build_schedule(wf).val
    BY BatchesOf, Zenon
  <2>3. PICK batch : Scheduled(wf, Batches, batch)
    BY <2>2, ScheduleOf
  <2> QED BY <2>3, AtBatch
<1>5. \A k \in DOMAIN given :
         (given[k][1] = "Ipld" /\ Is("link", given[k][2])) => given[k][2][2] \in DOMAIN lookup
  BY <1>4, CallFindsLinks
<1> HIDE DEF given, args
<1>6. PromisesKept'
  BY Zenon, <1>1, <1>2, <1>3 DEF PromisesKept
<1>7. LinksFound'
  BY Zenon, <1>1, <1>5 DEF LinksFound
<1> QED BY Zenon, <1>6, <1>7

\* What a run is prepared with stays, and its calls are as they should be.
LEMMA InvHolds == Spec => []Inv
<1>1. Init => Inv
  BY NodeAssumption DEF Init, Inv, Prepared, PromisesKept, LinksFound
<1>2. Inv /\ [Next]_vars => Inv'
  <2> SUFFICES ASSUME Inv, [Next]_vars PROVE Inv'
    OBVIOUS
  <2> USE DEF Inv
  <2>1. CASE Read
    <3>1. stage = "doc" /\ call = None /\ UNCHANGED call
      BY <2>1 DEF Read, Prepared
    <3>2. WorkflowFromIpld(doc).ok => WorkflowFromIpld(doc) = Good(WorkflowFromIpld(doc).val)
      BY SoundWorkflow DEF Sound
    <3>3. Prepared'
      BY <2>1, <3>1, <3>2 DEF Read, Prepared
    <3> QED BY <3>1, <3>3, NoCall
  <2>2. CASE Build
    <3>1. stage = "read" /\ call = None /\ UNCHANGED call
      BY <2>2 DEF Build, Prepared
    <3>2. graph(wf).ok => graph(wf).val.indexed_resources = IndexedResources(wf)
      BY GraphIndex
    <3>3. Prepared'
      BY <2>2, <3>1, <3>2 DEF Build, Prepared
    <3> QED BY <3>1, <3>3, NoCall
  <2>3. CASE FetchResources
    <3>1. stage = "built" /\ call = None /\ UNCHANGED call
      BY Zenon, <2>3 DEF FetchResources, Prepared
    <3>2. plan[1].indexed_resources = IndexedResources(wf)
      BY <3>1, GraphIndex DEF Prepared, Some
    <3>3. fetched' = Wanted(IndexedResources(wf)) \/ stage' = "end"
      BY Zenon, <2>3, <3>2 DEF FetchResources, Wanted
    <3>4. Prepared'
      BY Zenon, <2>3, <3>1, <3>3 DEF FetchResources, Prepared
    <3> QED BY <3>1, <3>4, NoCall
  <2>4. CASE RunTask
    <3>1. /\ stage = "run" /\ Ready(wf) /\ plan = Some(graph(wf).val)
          /\ fetched = Wanted(IndexedResources(wf))
      BY <2>4, PreparedReady DEF RunTask, Prepared
    <3>2. Prepared'
      <4>1. stage' \in {"run", "end"}
        BY Zenon, <2>4, <3>1 DEF RunTask, Run
      <4>2. UNCHANGED <<doc, wf, plan, fetched, info>>
        BY <2>4 DEF RunTask
      <4> QED BY <3>1, <4>1, <4>2 DEF Prepared
    <3>3. PICK n \in Current :
            \/ stage' = "end" /\ UNCHANGED <<ran, results, call, wire>>
            \/ \E types \in ParamType, lookup \in Lookups : Run(n, types, lookup)
            \/ ran' = ran \union {n} /\ UNCHANGED <<stage, results, call, wire>>
      BY <2>4, Zenon DEF RunTask
    <3>4. UNCHANGED wf
      BY <2>4 DEF RunTask
    <3>5. CASE \E types \in ParamType, lookup \in Lookups : Run(n, types, lookup)
      <4>1. PICK types \in ParamType, lookup \in Lookups : Run(n, types, lookup)
        BY <3>5
      <4>2. call' = Some([node |-> n, lookup |-> lookup, given |-> ArgsOf(wf, n),
                          args |-> resolve_args(ArgsOf(wf, n), lookup), types |-> types])
        BY <4>1, Zenon DEF Run
      <4>3. ran \subseteq ran'
        BY <4>1 DEF Run
      <4>4. PromisesKept' /\ LinksFound'
        BY Zenon, <3>1, <3>4, <4>2, <4>3, CallMade
      <4> QED BY <3>2, <4>4
    <3>6. CASE UNCHANGED call /\ ran \subseteq ran'
      BY <3>2, <3>4, <3>6, CallKept
    <3> QED BY <3>3, <3>5, <3>6
  <2>5. CASE Receive
    <3>1. stage' = "end" /\ UNCHANGED <<doc, wf, plan, fetched, ran, info, call>>
      BY <2>5 DEF Receive
    <3> QED BY <3>1, CallKept DEF Prepared
  <2>6. CASE Finish
    <3>1. stage' = "end" /\ UNCHANGED <<doc, wf, plan, fetched, ran, info, call>>
      BY <2>6 DEF Finish
    <3> QED BY <3>1, CallKept DEF Prepared
  <2>7. CASE UNCHANGED vars
    <3>1. UNCHANGED <<stage, doc, wf, plan, fetched, ran, info, call>>
      BY <2>7 DEF vars
    <3> QED BY <3>1, CallKept DEF Prepared
  <2> QED BY <2>1, <2>2, <2>3, <2>4, <2>5, <2>6, <2>7 DEF Next
<1> QED BY <1>1, <1>2, PTL DEF Spec

\* For every document: a workflow that has been read is written and read back
\* as the same workflow, and so are each of its invocations and the limits in
\* its metadata.  No conversion of workflow.rs, task.rs, instruction.rs,
\* input.rs or config.rs loses or changes what an identifier is taken of.
THEOREM WorkflowsReadBack == Spec => []ReadBackSame
<1>1. Inv => ReadBackSame
  <2> SUFFICES ASSUME Inv, stage = "read" PROVE
        /\ WorkflowFromIpld(WorkflowToIpld(wf)) = Good(wf)
        /\ \A n \in DOMAIN wf :
             /\ InvocationFromIpld(InvocationToIpld(wf[n])) = Good(wf[n])
             /\ LET limits == ResourcesFromIpld(wf[n].meta) IN
                limits.ok => ResourcesFromIpld(ResourcesToIpld(limits.val)) = limits
    BY DEF ReadBackSame
  <2>1. WorkflowFromIpld(doc) = Good(wf)
    BY DEF Inv, Prepared
  <2>2. WorkflowFromIpld(WorkflowToIpld(wf)) = Good(wf)
    BY <2>1, WorkflowBack, Zenon
  <2>3. ASSUME NEW n \in DOMAIN wf
        PROVE  InvocationFromIpld(InvocationToIpld(wf[n])) = Good(wf[n])
    <3>1. TaskFromIpld(Get(doc, "tasks")[2][n]) = Good(wf[n])
      BY <2>1, WorkflowParts, Zenon
    <3> QED BY <3>1, InvocationBack, Zenon
  <2>4. ASSUME NEW n \in DOMAIN wf, ResourcesFromIpld(wf[n].meta).ok
        PROVE  ResourcesFromIpld(ResourcesToIpld(ResourcesFromIpld(wf[n].meta).val))
                 = ResourcesFromIpld(wf[n].meta)
    BY <2>4, LimitsBack, Zenon
  <2> QED BY <2>2, <2>3, <2>4, Zenon
<1> QED BY <1>1, InvHolds, PTL

\* For every workflow and every schedule: a promise that a function is called
\* with is open only when the promised task is not of this workflow, or has
\* had its turn in an earlier batch and left no result.
THEOREM PromisesAreKept == Spec => []PromisesKept
<1>1. Inv => PromisesKept
  BY DEF Inv
<1> QED BY <1>1, InvHolds, PTL

\* For every workflow, also one with tasks that share an instruction: when the
\* run starts each task has its Wasm module at hand, and each call finds what
\* its links stand for.
THEOREM ResourcesAreFetched == Spec => []ResourcesFetched
<1>1. Inv => ResourcesFetched
  <2> SUFFICES ASSUME Inv PROVE ResourcesFetched
    OBVIOUS
  <2>1. ASSUME stage = "run", NEW n \in DOMAIN wf PROVE Available(n)
    <3>1. Ready(wf) /\ fetched = Wanted(IndexedResources(wf))
      BY <2>1, PreparedReady DEF Inv, Prepared
    <3>2. <<"Url", InstrOf(wf, n).rsc>> \in Wanted(IndexedResources(wf))
      BY <3>1, IndexHas
    <3> QED BY <3>1, <3>2 DEF Available
  <2>2. LinksFound
    BY DEF Inv
  <2> QED BY <2>1, <2>2 DEF ResourcesFetched, LinksFound
<1> QED BY <1>1, InvHolds, PTL

\* What is written of receipts stays faithful, and so does what is read.
LEMMA SentHolds == Spec => []Sent
<1>1. Init => Sent
  BY DEF Init, Sent, ReceivedIsSent, ContentAddressed
<1>2. Inv /\ Sent /\ [Next]_vars => Sent'
  <2> SUFFICES ASSUME Inv, Sent, [Next]_vars PROVE Sent'
    OBVIOUS
  <2>1. ASSUME UNCHANGED wire PROVE \A m \in wire' : Faithful(m)
    BY <2>1 DEF Sent
  <2>2. ASSUME UNCHANGED got PROVE ReceivedIsSent' /\ ContentAddressed'
    BY <2>2 DEF Sent, ReceivedIsSent, ContentAddressed
  <2>3. ASSUME \A m \in wire' : Faithful(m), ReceivedIsSent', ContentAddressed'
        PROVE  Sent'
    BY <2>3 DEF Sent
  <2>4. CASE RunTask
    <3>1. stage = "run" /\ UNCHANGED got
      BY <2>4 DEF RunTask
    <3>2. Ready(wf) /\ \E own : info = Some(DefaultInfo(own, Some(Name), Len(wf), IndexedResources(wf)))
      BY <3>1, PreparedReady DEF Inv, Prepared
    <3>3. UNCHANGED wire \/ \E n, out : wire' = Writings(ReceiptOf(n, out))
      BY <2>4, Zenon DEF RunTask, Run
    <3>4. \A m \in wire' : Faithful(m)
      <4>1. CASE UNCHANGED wire
        BY <2>1, <4>1
      <4>2. CASE \E n, out : wire' = Writings(ReceiptOf(n, out))
        <5>1. PICK n, out : wire' = Writings(ReceiptOf(n, out))
          BY <4>2
        <5>2. PICK c, r : Ours(r) /\ ReceiptOf(n, out) = try_with(c, r)
          BY ReceiptOurs
        <5>3. IsInfo(increment_progress(info[1], try_with(c, r).cid))
          BY <3>2, SharedInfo
        <5> QED BY <5>1, <5>2, <5>3, WritingsFaithful
      <4> QED BY <3>3, <4>1, <4>2
    <3> QED BY <2>2, <2>3, <3>1, <3>4
  <2>5. CASE Receive
    <3>1. PICK m \in wire :
            \/ got' = Some([msg |-> m, cut |-> None, val |-> Reading(m, m.body)])
            \/ /\ m.by # "sql"
               /\ \E k \in DOMAIN Inner(m)[2] :
                    got' = Some([msg |-> m, cut |-> Some(k), val |-> Reading(m, Cut(m, k))])
      BY Zenon, <2>5 DEF Receive
    <3>2. Faithful(m)
      BY DEF Sent
    <3>3. \E cut : got' = Some([msg |-> m, cut |-> cut, val |-> ReadAs(m, cut)])
      BY Zenon, <3>1, <3>2 DEF Faithful, ReadRight
    <3>4. PICK cut : got' = Some([msg |-> m, cut |-> cut, val |-> ReadAs(m, cut)])
      BY <3>3
    <3>5. got'[1].msg = m /\ got'[1].cut = cut /\ got'[1].val = ReadAs(m, cut)
      BY <3>4 DEF Some
    <3>6. ReceivedIsSent'
      BY <3>5 DEF ReceivedIsSent
    <3>7. ContentAddressed'
      BY <3>2, <3>5, AcceptedAddressed DEF ContentAddressed
    <3>8. UNCHANGED wire
      BY Zenon, <2>5 DEF Receive
    <3> QED BY <2>1, <2>3, <3>6, <3>7, <3>8
  <2>6. CASE UNCHANGED <<wire, got>>
    BY <2>1, <2>2, <2>3, <2>6
  <2>7. Read \/ Build \/ FetchResources \/ Finish \/ UNCHANGED vars => UNCHANGED <<wire, got>>
    BY Zenon DEF Read, Build, FetchResources, Finish, vars
  <2> QED BY <2>4, <2>5, <2>6, <2>7 DEF Next
<1> QED BY <1>1, <1>2, InvHolds, PTL DEF Spec

\* For every receipt, content and version: what is read from the database, a
\* gossiped message, a DHT record or a websocket is what has been written, a
\* field without a default that is missing is refused, and only the
\* notification with two spellings is never read.
THEOREM ReceiptsArrive == Spec => []ReceivedIsSent
<1>1. Sent => ReceivedIsSent
  BY DEF Sent
<1> QED BY <1>1, SentHolds, PTL

\* An accepted receipt has the identifier of its own content, however it came.
THEOREM ReceiptsAddressed == Spec => []ContentAddressed
<1>1. Sent => ContentAddressed
  BY DEF Sent
<1> QED BY <1>1, SentHolds, PTL

=============================================================================
