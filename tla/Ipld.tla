-------------------------------- MODULE Ipld --------------------------------
(***************************************************************************)
(* IPLD values, the data model in which homestar writes everything it      *)
(* stores, sends or addresses by content.  A value is a tuple whose first  *)
(* component names the variant, so that values of different variants can   *)
(* be compared.                                                            *)
(*                                                                         *)
(* A text is a tuple as well: <<"lit", s>> is a literal, <<"cid", c>> the  *)
(* string form of the identifier c, <<"b64", b>> the base64 form of bytes, *)
(* <<"url", u>> a URL whose path is normalised and <<"bare", u>> the same  *)
(* URL as its author wrote it, <<"ipfs", c>> is ipfs:// followed by c and  *)
(* <<"path", c>> the URL of a gateway whose path is /ipfs/ and c, and      *)
(* <<"net", s>> is "network:" followed by s, <<"did", p>> a principal.     *)
(*                                                                         *)
(* DAG-CBOR is taken to be exact and the digest to be free of collisions:  *)
(* the identifier of a content is the content.                             *)
(***************************************************************************)
EXTENDS Integers, Sequences, FiniteSets

Lit(s) == <<"lit", s>>

Null      == <<"null">>
Bool(b)   == <<"bool", b>>
Integer(n) == <<"int", n>>
Float(x)  == <<"float", x>>
String(t) == <<"string", t>>
Bytes(s)  == <<"bytes", s>>
Link(c)   == <<"link", c>>
List(s)   == <<"list", s>>
Map(f)    == <<"map", f>>

\* The map whose keys are the field names of a record.
Fields(r) == Map([k \in {Lit(s) : s \in DOMAIN r} |-> r[k[2]]])

Is(kind, i) == i[1] = kind
Has(m, s)   == Lit(s) \in DOMAIN m[2]
Get(m, s)   == m[2][Lit(s)]

\* The outcome of a conversion that may fail.  What an error says is left out.
Good(v)       == [ok |-> TRUE, val |-> v]
Bad           == [ok |-> FALSE]
Then(r, F(_)) == IF r.ok THEN F(r.val) ELSE Bad

\* Optional values are sequences of at most one element.
None    == <<>>
Some(v) == <<v>>
OrNull(o, F(_)) == IF o = None THEN Null ELSE F(o[1])

\* try_fold: all the elements converted, or the first error.
Each(s, F(_)) ==
    LET out == [n \in DOMAIN s |-> F(s[n])] IN
    IF \A n \in DOMAIN s : out[n].ok THEN Good([n \in DOMAIN s |-> out[n].val]) ELSE Bad

\* libipld::serde::from_ipld at the types the code asks for.
from_ipld(kind, i) == IF Is(kind, i) THEN Good(i[2]) ELSE Bad
AsMap(i)           == IF Is("map", i) THEN Good(i) ELSE Bad

\* Fields read with ok_or_else, and with `and_then(.. Null => None ..)`.
Field(m, s)               == IF Has(m, s) THEN Good(Get(m, s)) ELSE Bad
Optional(m, s, F(_)) ==
    IF ~ Has(m, s) THEN None
    ELSE IF Get(m, s) = Null THEN None
    ELSE LET r == F(Get(m, s)) IN IF r.ok THEN Some(r.val) ELSE None

\* DagCbor::to_cid: the digest of the encoding.
to_cid(i) == <<"of", i>>

\* Url::parse, and the URL written out again.
ParseUrl(t) ==
    CASE t[1] \in {"url", "ipfs", "path"} -> Good(t)
      [] t[1] = "bare"                    -> Good(<<"url", t[2]>>)
      [] OTHER                            -> Bad

\* Cid::try_from on a string, which looks behind an "/ipfs/".
ParseCid(t) == IF t[1] \in {"cid", "path"} THEN Good(t[2]) ELSE Bad
=============================================================================
