---------------------------- MODULE PipelineData ----------------------------
(***************************************************************************)
(* Pipeline with the conversions of nested values: resolve_links, and the  *)
(* way of IPLD to Wasm values and back.  They are recursive, and what is   *)
(* stated of them here is checked by TLC alone.                            *)
(***************************************************************************)
EXTENDS Pipeline, Resolution, WasmValue

\* Of the links of an argument, at any depth, those that could be looked up
\* have been replaced (Input::resolve_links); others stay as they were, and
\* the only new ones are those of the results put in their place.
LinksResolved ==
    call # None =>
        LET c == call[1] IN
        \A n \in DOMAIN c.args :
          (c.given[n][1] = "Ipld" /\ c.args[n][1] = "Ipld") =>
             LET known == Links(c.given[n][2]) \cap DOMAIN c.lookup IN
             Links(c.args[n][2]) = (Links(c.given[n][2]) \ known)
                                   \union UNION {Links(into_inner(c.lookup[k])) : k \in known}

\* The value with every text that is read as an identifier in its plain form.
RECURSIVE Spelled(_)
Spelled(v) ==
    CASE v[1] = "String" -> IF ParseCid(v[2]).ok THEN <<"String", <<"cid", ParseCid(v[2]).val>>>> ELSE v
      [] v[1] = "List"   -> <<"List", v[2], [n \in DOMAIN v[3] |-> Spelled(v[3][n])]>>
      [] v[1] = "Tuple"  -> <<"Tuple", <<v[2][1], Spelled(v[2][2])>>>>
      [] OTHER           -> v

\* A Wasm value that is written as a result and given to a function with the
\* same type of parameter arrives as the value it was, but for the spelling of
\* identifiers (the URL of a gateway comes back as the identifier in it): the
\* two directions of homestar-wasm's conversion agree on what functions return.
ValueStable ==
    call # None =>
        LET vals == Params(call[1].args, call[1].types) IN
        vals.ok =>
          \A n \in DOMAIN vals.val :
            LET i == IpldFromVal(vals.val[n]) IN
            i.ok => Params(<<<<"Arg", <<"ok", i.val>>>>>>, <<call[1].types[n]>>)
                    = Good(<<Spelled(vals.val[n])>>)
=============================================================================
