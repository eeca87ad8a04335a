----------------------------- MODULE Resolution -----------------------------
(***************************************************************************)
(* Input::resolve_links of input.rs, which goes down into lists and maps,  *)
(* and the links it meets on the way.                                      *)
(***************************************************************************)
EXTENDS Invocation

\* The links a value holds, at any depth.
RECURSIVE Links(_)
Links(i) ==
    CASE Is("link", i)          -> {i[2]}
      [] i[1] \in {"list", "map"} -> UNION {Links(i[2][n]) : n \in DOMAIN i[2]}
      [] OTHER                  -> {}

Looked(lookup, c) == IF c \in DOMAIN lookup THEN into_inner(lookup[c]) ELSE Link(c)

\* Mutant: only the elements of a list are looked up, not the entries of a map.
ResolveLists(i, lookup) ==
    CASE Is("link", i) -> Looked(lookup, i[2])
      [] Is("list", i) -> List([n \in DOMAIN i[2] |->
                            IF Is("link", i[2][n]) THEN Looked(lookup, i[2][n][2]) ELSE i[2][n]])
      [] OTHER -> i

RECURSIVE resolve_links(_, _)
resolve_links(i, lookup) ==
    CASE Is("link", i) -> Looked(lookup, i[2])
      [] Is("list", i) -> List([n \in DOMAIN i[2] |-> resolve_links(i[2][n], lookup)])
      [] Is("map", i)  ->
           Map([k \in DOMAIN i[2] |->
                  IF k = Lit("await/*") /\ Is("link", i[2][k]) /\ i[2][k][2] \in DOMAIN lookup
                  THEN ResultToIpld(lookup[i[2][k][2]])
                  ELSE resolve_links(i[2][k], lookup)])
      [] OTHER -> i
=============================================================================
