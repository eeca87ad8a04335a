----------------------- MODULE EventHandlerRefinement ------------------------
(***************************************************************************)
(* The event handler as its clients see it: the retrieval that Retrieval   *)
(* specifies.                                                              *)
(***************************************************************************)
EXTENDS EventHandler

\* To a client the handler, its channel and the network are a retrieval that
\* ends once, and finds a record only if the network supplied one of its kind.
\* That it ends is owed to the deadlines of retrieve_from_dht and
\* retrieve_from_provider, which do not cover the sends to the handler: the
\* exception is a handler that is wedged, and it is so for ever.
Status(c) == IF pc[c] \in {"idle", "db", "found", "error"} THEN pc[c] ELSE "asking"
Seen == [c \in Client |-> Status(c)]
R == INSTANCE Retrieval WITH status <- Seen, supplied <- supplied, wedged <- Wedged
ImplementsRetrieval == R!Spec
=============================================================================
