SPECIFICATION Spec
CONSTANTS
  Doc <- MCDoc
  Node <- MCNode
  ResolveLinks <- resolve_links
  ToParams <- Params
  FromOutput <- IpldFromOutput
  ParamType <- MCParamType
  Returned <- MCReturned
  Found <- MCFound
  Content <- MCContent
  Nonce96 <- Nonce12
  Width <- MCWidth
  Name = "run"
  Version = "0.2.0"
INVARIANTS
  ReadBackSame
  PromisesKept
  LinksResolved
  ResourcesFetched
  
  
  
CHECK_DEADLOCK FALSE
