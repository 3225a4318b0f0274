SPECIFICATION FairSpec
CONSTANTS
  Flags <- MCFlags
  Clients = {x1}
  Specs <- MCSpecs
  Inline <- MCInline
  Allows = {TRUE, FALSE}
  Bundles <- MCBundles
  Cas = {"A"}
  Ports <- MCPorts
  MaxEdits = 2
  Bad = Bad
  None = None
INVARIANTS
  PolicyMeansSpec
  PortGate
  Guarded
  ProxyBehindMtls
PROPERTIES
  
  HupApplied
