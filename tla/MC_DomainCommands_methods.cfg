CONSTANTS
  ProtocolDomains <- MCProtocolDomains
  DecodeMayFail = TRUE
  TransportMayFail = TRUE

SPECIFICATION Spec
INVARIANT MethodsFound
