CONSTANTS
  ProtocolDomains <- MCProtocolDomains
  DecodeMayFail = TRUE
  TransportMayFail = TRUE

SPECIFICATION Spec
INVARIANT SurfacesOwnResponse
INVARIANT EventNamesInProtocol
