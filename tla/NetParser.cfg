SPECIFICATION Spec
CONSTANTS
  B = 2
  NoStorage = NoStorage
  MaxBytes = 5
INVARIANTS
  RoundTrip
  NeverPastTheEnd
  AddressHoldsThePacket
PROPERTIES
  ErrorStops
