SPECIFICATION Spec
CONSTANTS
  Payload <- MCPayload
  DataLen <- Lens
  IntBytes = 4
  Size = 26
INVARIANT TypeOK
INVARIANT CountersAgree
PROPERTY ImplementsMessageFifo
