SPECIFICATION Spec
CONSTANTS
  P <- MCP
  Delta <- MCDelta
  DeltaInv <- MCDeltaInv
  Slots = 512
  Layout = 256
  Depth = 15
  RotationKeys <- GeneratedKeys
  Features <- MCFeatures
  W1 <- MCW1
  b1 <- MCb1
  W2 <- MCW2
  b2 <- MCb2
  W3 <- MCW3
  b3 <- MCb3
  Scale = 10007
  C_Lin = 6883
  C_T3 = 30059
  C_Lin2 = 1725
  C_T32 = 31497
  C_Bias = 16375
  None = None
INVARIANTS
  TypeOK
  NoIllegalStep
  ReadyToDecrypt
  EverySlotFilled
  OperandsInPlace
PROPERTY
  ImplementsCleartext
