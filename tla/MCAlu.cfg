SPECIFICATION Spec
CONSTANTS
  r0 = r0
  r1 = r1
  h0 = h0
  ZR = ZR
  XBits = 4
  WBits = 2
  ByteBits = 1
  RBits = 4
  MaxBits = 4
  Registers <- Regs
  A64Program <- AllA64
  A32Program <- AllA32
  X86Program <- AllX86
  SizeBits <- X86SizeBits
  HighByte <- X86HighByte
  ShortCounts = 4
  ByteValues = 8
INVARIANTS
  TypeOK
  RegistersAgree
  FlagsAgree
  SlotsExact
