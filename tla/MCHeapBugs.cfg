CONSTANTS
  Space = 80
  uPageSize = 8
  uMaxAddressOffset = 4
  uPointerSize = 2
  Layouts <- MCLayouts
  NULL = NULL
  uGranularity = 8
  MaskSizes = {80, 64}
  Poison = 67
  SpecialAddresses = {60}
  StackBottom = 32
  StackTop = 40
  MaxAccess = 6
  AccessSizes = {1, 6}
  Operands = {0, 5, 9, 14, 15, 16, 20, 21, 22, 23, 24, 32, 38, 40, 42, 49, 53, 57, 62, 66, 75, 79}
  StackPointers = {0, 1, 17, 32, 33, 40, 41}
  Overwritable = {16, 18, 20, 22, 23}
  MaxModified = 3
  Pointers = {16, 20, 22, 26}
  uPageHeapBlockAddress = 49
SPECIFICATION HeapSpec
INVARIANT HeapTypeOK
INVARIANT AccessIsNotMisread
INVARIANT BlamedAllocationDeniesAccess
INVARIANT HeapVerdictIsTrue
INVARIANT VerifierVerdictIsTrue
CHECK_DEADLOCK FALSE
