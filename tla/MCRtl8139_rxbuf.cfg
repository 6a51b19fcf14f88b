SPECIFICATION Spec
CONSTANTS
  NULL = NULL
  Machines <- MCMachines
  Buses = 5
  Slots = 4
  Wanted = "rtl8139"
  RxBufferSize = 32
  PacketSizeMin = 5
  PacketSizeMax = 12
  PageSize = 32
  Rxbufs = {40}
  Strays <- MCStrays
  Packets <- MCPackets
  Loads <- MCLoads
CHECK_DEADLOCK FALSE
INVARIANT HeaderRead
