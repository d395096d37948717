SPECIFICATION VehiclesSpec
CONSTANTS
  Files <- MCFiles
  Vehicles <- MCVehicles
  Registered <- MCRegistered
  Requests <- MCRequests
  StepUs = 2
  MaxTime = 8
  Byte = 4
  Stacks = {"udp", "sut", "tcp"}
  MaxCalls = 3
  Netmap <- MCNetmap
  EthVehicles <- MCEthVehicles
  Firmware <- MCFirmware
  Fields <- MCFields
  Faults <- MCFaults
  Datagrams <- MCDatagrams
INVARIANTS
  NetworkIsFile
  PollShowsFields
  OverridesTakeEffect
PROPERTIES
  FramesShowValues
  SendsWhenDue
CHECK_DEADLOCK FALSE
