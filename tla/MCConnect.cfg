SPECIFICATION FullMeshSpec
CONSTANTS
  d1 = d1
  d2 = d2
  Size = 3
  Devices <- MCDevices
  DeviceOf <- MCDeviceOf
  AddressOf <- MCAddressOf
  Faults = {"timeout", "io"}
  WorldSize = 3
  HostOf <- MCHostOf
  GetBlocks = TRUE
INVARIANTS
  RoutedToPeer
  MeshConnects
  LocalRanksAgree
CHECK_DEADLOCK FALSE
