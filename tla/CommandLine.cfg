SPECIFICATION Spec
CONSTANTS
  None = None
  Commands <- MCCommands
  Vehicles <- MCVehicles
  Scaffold <- MCScaffold
  Reports <- MCReports
  PathOrder <- MCPathOrder
  FileOf <- MCFileOf
  Yaml <- MCYaml
  Listing <- MCListing
  InCwd <- MCInCwd
  NextToVehicle <- MCNextToVehicle
INVARIANTS
  ExitTells
  InitKeepsFiles
  RunsAsNamed
  RunsWhereNamed
