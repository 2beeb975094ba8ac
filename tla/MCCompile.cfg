SPECIFICATION CSpec
CONSTANTS
  Projects <- MCProjects
  AliasDepth = 2
CHECK_DEADLOCK FALSE
INVARIANTS
  TypeOK
  EachModuleOnce
  CallsFollowImports
  VerdictIsRight
  PipelineTypeOK
  ImportsMeanTheirModule
  DelegationIsAcyclic
  WellImportedCompiles
  CliTypeOK
  StructsAfterMembers
  IncludesNeverDangle
  EntryIsWritten
PROPERTIES
  ImplementsImportOrder
  NoTypeIsReplaced
  ExitsAtLast
