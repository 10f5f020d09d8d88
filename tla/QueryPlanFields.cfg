SPECIFICATION Spec
CONSTANTS
  Lines <- MCLines
  MaxLines = 5
  Identifiers <- MCIdentifiers
  Exported <- MCExported
  Commands = {":one", ":many", ":exec", ":execrows", ":copyfrom", ":batchexec"}
  Params <- MCParams
  Columns <- MCColumns
  OperandNames <- MCOperandNames
  GoName <- MCGoName
  Singular <- MCSingular
  Element <- MCElement
  Convertible <- MCConvertible
  Placeholder <- MCPlaceholder
  KeyType = "Tenant"
  Limit = 1
  Models <- MCModels
  Related <- MCRelated
  MaxParams = 3
  MaxColumns = 2
  MaxOperands = 2
  Queries <- MCQueries
  MaxQueries = 3
  OptionSets <- MCOptionSets
  GroupOrder <- MCGroupOrder
  Lower <- MCLower
  Enums <- MCEnums
  RuntimePaths <- MCRuntimePaths
  InternalPaths <- MCInternalPaths
  Aliases <- MCAliases
  Overrides <- MCOverrides
  MaxOverrides = 2
  CatalogQualifiers <- MCCatalogQualifiers
  LastSegment <- MCLastSegment
  PackageName <- MCPackageName
  Names <- MCNames
  Contents <- MCContents
  Tags <- MCTags
  MaxLexemes = 3
INVARIANT RemainingFieldsKept
CHECK_DEADLOCK FALSE
