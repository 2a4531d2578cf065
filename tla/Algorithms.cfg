SPECIFICATION Spec
CONSTANTS
  MaxPath = 4
  Names = {"a", "b"}
  Depth = 2
  Urls <- MCUrls
  Patterns <- MCPatterns
  Argvs <- MCArgvs
  Values <- MCValues
  Nodes <- MCNodes
  Defines <- MCDefines
  Hosts <- MCHosts
  AddrTriples <- MCAddrTriples
  Prefixes4 <- MCPrefixes4
  Prefixes6 <- MCPrefixes6
  V6Addrs <- MCV6Addrs
  UnixPaths <- MCUnixPaths
INVARIANTS
  TextExact CastsExact AddressesExact
PROPERTIES
  AnswersHonest
CHECK_DEADLOCK FALSE
