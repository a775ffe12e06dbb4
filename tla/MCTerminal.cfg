SPECIFICATION Spec
CONSTANTS
  Plain <- MCPlain
  Meta <- MCMeta
  Printable <- MCPrintable
  Unknown <- MCUnknown
  BufferSize = 8
  MaxWaiting = 3
PROPERTIES LeadingKeyDecoded CutKeyLosesAlt
