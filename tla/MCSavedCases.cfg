CONSTANTS
  a = a  b = b
  k1 = k1  k2 = k2
  i1 = i1  i2 = i2
  d1 = d1  d2 = d2
  r1 = r1  r2 = r2
  Sessions <- MCSessions
  Requests <- MCRequests
  ImportKeys <- MCImportKeys
  Digests <- MCDigests
  Submissions <- MCSubmissions
  Window = 2
  Batch = 1
  MaxReceipts = 2
  MaxTime = 3
SYMMETRY Symmetry
SPECIFICATION Spec
PROPERTY CasesAreSerial
PROPERTY RetryIsReplayed
