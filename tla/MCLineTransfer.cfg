CONSTANTS
  Lines = {l0, l1}
  w0 = w0
  w1 = w1
  w2 = w2
  w3 = w3
  Words = {w0, w1, w2, w3}
  BURST_LEN = 4
  Delays = {1, 3}
  Payloads <- MCPayloads
SPECIFICATION FairSpec
INVARIANTS NoBurstError BeatsInStep LineIntact
PROPERTIES RequestAnswered ImplementsLineMemory
