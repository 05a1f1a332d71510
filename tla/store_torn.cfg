CONSTANTS
  a = a
  b = b
  c1 = c1
  c2 = c2
  c3 = c3
  Calls <- MCCalls
  Contents <- MCContents
  Fitting <- MCFitting
  Parts = 2
  Ttl = 2
  MaxTime = 4
SYMMETRY Symmetry
SPECIFICATION Spec
INVARIANT ServedWhole
