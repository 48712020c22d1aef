SPECIFICATION Spec
CONSTANTS
  Thread = {t1, t2}
  Key = {b1, b2}
  NoKey = NoKey
  Handle = {h1, h2, h3, h4, h5}
  MaxHeld = 2
  MAX_CURL_REUSE_COUNT = 3
SYMMETRY PoolSymmetry
INVARIANTS TypeOK OnePlace Books UseIsBounded PoolIsBounded
PROPERTY TaintedIsRetired
\* A null error buffer ends the process.
CHECK_DEADLOCK FALSE
