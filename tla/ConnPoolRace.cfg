SPECIFICATION Spec
CONSTANTS
  Thread = {t1, t2}
  Key = {b1}
  NoKey = NoKey
  Handle = {h1, h2, h3, h4}
  MaxHeld = 1
  MAX_CURL_REUSE_COUNT = 4
INVARIANT ErrorBufferFound
