SPECIFICATION FairSpec
CONSTANTS
  a = a
  b = b
  i1 = i1
  i2 = i2
  i3 = i3
  Keys = {a, b}
  Items = {i1, i2, i3}
  KeyOf <- MCKeyOf
  Workers = {w1, w2}
  Adders = {h1, h2}
CHECK_DEADLOCK FALSE
INVARIANTS BucketInv NeverConcurrent ItemsConserved NoStrandedWork
PROPERTIES KeepsPromise EveryItemServed
