SPECIFICATION Spec
CONSTANTS
  Resources = {r1, r2, r3}
  Ignored = {r2}
  Workers = {w1, w2}
  MaxChanges = 3
PROPERTY PartialOnlyAdds
