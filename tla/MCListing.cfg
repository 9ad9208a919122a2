\* Pages of one and two rows out of up to three, written by two sessions at once,
\* with three commits during a listing.
CONSTANTS
  Files = {f1, f2}
  Writers = {w1, w2}
  Limits = {1, 2}
  StatsLimit = 2
  MaxRows = 3
  MaxWrites = 3
SPECIFICATION Spec
SYMMETRY Symmetry
INVARIANT TypeOK
INVARIANT MissedAtMostLeftOrSunk
INVARIANT RepeatedAtMostMoved
INVARIANT CollectionListed
INVARIANT StatsComplete
