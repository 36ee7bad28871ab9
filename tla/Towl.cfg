\* The room: three players, two pulls to win, two rounds, at most one mutation
\* waiting.  The panel: retry delays of two attempts, one reconnection loop,
\* begun by loss or by hand.
SPECIFICATION TowlSpec
CONSTANTS
  Sessions = {s1, s2, s3}
  None = None
  Win = 2
  MaxRound = 2
  MaxLag = 1
  Retries = 2
  MaxLoops = 1
INVARIANTS TowlTypeOK OwnedOrForgotten StatusTruthful ButtonsMatchRoom Coherent AnswersTrue PresenceMirrored
PROPERTIES RequestsEnd WinStands AbandonedSeatFreed
CHECK_DEADLOCK FALSE
