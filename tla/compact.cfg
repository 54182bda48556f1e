\* Five turns and three compactions; the last three turns are to be kept and a
\* summary has room for one line.
SPECIFICATION TranscriptSpec
CONSTANTS
  Line = {d1, d2}
  Threshold = 5
  KeepRecent = 3
  MaxLines = 1
  LineChars = 9
  NoiseChars = 5
  HeaderChars = 6
  MaxTurns = 5
  MaxCompactions = 3
INVARIANTS OnlyOverflowForgets CompactionSettles
