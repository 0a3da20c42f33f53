\* Two writers and up to four inodes: left-over temporary files are reused.
CONSTANTS
  Writers = {w1, w2}
  short = short
  long = long
  Values <- MCValues
  Size <- MCSize
  MaxInodes = 4
  Broken = Broken
  NoFile = NoFile
  Unknown = Unknown
SPECIFICATION Spec
SYMMETRY Symmetry
PROPERTIES
  IsRegister
