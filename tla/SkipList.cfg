\* Two inserts at a time and a search; two levels, keys that may be equal.
SPECIFICATION Spec
CONSTANTS
    Inserters = {i1, i2}
    Finders = {f1}
    Keys = {1, 2}
    maxLevel = 2
    MaxNodes = 3
INVARIANTS LevelsInOrder InsertsKept FindComplete
PROPERTY AllWritten
