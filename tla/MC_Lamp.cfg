\* The board's lamp: four levels.
SPECIFICATION LampSpec
CONSTANT Top = 4
INVARIANTS LampTypeOK LevelIsFound
PROPERTY Ended
