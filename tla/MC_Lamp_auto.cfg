\* The branch for the false drop dims twice.
SPECIFICATION LampSpec
CONSTANT Top = 4
PROPERTY AutoSetsTarget
