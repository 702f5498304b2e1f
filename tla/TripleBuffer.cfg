SPECIFICATION Spec
CONSTANT MaxFrames = 6
INVARIANTS TypeOK NoTornRead
PROPERTIES NeverOlder NewestShown
