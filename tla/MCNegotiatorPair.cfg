CONSTANT Half = {h1, h2}
SPECIFICATION PairSpec
INVARIANTS TypeOK Agreement NoConflict
PROPERTIES Settles NoLoop
