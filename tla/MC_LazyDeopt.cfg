CONSTANT MaxInstructions = 5
INIT Init
NEXT Next
CHECK_DEADLOCK FALSE
INVARIANTS TypeOK PatchSitesDisjoint SafepointIndexesSound InstanceOfDeltaExact
