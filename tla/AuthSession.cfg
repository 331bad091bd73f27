\* Three token pairs: a login, its renewal and another login, with every fault.
CONSTANT MaxPairs = 3
SPECIFICATION Spec
INVARIANTS TypeOK LogoutIsFinal SessionIsRenewable NoSpuriousRefusal MemoryAgreesWithFile
