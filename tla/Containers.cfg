SPECIFICATION ContainersSpec
CONSTANTS
    Names = {"a", "b"}
    Keys <- MCKeys
    KeysOf <- MCKeysOf
    Values = {1, 2}
    Lists <- MCLists
    HashOf <- MCHashOf
    Capacities = {0, 2}
    Factors = {0, 3, 10}
    BitCapacity = 62
    BitOf <- MCBitOf
    Hashes <- MCHashes
    Elements = {1, 2}
    Literals <- MCLiterals
    FirstCapacity = 2
    MaxSize = 4
    ListNodes = {1, 2, 3}
    Owners = {1, 2, 3}
INVARIANTS ShapesExact LookupExact StorageExact
PROPERTIES DictionarySpec SeriesSpec
CHECK_DEADLOCK FALSE
