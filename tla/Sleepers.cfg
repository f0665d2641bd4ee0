SPECIFICATION SleepersSpec
CONSTANTS
    Consumers = {"consumer0", "consumer1"}
    Last = 7
    Sentinels = 2
    MaxSpurious = 2
    sentinel = sentinel
    None = None
    Lockers = {t1, t2, t3, t4}
INVARIANTS NothingLostOrRepeated MutualExclusion
PROPERTIES PrintingEnds SomebodyGetsIn
