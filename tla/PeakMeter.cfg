CONSTANT Threads = {1, 2, 3}
SPECIFICATION FairSpec
INVARIANTS IInv PeakExact
PROPERTIES MaxNeverDrops BumpTerminates
