---------------------------- MODULE MCVirtualBus ----------------------------
\* TLC instances of VirtualBus.
EXTENDS VirtualBus, TLC

\* Goroutines are interchangeable, and so are devices: no action tells two of
\* them apart.
Perms == Permutations(Procs) \cup Permutations(Devices)
=============================================================================
