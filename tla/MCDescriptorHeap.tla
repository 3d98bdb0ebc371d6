-------------------------- MODULE MCDescriptorHeap --------------------------
EXTENDS DescriptorHeap, TLC

\* Views are interchangeable; so are the threads of the application.
Symmetry == Permutations(Objects) \cup Permutations(Threads \ {DeviceWorker})
=============================================================================
