CONSTANTS
  main = main
  listener = listener
  c1 = c1
  c2 = c2
  c3 = c3
  c4 = c4
  c5 = c5
  c6 = c6
  idle = idle
  f1 = f1
  f2 = f2
  Primordial = main
  Listener = listener
  Idle = idle
  Threads <- HeapThreads
  Fds = {f1}
  Longest = 2
  Millisecond = 1
  Workloads <- HeapWorkloads
SPECIFICATION SpecH
SYMMETRY Alike
INVARIANT HeapOrdered
PROPERTY ImplementsSched
