\* Three CPUs: two readers that overlap in every order and a writer; weak
\* fairness of each CPU that has entered the lock code.
CONSTANTS
  c1 = c1
  c2 = c2
  c3 = c3
  CPU = {c1, c2, c3}
  PreemptMod = 8
SPECIFICATION FairSpec
INVARIANTS
  IInv
  RWExclusion
  PreemptBalancedOverall
PROPERTY
  Progress
