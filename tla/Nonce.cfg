SPECIFICATION Spec
CONSTANTS
  NULL = NULL
  opt_n_threads = 2
  Word = 22
  Reserve = 4
  Spans = {0, 1}
  Kernels <- MCKernels
  Max64 = {1, 4}
  MaxWorks = 2
INVARIANTS TypeOK SliceKept NoNonceTwice
