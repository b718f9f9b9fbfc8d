SPECIFICATION Spec
CONSTANTS
  Procs = {p1, p2}
  MayCrash = FALSE
INVARIANT BootstrapCompletes
