CONSTANTS
  Args <- MCArgs
  ClientCmds = {}
  RebootArgs <- MCOverflowArgs

SPECIFICATION Spec

INVARIANT TimeoutHonoured
