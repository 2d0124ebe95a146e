SPECIFICATION ModulesSpec
CONSTANT Sources <- MethodsFirst
INVARIANT MethodsSeeTheirModule
CHECK_DEADLOCK FALSE
