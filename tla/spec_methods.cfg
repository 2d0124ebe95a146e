SPECIFICATION SpecializationSpec
CONSTANTS Limit = 3 Programs <- DeepeningMethods
INVARIANT RecursionIsBounded
CHECK_DEADLOCK FALSE
