SPECIFICATION FairSpec
CONSTANT Surroundings = {TRUE, FALSE}
INVARIANTS TypeOK NeverLost HeaderIsProgram 
PROPERTY ProgramGoesOn
CHECK_DEADLOCK FALSE
