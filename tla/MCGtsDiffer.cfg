SPECIFICATION Spec
CONSTANTS
    Suite = "differ"
    Compiled <- MCCompiled
PROPERTY AgreesWithTree
