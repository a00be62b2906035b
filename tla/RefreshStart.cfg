SPECIFICATION Spec
CONSTANTS
    Renders = {s1, s2}
    Late = 2
    MaxWindow = 4
PROPERTY StartsAtMostOnce
