SPECIFICATION Spec
CONSTANTS
    s1 = s1
    s2 = s2
    s3 = s3
    Sessions = {s1, s2, s3}
    w1 = w1
    Writers = {w1}
    Nobody = Nobody
    ModelErrors = FALSE
    Kills = FALSE
    IoFails = FALSE
SYMMETRY Symmetry
INVARIANT HeadIsSoul
PROPERTY IsAutobiography
