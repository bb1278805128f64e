SPECIFICATION Spec
CONSTANTS
    s1 = s1
    s2 = s2
    s3 = s3
    s4 = s4
    s5 = s5
    c1 = c1
    c2 = c2
    c3 = c3
    c4 = c4
    Key <- MCKey
    Content <- MCContent
    chars <- MCChars
    hash <- MCHash
    Value = {Nil, v1}
    Nil = Nil
    False = False
    NULL = NULL
    MinCapacity = 4
    MaxCapacity = 8
INVARIANTS
    TypeOK
    ProbesEnd
PROPERTY
    ImplementsMap
