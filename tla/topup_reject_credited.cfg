CONSTANTS
    r1 = r1
    a1 = a1
    s1 = s1
    s2 = s2
    h1 = h1
    h2 = h2
    u1 = u1
    u2 = u2
    Requests = {r1}
    Accounts = {a1}
    Owner <- OneOwner
    AmountVnd <- SomeAmount
    Users = {u1}
    NoUser = NoUser
    Sessions = {s1, s2}
    Handlers = {h1}
    MaxPending = 1
    MayCrash = FALSE
SPECIFICATION Spec
PROPERTY
    RejectsOnlyUncredited
