SPECIFICATION UserSpec
CONSTANTS
    u1 = u1  u2 = u2  u3 = u3  i1 = i1  i2 = i2  i3 = i3  q1 = q1  q2 = q2
    NoUser = NoUser  NoInv = NoInv
    Users = {u1, u2}
    Invs = {i1, i2, i3}
    Requests = {q1, q2}
SYMMETRY Interchangeable
CHECK_DEADLOCK FALSE
INVARIANT GuardKeepsAdmin
INVARIANT DeactivatedHasNoSession
INVARIANT AcceptedOnce
