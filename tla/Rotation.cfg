SPECIFICATION Spec
CONSTANTS
    c1 = c1
    c2 = c2
    br = br
    Coin = {c1, c2, br}
    Bridge = br
    Fiat = fiat
    Start = 3
    MaxOpen = 3
    Rounds = 1
SYMMETRY Alike
INVARIANT OutcomeIsTrue
INVARIANT LossesAreBounded
