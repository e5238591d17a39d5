SPECIFICATION Spec
CONSTANTS
    v1 = v1
    v2 = v2
    v3 = v3
    v4 = v4
    left = left
    right = right
    None = None
    Vehicles <- FourVehicles
    Cells <- Road
    Neighbors <- Beside
    Owners = {left, right}
    Ports <- TwoPorts
    Ticks = {0, 3}
SYMMETRY Symmetry
INVARIANTS
    NoCollision
    MoverObeyed
PROPERTIES
    NoSwap
    FollowersMove
