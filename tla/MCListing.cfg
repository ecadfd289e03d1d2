\* Two replicas with rows in any order.
SPECIFICATION Spec
CONSTANTS
    host = host
    net = net
    alice = alice
    bob = bob
    Replicas = {here, there}
    Opinions <- MCOpinions
    signature <- MCsignature
    Null = Null
    MaxId = 4
INVARIANTS
    DifferenceAskedFor
    AnswersWhole
