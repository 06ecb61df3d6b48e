\* Four validators, one Byzantine, an equivocating proposer.
CONSTANTS
    Validators = {v1, v2, v3, v4}
    Byzantine = {v4}
    Blocks = {b1, b2}
    Power <- Equal
    PowerClaims = {1, 3, 4}
    Word = 64
SPECIFICATION FairSpec
INVARIANTS
     Agreement

    
CHECK_DEADLOCK FALSE
