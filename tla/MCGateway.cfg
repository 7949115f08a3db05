CONSTANTS
    Tenants <- TwoTenants
    Keys <- TenantKeys
    Answers = {a1, j1}
    Jobs = {j1}
    Requests = {r1, r2}
    NoAnswer = NoAnswer
    IdemTTL = 3
    JobTTL = 3
    ServeTime = 1
SPECIFICATION FairSpec
INVARIANTS TypeOK SingleClaim ClaimHasOwner ReplaysLastWork CrossesByCollision JobCollectable
PROPERTIES BilledOnce KeyIsAnswered
