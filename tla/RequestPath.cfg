SPECIFICATION GatewayFair
CONSTANTS
    Requests = {r1, r2}
    Max = 1
    MaxRetries = 1
    RetryBackoff = 1
    Roles <- RouteRoles
    RolePermissions <- RouteRolePermissions
    Policy = "static"
    Backend = "redis"
INVARIANTS
    AdmissionExact
    SentBound
    OnlyAuthorized
    AuditTruthful
    StoreOutlives
PROPERTIES
    RetryJustified
    TrailComplete
    StepsRunOut
    SignalStops
    SlotsComeFree
CHECK_DEADLOCK FALSE
