CONSTANTS
    s1 = s1
    s2 = s2
    m1 = m1
    hUnspec = hUnspec
    hGet = hGet
    hPost = hPost
    p1 = p1
    alice = alice
    bob = bob
    ip1 = ip1
    w1 = w1
    w2 = w2
    Empty = Empty
    NoMethod = NoMethod
    NoLimiter = NoLimiter
    BadToken = BadToken
    NoPolicy = NoPolicy
    NoSubject = NoSubject
    NoKey = NoKey
    Unspecified <- hUnspec
    Services <- MCServices
    Registered <- MCRegistered
    Methods <- MCMethods
    HTTPMethods <- MCHTTPMethods
    Perms <- MCPerms
    Subjects <- MCSubjects
    SubjectPerms <- MCSubjectPerms
    IPs <- MCIPs
    Workers <- MCWorkers
    Limiters <- MCLimiters
    Policies <- MCPolicies

SPECIFICATION Spec
SYMMETRY MCSymmetry
INVARIANT AuditOkOnlyWhenAnswered
