\* Two clients whose updates overlap.
SPECIFICATION Spec
CONSTANTS
    zero = zero  v1 = v1  v2 = v2  evm = evm  policy = policy  key = key  sig = sig
    commitment = commitment  salt = salt  n1 = n1  n2 = n2  op1 = op1  op2 = op2
    bundle = bundle  g1 = g1  g2 = g2  requester = requester  c1 = c1  c2 = c2
    k1 = k1  k2 = k2  sol = sol  reader = reader  controller = controller
    NoIdentity = NoIdentity  NoReputation = NoReputation  NoCall = NoCall
    NoDecision = NoDecision
    Default = zero
    Controller = controller
    VeilIds = {v1, v2}
    ChainNamespaces = {evm}
    ReaderPolicies = {policy}
    KeyCommitments = {key}
    WalletSignatures = {sig}
    ChainCommitments = {commitment}
    WitnessSalts = {salt}
    ProofNonces = {n1, n2}
    OperationIds = {}
    SignatureBundles = {}
    GovernanceNonces = {}
    Requesters = {}
    MinimumBands = {}
    Signals <- OneSignal
    ProposedConfigs <- NoConfigs
    Clients = {c1, c2}
    VolatileClients = {}
    CallIds = {k1, k2}
    InitialScoreConfig <- DefaultConfig
    InitialNamespaces = {evm}
    InitialReaderPolicies = {policy}
    ConfigTimelock = 1
    ProofWindow = 0
    MaxTime = 0
    MaxUint32 = 100000
    MaxUint64 = 1000
PROPERTY ErasesVerifiedLeaf
CHECK_DEADLOCK FALSE
