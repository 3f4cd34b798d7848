\* The timelock as documented, counted from the block the proposal landed in.
SPECIFICATION Spec
CONSTANTS
    zero = zero  v1 = v1  v2 = v2  evm = evm  policy = policy  key = key  sig = sig
    commitment = commitment  salt = salt  n1 = n1  n2 = n2  op1 = op1  op2 = op2
    bundle = bundle  g1 = g1  g2 = g2  requester = requester  c1 = c1  c2 = c2
    k1 = k1  k2 = k2  sol = sol  reader = reader  controller = controller
    NoIdentity = NoIdentity  NoReputation = NoReputation  NoCall = NoCall
    NoDecision = NoDecision
    Default = zero
    Controller = controller
    VeilIds = {}
    ChainNamespaces = {evm}
    ReaderPolicies = {policy}
    KeyCommitments = {}
    WalletSignatures = {}
    ChainCommitments = {}
    WitnessSalts = {}
    ProofNonces = {}
    OperationIds = {op1}
    SignatureBundles = {bundle}
    GovernanceNonces = {g1}
    Requesters = {}
    MinimumBands = {}
    Signals <- NoSignal
    ProposedConfigs <- OneConfig
    Clients = {}
    VolatileClients = {}
    CallIds = {}
    InitialScoreConfig <- DefaultConfig
    InitialNamespaces = {evm}
    InitialReaderPolicies = {policy}
    ConfigTimelock = 1
    ProofWindow = 2
    MaxTime = 3
    MaxUint32 = 100000
    MaxUint64 = 1000
PROPERTY FullDelay
CHECK_DEADLOCK FALSE
