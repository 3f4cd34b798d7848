\* One client that makes one call at a time and is never closed, while governance
\* changes the score config under its calls.
SPECIFICATION Spec
CONSTANTS
    zero = zero  v1 = v1  v2 = v2  evm = evm  policy = policy  key = key  sig = sig
    commitment = commitment  salt = salt  n1 = n1  n2 = n2  op1 = op1  op2 = op2
    bundle = bundle  g1 = g1  g2 = g2  requester = requester  c1 = c1  c2 = c2
    k1 = k1  k2 = k2  sol = sol  reader = reader  controller = controller
    NoIdentity = NoIdentity  NoReputation = NoReputation  NoCall = NoCall
    NoDecision = NoDecision
    Default = zero
    Controller = controller
    VeilIds = {zero, v1}
    ChainNamespaces = {evm, sol}
    ReaderPolicies = {policy, reader}
    KeyCommitments = {zero, key}
    WalletSignatures = {zero, sig}
    ChainCommitments = {zero, commitment}
    WitnessSalts = {zero, salt}
    ProofNonces = {n1, n2}
    OperationIds = {op1, op2}
    SignatureBundles = {bundle}
    GovernanceNonces = {g1, g2}
    Requesters = {requester}
    MinimumBands = {2}
    Signals <- FewSignals
    ProposedConfigs <- SomeConfigs
    Clients = {c1}
    VolatileClients = {}
    CallIds = {k1}
    InitialScoreConfig <- DefaultConfig
    InitialNamespaces = {evm}
    InitialReaderPolicies = {policy}
    ConfigTimelock = 2
    ProofWindow = 1
    MaxTime = 2
    MaxUint32 = 100000
    MaxUint64 = 1000
INVARIANTS ReplayAccounting BandEarned OwnRecordLive OneLiveLeaf ConfigsValid
PROPERTIES DelayLessWindow RegistryKept
CONSTRAINT ChecksEarly
SYMMETRY SoloSymmetry
CHECK_DEADLOCK FALSE
