CONSTANTS
    a = a
    b = b
    c = c
    d = d
    Tx <- MCTx
    Coin <- MCCoin
    Genesis <- MCGenesis
    Inputs <- MCInputs
    Outputs <- MCOutputs
    TxGas <- MCTxGas
    TxBytes <- MCTxBytes
    TxTip <- MCTxTip
    BlobId <- MCBlobId
    BlobOf <- MCNoBlobs
    NoBlob = NoBlob
    PoolMaxGas = 4
    PoolMaxBytes = 10
    PoolMaxTxs = 3
    BlockGasLimit = 3
    BlockMaxTxs = 2
    IsProducer = FALSE
    MaxBlocks = 3
SPECIFICATION Spec
INVARIANT TypeOK
INVARIANT CountersMatch
INVARIANT ExecutableIsRoots
INVARIANT NoConflictingSpends
INVARIANT NoOrphans
INVARIANT NoSilentDrop
PROPERTY RemovalsAccounted
CHECK_DEADLOCK FALSE
