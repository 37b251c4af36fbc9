CONSTANTS
    r1 = r1
    r2 = r2
    r3 = r3
    x = x
    n = n
    Tx <- MCTx
    Coin <- MCCoin
    Genesis <- MCGenesis
    Inputs <- MCInputsDiamond
    Outputs <- MCOutputs
    TxGas <- MCTxGas
    TxBytes <- MCTxBytes
    TxTip <- MCTxTip
    BlobId <- MCBlobId
    BlobOf <- MCNoBlobs
    NoBlob = NoBlob
    PoolMaxGas = 5
    PoolMaxBytes = 5
    PoolMaxTxs = 5
    BlockGasLimit = 5
    BlockMaxTxs = 1
    IsProducer = FALSE
    MaxBlocks = 0
SPECIFICATION Spec
INVARIANT PoolWithinLimits
CHECK_DEADLOCK FALSE
