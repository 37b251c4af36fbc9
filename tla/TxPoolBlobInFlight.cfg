CONSTANTS
    a = a
    b = b
    c = c
    d = d
    Tx <- MCTx
    Coin <- MCCoin
    Genesis <- MCGenesis
    Inputs <- MCInputs
    Outputs <- MCOutputs
    TxGas <- MCTxGas
    TxBytes <- MCTxBytes
    TxTip <- MCTxTip
    BlobId <- MCBlobId
    BlobOf <- MCBlobsCD
    NoBlob = NoBlob
    PoolMaxGas = 4
    PoolMaxBytes = 10
    PoolMaxTxs = 3
    BlockGasLimit = 3
    BlockMaxTxs = 2
    IsProducer = TRUE
    MaxBlocks = 2
SPECIFICATION Spec
INVARIANT BlobIdsUnique
CHECK_DEADLOCK FALSE
