------------------------------ MODULE JsonRpc ------------------------------
(***************************************************************************)
(* The JSON-RPC server of neo/api/JSONRPC/JsonRpcApi.py, as far as it      *)
(* answers from the chain.  A request is a record of the fields the body   *)
(* has; the answer is [result |-> ...] or [error |-> code].                *)
(***************************************************************************)
EXTENDS ChainQueries

Result(value) == [result |-> value]
Error(code) == [error |-> code]

InvalidRequest == -32600
MethodNotFound == -32601
InternalError == -32603
Unknown == -100

ResultUnless(bad, value) == IF bad THEN Error(Unknown) ELSE Result(value)

Confirmations(h) == height - h + 1

\* Confirmations come from the height, the next hash from the header index.
BlockOutput(block) ==
    Result([index |-> block.index, txs |-> block.txs,
            confirmations |-> Confirmations(block.index),
            next |-> GetNextBlockHash(block.index)])

HeaderOutput(header) ==
    Result([index |-> header, confirmations |-> Confirmations(header),
            next |-> GetNextBlockHash(header)])

\* The transaction's row gives the height, the header index the block's hash:
\* where the index is short, reading the header's attributes raises.
TxOutput(h) ==
    LET header == GetHeaderByHeight(h)
    IN  IF header = Null THEN Error(InternalError)
        ELSE Result([blockhash |-> header, confirmations |-> Confirmations(header)])

\* A height that is on the chain; the hash of a block the index lacks raises.
HashOutput(h) ==
    CASE h \notin 0..height       -> Error(Unknown)
      [] GetBlockHash(h) = Null   -> Error(InternalError)
      [] OTHER                    -> Result(GetBlockHash(h))

ChainMethods == {"getbestblockhash", "getblockcount", "getblock", "getblockhash",
                 "getblockheader", "getblocksysfee"}

AboutChain(method, params) ==
    CASE method = "getbestblockhash" -> Result(CurrentHeaderHash)
      [] method = "getblockcount"    -> Result(height + 1)
      [] method = "getblockhash"     -> HashOutput(params)
      [] method = "getblocksysfee"   ->
            ResultUnless(params \notin 0..height, GetSysFeeAmountByHeight(params))
      [] method = "getblock"         ->
            IF GetBlock(params) = Null THEN Error(Unknown) ELSE BlockOutput(GetBlock(params))
      [] method = "getblockheader"   ->
            IF GetHeaderBy(params) = Null THEN Error(Unknown) ELSE HeaderOutput(GetHeaderBy(params))

StateMethods == {"getaccountstate", "getstorage", "gettxout",
                 "getrawtransaction", "gettransactionheight"}

AboutState(method, params) ==
    CASE method = "getaccountstate"      -> Result(GetAccountState(params))
      [] method = "getstorage"           -> Result(GetStorageItem)
      [] method = "gettxout"             -> Result(GetUnspent(params))
      [] method = "gettransactionheight" ->
            ResultUnless(GetTransaction(params) = -1, GetTransaction(params))
      [] method = "getrawtransaction"    ->
            IF GetTransaction(params) = -1 THEN Error(Unknown) ELSE TxOutput(GetTransaction(params))

Answer(method, params) ==
    CASE method \in ChainMethods -> AboutChain(method, params)
      [] method \in StateMethods -> AboutState(method, params)
      [] OTHER                   -> Error(MethodNotFound)

\* One body of a request; a list of bodies is answered without a pause, from
\* the same state.
GetData(body) ==
    IF \/ "jsonrpc" \notin DOMAIN body \/ body.jsonrpc # "2.0"
       \/ "id" \notin DOMAIN body
       \/ "method" \notin DOMAIN body
    THEN Error(InvalidRequest)
    ELSE Answer(body.method, body.params)

-----------------------------------------------------------------------------
(* Properties.                                                             *)

Ask(method, params) ==
    GetData([jsonrpc |-> "2.0", id |-> 1, method |-> method, params |-> params])

\* What a client finds out by walking the chain up to getblockcount.
Count == Ask("getblockcount", Null).result
Block(h) == Ask("getblock", [height |-> h])
WorthOf(account, asset) ==
    LET outs == {c \in Coin : Ask("gettxout", c).result # Null}
    IN  Worth(outs, account, asset)

\* A block the client is told of is there, by height and by hash, with all of
\* its transactions; each of these names the block as its own; the hash of the
\* next block is the one asked for by height.
BlockFound(h) ==
    LET hash == Ask("getblockhash", h).result
    IN  /\ Block(h) = Ask("getblock", [hash |-> hash])
        /\ Block(h).result.txs = Chain[h]
        /\ h + 1 < Count /\ h + 1 < headers =>
               Block(h).result.next = Ask("getblockhash", h + 1).result
        /\ \A tx \in Txs(h) :
               LET answer == Ask("getrawtransaction", tx.id).result
               IN  /\ answer.blockhash = hash
                   /\ answer.confirmations = Block(h).result.confirmations
                   /\ answer.confirmations >= 1

\* What is ahead of the height is refused, or is a header without confirmations.
NotConfirmed(h) ==
    LET answer == Ask("getblockheader", [hash |-> h])
    IN  /\ Ask("getblock", [hash |-> h]) = Error(Unknown)
        /\ "result" \in DOMAIN answer => answer.result.confirmations < 1

\* A client that asks between any two steps of Persist gets answers that fit
\* each other: every block below getblockcount with its transactions, none
\* above, and balances that are what the outputs answered by gettxout are
\* worth.  Blocks the header index lost at a start, and a state torn by a stop
\* between the batches, are left out.
AnswersAgree ==
    Free =>
        /\ \A h \in Height :
               IF h >= Count THEN NotConfirmed(h) ELSE h < headers => BlockFound(h)
        /\ ~torn => \A a \in Account, s \in Asset :
               Ask("getaccountstate", a).result[s] = WorthOf(a, s)
=============================================================================
