------------------------------- MODULE Wallet -------------------------------
(***************************************************************************)
(* The user's wallet (neo/Wallets/Wallet.py, UserWallet.py and the prompt  *)
(* commands that drive it) next to the node it runs in: the chain the node *)
(* has persisted, its memory pool and its relay cache.                     *)
(*                                                                         *)
(* A wallet keeps its coins twice: in memory (_coins) and as rows of a     *)
(* SQLite file, each row saved on its own, and apart from them a row with  *)
(* the height it has processed.  sync_wallet is a task of the event loop   *)
(* that processes blocks in portions and sleeps in between; once it finds  *)
(* the wallet synced it subscribes ProcessNewBlock to the blocks that      *)
(* follow.  The program may stop between any two row writes.               *)
(*                                                                         *)
(* A transaction is a record of txs and is known by its place there (its   *)
(* hash); a coin reference is <<transaction, output index>>.               *)
(***************************************************************************)
EXTENDS Accounts, FiniteSetsExt

CONSTANTS
    Watched,        \* a watch-only script hash
    Imports,        \* what the user may import and delete: see EditStep
    Other,          \* everybody else
    Share, Gas,     \* the hashes of SystemShare (NEO) and SystemCoin (GAS)
    Null,
    BlockLimit,     \* block_limit of sync_wallet (100 in the code)
    Interval,       \* Blockchain.DECREMENT_INTERVAL
    Generation,     \* Blockchain.GENERATION_AMOUNT
    Genesis,        \* the outputs of the genesis block's transaction
    Strangers,      \* transactions of others, among them another copy of the key
    Amounts, Fees,  \* what the user sends, and the fee attached
    D,              \* Fixed8.D, the fractions of one coin
    Lonely,         \* whether no other node may be connected
    MaxInBlock,     \* bound: transactions of a block
    Budgets         \* bounds: how many of each kind of step a behaviour may hold

ASSUME WalletAssumption ==
    /\ BlockLimit \in Nat \ {0}
    /\ Interval \in Nat \ {0}
    /\ Generation \in Seq(Nat)
    /\ Genesis \in Seq(Range(Genesis)) /\ Strangers \in Seq(Range(Strangers))
    /\ \A o \in Range(Genesis) : o.value \in Nat
    /\ \A t \in Range(Strangers) :
          /\ t.kind \notin {"contract", "claim"}   \* those are the wallet's
          /\ t.outs \in Seq(Range(t.outs)) /\ \A o \in Range(t.outs) : o.value \in Nat
    /\ Amounts \subseteq Nat /\ Fees \subseteq Nat
    /\ D \in Nat \ {0}
    /\ MaxInBlock \in Nat
    /\ Budgets \subseteq [{"blocks", "opens", "rebuilds", "sends", "edits", "stops"} -> Nat]

VARIABLES
    chain,      \* chain[i + 1]: the transactions of the block at index i
    txs,        \* every transaction made so far
    pool,       \* MemPool.pool
    cache,      \* RelayCache.cache
    known,      \* what the other nodes of the network have been told of
    wallet,     \* PromptData.Wallet, Null when none is open
    rows,       \* the wallet's database file
    sends,      \* what each transaction of this session spends and claims (history)
    torn,       \* whether a rebuild was cut off and not repeated (history)
    unseen,     \* addresses that came late and were not rebuilt for (history)
    doubled,    \* addresses added once more in this session (history)
    budget      \* what is left of the bounds

vars == <<chain, txs, pool, cache, known, wallet, rows, sends, torn, unseen, doubled, budget>>
late == <<unseen, doubled>>

Height == Len(chain) - 1

Spend(kind) == budget[kind] > 0 /\ budget' = [budget EXCEPT ![kind] = @ - 1]

\* The program stops: what is in memory is gone.
Down ==
    /\ Spend("stops")
    /\ wallet' = Null /\ pool' = {} /\ cache' = {} /\ sends' = << >>

(***************************************************************************)
(* Transactions and coins.                                                 *)
(***************************************************************************)
Output(r) == txs[r[1]].outs[r[2]]

\* Bound: the places of a transaction's outputs (a split into two has three at most).
Places == 1 .. 3

Refs(ids) == {r \in ids \X Places : r[2] \in DOMAIN txs[r[1]].outs}

SpentBy(ids) == UNION {txs[t].ins : t \in ids}
ClaimedBy(ids) == UNION {txs[t].claims : t \in ids}

\* The transactions of the blocks below height h.
Below(h) == UNION {chain[i] : i \in 1 .. h}
OnChain == Below(Len(chain))

HeightOf(t) == (CHOOSE i \in DOMAIN chain : t \in chain[i]) - 1
SpentAt(r) == (CHOOSE i \in DOMAIN chain : r \in SpentBy(chain[i])) - 1

Total(refs) == SumFunctionOnSet([r \in refs |-> Output(r).value], refs)

\* Wallet.CheckAddressState.
CheckAddressState(addr) ==
    IF Contains(wallet.contracts, addr) THEN {"inwallet"}
    ELSE IF Contains(wallet.watch, addr) THEN {"inwallet", "watchonly"}
    ELSE {}

(***************************************************************************)
(* The gas a spent share has earned.                                       *)
(***************************************************************************)
\* What one share earned from block start to block end (one group of
\* Blockchain.CalculateBonusInternal, per share; the system fees it adds are 0 here).
BonusOf(start, end) ==
    LET first == start \div Interval
        whole == end \div Interval >= Len(Generation) \/ end % Interval = 0
        uend  == IF whole THEN (end \div Interval) - 1 ELSE end \div Interval
        iend  == IF whole THEN Interval ELSE end % Interval
        from(u) == IF u = first THEN start % Interval ELSE 0
        at    == IF first < uend THEN uend ELSE first
    IN IF first >= Len(Generation) THEN 0
       ELSE SumFunctionOnSet([u \in first .. uend - 1 |->
                                 (Interval - from(u)) * Generation[u + 1]],
                             first .. uend - 1)
            + (iend - from(at)) * Generation[at + 1]

\* Nothing is generated after the last interval, but of a group that began before its
\* end and lasts beyond it the code looks up an amount too many: an exception, which
\* ends the command.
HasBonus(start, end) ==
    start \div Interval >= Len(Generation) \/ end \div Interval <= Len(Generation)

Calculable(refs) == \A r \in refs : HasBonus(HeightOf(r[1]), SpentAt(r))

CalculateBonus(refs) ==
    SumFunctionOnSet([r \in refs |-> Output(r).value * BonusOf(HeightOf(r[1]), SpentAt(r))],
                     refs)

\* Blockchain.GetUnclaimed: shares spent on the chain and not claimed there.
Unclaimed == {r \in SpentBy(OnChain) : Output(r).asset = Share} \ ClaimedBy(OnChain)

(***************************************************************************)
(* One block in the wallet.  coins maps a reference to the flags of its    *)
(* CoinState; Delta is what ProcessNewBlock hands to OnProcessNewBlock.    *)
(***************************************************************************)
Mine(ids) == {r \in Refs(ids) : CheckAddressState(Output(r).to) # {}}

\* The states of all coins once the block's outputs and inputs were seen.
Marked(coins, ids) ==
    [r \in DOMAIN coins \cup Mine(ids) |->
        (IF r \in DOMAIN coins THEN coins[r] ELSE {})
        \cup (IF r \in Mine(ids)
              THEN {"confirmed"} \cup (CheckAddressState(Output(r).to) \ {"inwallet"})
              ELSE {})
        \cup (IF r \in SpentBy(ids) /\ Output(r).asset = Share
              THEN {"spent", "confirmed"} ELSE {})]

Delta(coins, ids) ==
    LET all == DOMAIN Marked(coins, ids) IN
    [added   |-> Mine(ids) \ DOMAIN coins,
     changed |-> all \cap ((Mine(ids) \cap DOMAIN coins)
                           \cup {r \in SpentBy(ids) : Output(r).asset = Share}
                           \cup {r \in Mine(ids) : Output(r).to = Watched}),
     deleted |-> all \cap ({r \in SpentBy(ids) : Output(r).asset # Share}
                           \cup ClaimedBy(ids)),
     homeless |-> {r \in Mine(ids) : Output(r).to \notin DOMAIN rows.addresses},
     state   |-> Marked(coins, ids)]

\* Wallet.ProcessNewBlock.
ProcessNewBlock(coins, ids) ==
    LET d == Delta(coins, ids) IN Restrict(d.state, DOMAIN d.state \ d.deleted)

\* UserWallet.OnCoinsChanged: the rows of new coins are created if their address has
\* one, those of changed coins that are found are saved and those of deleted ones
\* are deleted, each write committed on its own.
Writes(d) ==
    LET saved == SetToSeq(d.added \cup d.changed)
        deleted == SetToSeq(d.deleted)
    IN [i \in DOMAIN saved |-> [op |-> "save", coin |-> saved[i]]]
       \o [i \in DOMAIN deleted |-> [op |-> "delete", coin |-> deleted[i]]]

\* The coins of the first n writes that save, or delete.
Done(d, n, op) == {w.coin : w \in {w \in ToSet(SubSeq(Writes(d), 1, n)) : w.op = op}}

\* Mutant: the rows of spent coins stay.
WrittenNeverDeleted(r, d, n) ==
    [c \in DOMAIN r \cup Done(d, n, "save") |->
        IF c \in Done(d, n, "save") THEN d.state[c] ELSE r[c]]

\* The rows after the first n of these writes.
Written(r, d, n) ==
    LET saved == Done(d, n, "save") \cap ((d.added \ d.homeless) \cup DOMAIN r)
    IN [c \in (DOMAIN r \cup saved) \ Done(d, n, "delete") |->
           IF c \in saved THEN d.state[c] ELSE r[c]]

OnCoinsChanged(r, d) == Written(r, d, Len(Writes(d)))

(***************************************************************************)
(* Wallet.ProcessBlocks: the blocks from the wallet's height on, below the *)
(* chain's height and no more than BlockLimit, then the height row.        *)
(***************************************************************************)
Portion(h) == IF h + BlockLimit <= Height THEN BlockLimit
              ELSE IF h < Height THEN Height - h ELSE 0

\* Coins and rows once a block was processed, and once some were.
AfterBlock(acc, ids) ==
    [coins |-> ProcessNewBlock(acc.coins, ids),
     rows  |-> OnCoinsChanged(acc.rows, Delta(acc.coins, ids))]

AfterBlocks(coins, r, blocks) == FoldLeft(AfterBlock, [coins |-> coins, rows |-> r], blocks)

\* Mutant: a portion leaves out its last block.
ProcessedShort(coins, r, h, n) == AfterBlocks(coins, r, SubSeq(chain, h + 1, h + n - 1))

\* Coins and rows after n blocks from height h on.
Processed(coins, r, h, n) == AfterBlocks(coins, r, SubSeq(chain, h + 1, h + n))

\* Mutant: synced only beyond the chain's height.
IsSyncedBeyond(h) == Height # 0 /\ (100 * h) \div Height > 100

\* Wallet.IsSynced: the whole percentage has reached a hundred.
IsSynced(h) == Height # 0 /\ (100 * h) \div Height >= 100

\* One turn of sync_wallet's loop on wallet w and coin rows r: it processes a
\* portion, and subscribes and ends when the wallet is synced.
SyncTurn(w, r, loops) ==
    LET n == Portion(w.height)
        p == Processed(w.coins, r, w.height, n)
        h == w.height + n
    IN /\ rows' = [rows EXCEPT !.coins = p.rows, !.height = h]
       /\ wallet' = [w EXCEPT !.coins = p.coins, !.height = h,
                              !.loops = IF IsSynced(h) THEN loops ELSE loops + 1,
                              !.handlers = IF IsSynced(h) THEN @ + 1 ELSE @]

(***************************************************************************)
(* Opening, syncing, rebuilding and closing the wallet.                    *)
(***************************************************************************)
\* UserWallet.Create with its first key; the user has watched an address since.
EmptyFile ==
    [coins |-> << >>, height |-> 0, tokens |-> {}, accounts |-> {Own}, contracts |-> <<Own>>,
     addresses |-> [a \in {Own, Watched} |-> a # Own]]

\* CommandWalletOpen: the wallet's state is what its file holds; the task
\* that syncs it has been created and runs later.
OpenWallet ==
    /\ wallet = Null
    /\ Spend("opens")
    /\ wallet' = Loaded(rows, {"open"})
    /\ sends' = << >> /\ doubled' = {}
    /\ UNCHANGED <<chain, txs, pool, cache, known, rows, torn, unseen>>

\* CommandWalletRebuild from block 0: another sync task.  The code does not
\* ask whether one runs; bound: the user waits for it.
RebuildWallet ==
    /\ wallet # Null
    /\ wallet.loops = 0 /\ wallet.starts = {}
    /\ wallet' = [wallet EXCEPT !.starts = @ \cup {"rebuild"}]
    /\ Spend("rebuilds")
    /\ UNCHANGED <<chain, txs, pool, cache, known, rows, sends, torn, late>>

\* The first run of a sync_wallet task: it unsubscribes, rebuilds when asked
\* to, and takes its first turn.
StartSync(kind) ==
    /\ wallet # Null
    /\ kind \in wallet.starts
    /\ LET w == [wallet EXCEPT !.starts = @ \ {kind}, !.handlers = 0] IN
       IF kind = "rebuild"
       THEN SyncTurn([w EXCEPT !.coins = << >>, !.height = 0],
                     << >>, w.loops)
       ELSE SyncTurn(w, rows.coins, w.loops)
    /\ sends' = IF kind = "rebuild" THEN << >> ELSE sends
    /\ torn' = (torn /\ kind = "open")
    /\ unseen' = IF kind = "rebuild" THEN {} ELSE unseen
    /\ UNCHANGED <<chain, txs, pool, cache, known, doubled, budget>>

\* A later turn, after the sleep.
ContinueSync ==
    /\ wallet # Null
    /\ wallet.loops > 0
    /\ SyncTurn(wallet, rows.coins, wallet.loops - 1)
    /\ UNCHANGED <<chain, txs, pool, cache, known, sends, torn, late, budget>>

\* CommandWalletClose, while no task is left behind.
CloseWallet ==
    /\ wallet # Null
    /\ wallet.loops = 0 /\ wallet.starts = {}
    /\ wallet' = Null
    /\ UNCHANGED <<chain, txs, pool, cache, known, rows, sends, torn, late, budget>>

(***************************************************************************)
(* The addresses and tokens of the wallet, at the user's command.  The     *)
(* program may stop before all rows of a command are written.              *)
(***************************************************************************)
CoinsOf(addr) == {r \in DOMAIN wallet.coins : Output(r).to = addr}
Edit(w, writes) ==
    /\ Spend("edits")
    /\ wallet' = w /\ rows' = Saved(rows, writes, Len(writes))
    /\ UNCHANGED <<chain, txs, pool, cache, known, torn>>

StopInEdit(writes) ==
    /\ budget.edits > 0
    /\ Down
    /\ \E n \in 0 .. Len(writes) - 1 : rows' = Saved(rows, writes, n)
    /\ UNCHANGED <<chain, txs, known, torn, doubled>>

\* An address that comes when blocks were processed has coins nobody looked for, and
\* one that was only watched has coins marked so.
ComesLate(addr) ==
    unseen' = IF (wallet.height > 0 \/ CoinsOf(addr) # {}) /\ ~Contains(wallet.contracts, addr)
              THEN unseen \cup {addr} ELSE unseen

\* CommandWalletImportWIF and CommandWalletImportNEP2.
ImportKey(addr) ==
    /\ wallet # Null
    /\ LET writes == CreateKeyWrites(rows, addr) IN
       \/ Edit(CreateKey(wallet, addr), writes) /\ ComesLate(addr) /\ UNCHANGED <<sends, doubled>>
       \/ StopInEdit(writes) /\ UNCHANGED unseen

\* CommandWalletImportMultisigAddr.
ImportMultisigAddr(addr) ==
    /\ wallet # Null
    /\ KeyOf(addr) \in wallet.keys
    /\ LET writes == AddContractWrites(rows, addr) IN
       \/ Edit(AddContract(wallet, addr), writes) /\ ComesLate(addr) /\ UNCHANGED <<sends, doubled>>
       \/ StopInEdit(writes) /\ UNCHANGED unseen

\* CommandWalletImportWatchAddr: an address the file has is watched until the wallet
\* is closed, although the user is told that it exists.
ImportWatchAddr(addr) ==
    /\ wallet # Null
    /\ Edit(AddWatchOnly(wallet, addr), AddWatchOnlyWrites(rows, addr))
    /\ doubled' = IF addr \in DOMAIN rows.addresses THEN doubled \cup {addr} ELSE doubled
    /\ UNCHANGED <<sends, unseen>>

\* What was spent of the coins of other addresses.
SendsWithout(addr) ==
    LET kept(refs) == {r \in refs : Output(r).to # addr}
    IN [i \in DOMAIN sends |-> [ins |-> kept(sends[i].ins), claims |-> kept(sends[i].claims)]]

\* CommandWalletDeleteAddress.
DeleteWalletAddress(addr) ==
    /\ wallet # Null
    /\ LET writes == DeleteAddressWrites(rows, addr, CoinsOf(addr)) IN
       \/ /\ Edit(DeleteAddress(wallet, addr, CoinsOf(addr)), writes)
          /\ sends' = SendsWithout(addr)
          /\ UNCHANGED late
       \/ /\ StopInEdit(writes)
          /\ unseen' = unseen \cup {addr}

\* ImportToken and CommandTokenDelete.
ImportToken(token) ==
    /\ wallet # Null
    /\ LET writes == AddNEP5TokenWrites(rows, token) IN
       \/ Edit(AddNEP5Token(wallet, token), writes) /\ UNCHANGED sends
       \/ StopInEdit(writes)
    /\ UNCHANGED late

DeleteToken(token) ==
    /\ wallet # Null
    /\ token \in rows.tokens
    /\ Edit(DeleteNEP5Token(wallet, token), DeleteNEP5TokenWrites(rows, token))
    /\ UNCHANGED <<sends, late>>

EditStep ==
    \/ \E addr \in Imports.keys : ImportKey(addr)
    \/ \E addr \in Imports.joints : ImportMultisigAddr(addr)
    \/ \E addr \in Imports.watched : ImportWatchAddr(addr)
    \/ \E addr \in Imports.deleted : DeleteWalletAddress(addr)
    \/ \E token \in Imports.tokens : ImportToken(token) \/ DeleteToken(token)

(***************************************************************************)
(* Making a transaction: the coins it spends and the change it returns.    *)
(***************************************************************************)
\* Mutant: coins that wait for their spending to be confirmed count as unspent.
FindAnyCoinsByAsset(coins, asset, from) ==
    {r \in DOMAIN coins : /\ "watchonly" \notin coins[r]
                          /\ Output(r).to = from
                          /\ Output(r).asset = asset}

\* Wallet.FindUnspentCoinsByAsset with from as from_addr.
FindUnspentCoinsByAsset(coins, asset, from) ==
    {r \in DOMAIN coins : /\ "confirmed" \in coins[r]
                          /\ coins[r] \cap {"spent", "watchonly"} = {}
                          /\ Output(r).to = from
                          /\ Output(r).asset = asset}

\* The results FindUnspentCoinsByAssetAndTotal can have: the coin of exactly
\* the amount, or the smallest coins that reach it; coins of equal value are
\* in the order of a dictionary.
FindUnspentCoinsByAssetAndTotal(coins, asset, amount) ==
    LET found == FindUnspentCoinsByAsset(coins, asset, Own)
        exact == {r \in found : Output(r).value = amount}
    IN IF Total(found) < amount THEN {}
       ELSE IF exact # {} THEN {{r} : r \in exact}
       ELSE {some \in SUBSET found :
                /\ Total(some) >= amount
                /\ \A r \in some, q \in found \ some : Output(r).value <= Output(q).value
                /\ \E last \in some :
                      /\ \A r \in some : Output(r).value <= Output(last).value
                      /\ Total(some \ {last}) < amount}

\* Mutant: the fee is left out when the amount is gas, too.
PayTotalOnce(asset, amount, fee, of) ==
    IF of = asset THEN amount ELSE IF of = Gas THEN fee ELSE 0

\* paytotal of MakeTransaction: what the outputs of an asset and the fee cost.
PayTotal(asset, amount, fee, of) ==
    (IF of = asset THEN amount ELSE 0) + (IF of = Gas THEN fee ELSE 0)

\* The inputs that can pay for it, chosen asset by asset.
PaidBy(coins, asset, amount, fee) ==
    LET found(of) == FindUnspentCoinsByAssetAndTotal(coins, of,
                                                     PayTotal(asset, amount, fee, of))
    IN {a \cup g : a \in found(asset),
                   g \in IF asset = Gas \/ fee = 0 THEN {{}} ELSE found(Gas)}

\* Wallet.MakeTransaction, once the coins that pay each asset are chosen.
MakeTransaction(asset, amount, to, fee, ins) ==
    LET change(of) == Total({r \in ins : Output(r).asset = of})
                      - PayTotal(asset, amount, fee, of)
        back(of) == IF change(of) > 0
                    THEN <<[asset |-> of, value |-> change(of), to |-> Own]>> ELSE << >>
    IN [kind |-> "contract", ins |-> ins, claims |-> {}, made |-> 0,
        outs |-> <<[asset |-> asset, value |-> amount, to |-> to]>>
                 \o back(asset) \o (IF asset = Gas THEN << >> ELSE back(Gas))]

\* split_to_vouts: as many outputs of a divisions-th part as fit, and the rest.
SplitToVouts(asset, value, divisions) ==
    LET part  == value \div divisions
        size  == IF asset = Share /\ part % D > 0 THEN ((part \div D) + 1) * D ELSE part
        whole == (value - 1) \div size
    IN [i \in 1 .. whole + 1 |->
           [asset |-> asset, to |-> Own,
            value |-> IF i <= whole THEN size ELSE value - whole * size]]

(***************************************************************************)
(* Relaying: MemPool.add_transaction, RelayCache.add and node.relay of     *)
(* every connected node, then SaveTransaction in the wallet.               *)
(***************************************************************************)
\* The place of transaction t, which is its hash.
IdOf(t) == IF \E i \in DOMAIN txs : txs[i] = t
           THEN CHOOSE i \in DOMAIN txs : txs[i] = t ELSE Len(txs) + 1

\* ClaimTransaction.Verify: every claim is claimable and the output is its
\* bonus.  Of any other transaction this node verifies its size, its fee and
\* its scripts, which hold of what the wallet signed: double spends are not
\* looked for.
Verify(t) ==
    t.kind = "claim" =>
        /\ t.claims \subseteq Unclaimed /\ Calculable(t.claims)
        /\ t.outs[1].value = CalculateBonus(t.claims)

\* MemPool.add_transaction.  The pool is searched for the text of the hash,
\* which is never one of its keys: a transaction it holds is added again.
Accepts(t) == IdOf(t) \notin OnChain /\ Verify(t)

\* Wallet.SaveTransaction: it refuses an input that is not confirmed or is spent.
MaySave(coins, t) == \A r \in t.ins : /\ r \in DOMAIN coins
                                     /\ "confirmed" \in coins[r] /\ "spent" \notin coins[r]

\* What it changes.
SaveTransaction(coins, t, id) ==
    LET outs == {r \in {id} \X Places : /\ r[2] \in DOMAIN t.outs
                                         /\ CheckAddressState(t.outs[r[2]].to) # {}}
        state == [r \in DOMAIN coins \cup outs |->
                     IF r \in outs THEN CheckAddressState(t.outs[r[2]].to) \ {"inwallet"}
                     ELSE IF r \in t.ins THEN (coins[r] \cup {"spent"}) \ {"confirmed"}
                     ELSE IF r \in t.claims THEN (coins[r] \cup {"claimed"}) \ {"confirmed"}
                     ELSE coins[r]]
    IN [added |-> outs, changed |-> (t.ins \cup t.claims) \cap DOMAIN coins,
        homeless |-> {r \in outs : t.outs[r[2]].to \notin DOMAIN rows.addresses},
        deleted |-> {}, state |-> state]

\* nodemgr.relay(tx) and, when a node took it, wallet.SaveTransaction(tx).  The
\* program may stop before all rows of it are written.
RelayAndSave(t) ==
    LET id == IdOf(t)
        saved == SaveTransaction(wallet.coins, t, id)
    IN
    /\ Accepts(t)
    /\ txs' = IF id \in DOMAIN txs THEN txs ELSE Append(txs, t)
    /\ \/ /\ Spend("sends")
          /\ pool' = pool \cup {id}
          /\ cache' = cache \cup {id}
          /\ \/ /\ Lonely
                /\ UNCHANGED <<known, wallet, rows, sends>>
             \/ /\ known' = known \cup {id}
                /\ sends' = Append(sends, [ins |-> t.ins, claims |-> t.claims])
                /\ IF MaySave(wallet.coins, t)
                   THEN /\ wallet' = [wallet EXCEPT !.coins = saved.state]
                        /\ rows' = [rows EXCEPT !.coins = OnCoinsChanged(@, saved)]
                   ELSE UNCHANGED <<wallet, rows>>
       \/ /\ budget.sends > 0
          /\ Down
          /\ known' = known \cup {id}
          /\ MaySave(wallet.coins, t)
          /\ \E n \in 0 .. Len(Writes(saved)) - 1 :
                rows' = [rows EXCEPT !.coins = Written(@, saved, n)]
    /\ UNCHANGED <<chain, torn, late>>

\* process_transaction: the user sends an amount, with a fee.
Send(asset, amount, fee) ==
    /\ wallet # Null
    /\ \E ins \in PaidBy(wallet.coins, asset, amount, fee) :
          RelayAndSave(MakeTransaction(asset, amount, Other, fee, ins))

\* SplitUnspentCoin: one coin into several, the fee out of the first.
Split(r, divisions, fee) ==
    /\ wallet # Null
    /\ r \in FindUnspentCoinsByAsset(wallet.coins, Output(r).asset, Own)
    /\ Output(r).value >= divisions
    /\ LET outs == SplitToVouts(Output(r).asset, Output(r).value, divisions) IN
       /\ outs[1].value > fee
       /\ RelayAndSave([kind |-> "contract", ins |-> {r}, claims |-> {}, made |-> 0,
                        outs |-> [outs EXCEPT ![1].value = @ - fee]])

\* Wallet.GetUnclaimedCoins.
GetUnclaimedCoins(coins) ==
    {r \in DOMAIN coins : /\ Output(r).asset = Share
                          /\ {"confirmed", "spent"} \subseteq coins[r]
                          /\ coins[r] \cap {"claimed", "watchonly"} = {}}

\* Wallet.GetChangeAddress without from_addr: the first contract that is standard.
GetChangeAddress == SelectSeq(wallet.contracts, LAMBDA a : a # Joint)[1]

\* ClaimGas: the gas of all coins the wallet holds to be claimable, of those
\* that the chain knows to be.
ClaimGas ==
    /\ wallet # Null
    /\ LET claims == GetUnclaimedCoins(wallet.coins)
           bonus  == CalculateBonus(claims \cap Unclaimed)
       IN /\ Calculable(claims \cap Unclaimed)
          /\ bonus # 0
          /\ \E a \in ToSet(wallet.contracts) : a # Joint
          /\ RelayAndSave([kind |-> "claim", ins |-> {}, claims |-> claims, made |-> 0,
                           outs |-> <<[asset |-> Gas, value |-> bonus, to |-> GetChangeAddress]>>])

(***************************************************************************)
(* A new block.  Which transactions it holds is up to the consensus nodes: *)
(* they put in what they were told of and what spends and claims once.     *)
(***************************************************************************)
Unspent == Refs(OnChain) \ SpentBy(OnChain)

Disjoint(F(_), ids) == \A t, u \in ids : t # u => F(t) \cap F(u) = {}

Minable ==
    {ids \in SUBSET (known \ OnChain) :
        /\ Cardinality(ids) <= MaxInBlock
        /\ \A t \in ids : /\ txs[t].ins \subseteq Unspent
                          /\ txs[t].claims \subseteq Unclaimed
        /\ Disjoint(LAMBDA t : txs[t].ins, ids)
        /\ Disjoint(LAMBDA t : txs[t].claims, ids)}

\* The wallet's coins and rows after n calls of ProcessNewBlock with a block.
Handled(ids, n) == AfterBlocks(wallet.coins, rows.coins, [i \in 1 .. n |-> ids])

\* Mutant: the relay cache is not told of the block.
DroppedFromPool(ids) == pool' = pool \ ids /\ cache' = cache

\* MemPool.update_pool_for_block_persist, RelayCache.update_cache_for_block_persist.
Dropped(ids) == pool' = pool \ ids /\ cache' = cache \ ids

\* Blockchain.OnPersistCompleted: every subscribed ProcessNewBlock, then the
\* pool and the cache drop the block's transactions.
PersistBlock(ids) ==
    /\ Spend("blocks")
    /\ chain' = Append(chain, ids)
    /\ Dropped(ids)
    /\ IF wallet = Null THEN UNCHANGED <<wallet, rows>>
       ELSE LET p == Handled(ids, wallet.handlers) IN
            /\ wallet' = [wallet EXCEPT !.coins = p.coins,
                                        !.height = @ + wallet.handlers]
            /\ rows' = [rows EXCEPT !.coins = p.rows]
    /\ UNCHANGED <<txs, known, sends, torn, late>>

(***************************************************************************)
(* The program stops: what is in memory is gone.  It may stop while rows   *)
(* are written, between any two of them.                                   *)
(***************************************************************************)
Stop ==
    /\ wallet # Null
    /\ Down
    /\ UNCHANGED <<chain, txs, known, rows, torn, late>>

\* While a new block is handled.
StopInBlock(ids) ==
    /\ budget.blocks > 0
    /\ wallet # Null
    /\ wallet.handlers > 0
    /\ Down
    /\ chain' = Append(chain, ids)
    /\ LET d == Delta(wallet.coins, ids) IN
       \E n \in 0 .. Len(Writes(d)) :
          rows' = [rows EXCEPT !.coins = Written(@, d, n)]
    /\ UNCHANGED <<txs, known, torn, late>>

\* While a portion is processed, the height row not yet written.
StopInSync ==
    /\ wallet # Null
    /\ wallet.loops > 0 \/ "open" \in wallet.starts
    /\ Down
    /\ \E n \in 0 .. Portion(wallet.height) - 1 :
          LET p == Processed(wallet.coins, rows.coins, wallet.height, n)
              d == Delta(p.coins, chain[wallet.height + n + 1])
          IN \E m \in 0 .. Len(Writes(d)) :
                rows' = [rows EXCEPT !.coins = Written(p.rows, d, m)]
    /\ UNCHANGED <<chain, txs, known, torn, late>>

\* While a rebuild deletes the rows, one after the other.
StopInRebuild ==
    /\ wallet # Null
    /\ "rebuild" \in wallet.starts
    /\ Down
    /\ \E n \in 0 .. Cardinality(DOMAIN rows.coins) :
          rows' = [rows EXCEPT !.coins =
                      Restrict(@, Range(SubSeq(SetToSeq(DOMAIN @), 1, n)))]
    /\ torn' = TRUE
    /\ UNCHANGED <<chain, txs, known, late>>

-----------------------------------------------------------------------------
Init ==
    /\ chain = <<{1}>>
    /\ txs = <<[kind |-> "miner", ins |-> {}, claims |-> {}, made |-> 0,
                outs |-> Genesis]>> \o Strangers
    /\ pool = {} /\ cache = {}
    /\ known = 2 .. Len(Strangers) + 1
    /\ wallet = Null
    /\ rows = EmptyFile
    /\ sends = << >>
    /\ torn = FALSE
    /\ unseen = {} /\ doubled = {}
    /\ budget \in Budgets

UserStep ==
    \/ OpenWallet \/ CloseWallet \/ RebuildWallet \/ EditStep
    \/ \E asset \in {Share, Gas}, amount \in Amounts, fee \in Fees : Send(asset, amount, fee)
    \/ \E r \in Refs(OnChain), fee \in Fees : Split(r, 2, fee)
    \/ ClaimGas

SyncStep == (\E kind \in {"open", "rebuild"} : StartSync(kind)) \/ ContinueSync

BlockStep == \E ids \in Minable : PersistBlock(ids)

StopStep ==
    \/ Stop \/ StopInSync \/ StopInRebuild
    \/ \E ids \in Minable : StopInBlock(ids)

Next == UserStep \/ SyncStep \/ BlockStep \/ StopStep

Spec == Init /\ [][Next]_vars
\* Tasks of the event loop get their turn: WF_vars(SyncStep), with its ENABLED
\* written out; a turn that changes nothing is none.
SyncDue ==
    /\ wallet # Null
    /\ \/ wallet.starts # {}
       \/ /\ wallet.loops > 0
          /\ \/ Portion(wallet.height) > 0 \/ rows.height # wallet.height
             \/ IsSynced(wallet.height)

FairSpec == Spec /\ ([]<>(~SyncDue) \/ []<><<SyncStep>>_vars)

(***************************************************************************)
(* Properties.                                                             *)
(***************************************************************************)
\* A sync that ends found every coin of every address the wallet holds a contract
\* for (unless it came when blocks had been processed and the wallet was not rebuilt
\* since): an output to it in the blocks below the wallet's height that no block has
\* spent is among the coins, and the gas of every share spent there can be claimed
\* (unless the wallet claimed it itself); and no coin is offered for spending that
\* those blocks spend.  So a stop between any two rows (Wallet.py:652) loses nothing
\* for good.
FoundAll ==
    LET seen == Below(wallet.height)
        held == ToSet(wallet.contracts) \ unseen
        mine == {r \in Mine(seen) : Output(r).to \in held}
        pending == UNION {txs[t].ins \cup txs[t].claims : t \in known}
        offered == UNION {FindUnspentCoinsByAsset(wallet.coins, asset, a) :
                              asset \in {Share, Gas}, a \in held}
    IN /\ \A r \in mine \ SpentBy(OnChain) :
             /\ r \in DOMAIN wallet.coins
             /\ r \notin pending => r \in offered
       /\ \A r \in (mine \cap SpentBy(seen) \cap Unclaimed) \ pending :
             r \in GetUnclaimedCoins(wallet.coins)
       /\ offered \cap SpentBy(seen) = {}

SyncFindsAll ==
    [][(wallet' # Null /\ wallet # Null /\ wallet'.handlers > wallet.handlers /\ ~torn')
      => FoundAll']_vars

\* The file follows the memory: after every step, what a wallet opened again would
\* load (LoadKeyPairs, LoadContracts, LoadWatchOnly, LoadNEP5Tokens, LoadCoins) is what
\* the open one holds, coins with their flags, although each is changed in one place
\* and saved row by row in another.  Only an address the user had watched although the
\* wallet had a row for it is excepted.
RowsFollow == wallet # Null =>
    /\ wallet.keys = rows.accounts
    /\ wallet.tokens = rows.tokens
    /\ ToSet(wallet.contracts) = ToSet(rows.contracts)
    /\ ToSet(wallet.watch) \ doubled = LoadWatchOnly(rows) \ doubled
    /\ LET Others(coins) == {r \in DOMAIN coins : Output(r).to \notin doubled}
       IN Restrict(wallet.coins, Others(wallet.coins)) = Restrict(rows.coins, Others(rows.coins))

\* One session that is not rebuilt never spends or claims a coin twice, whatever
\* blocks come in between and whether they take its transactions; the coins of an
\* address that was deleted, which an import may bring back, are not asked about.
SpendsOnce ==
    \A i, j \in DOMAIN sends : i # j => /\ sends[i].ins \cap sends[j].ins = {}
                                       /\ sends[i].claims \cap sends[j].claims = {}

\* No transaction of the wallet makes money: of no asset do its outputs hold more than
\* its inputs, and of all together they hold less by just the fee; and a claim pays what
\* the blocks generated for its shares, each block its own amount, between the one they
\* came with and the one they were spent in, although the code adds it up interval by
\* interval (Blockchain.py:497).
Generated(r) ==
    SumFunctionOnSet([h \in HeightOf(r[1]) .. SpentAt(r) - 1 |->
                         IF h \div Interval < Len(Generation)
                         THEN Generation[(h \div Interval) + 1] ELSE 0],
                     HeightOf(r[1]) .. SpentAt(r) - 1)

Paid(outs, of) ==
    SumFunctionOnSet([i \in DOMAIN outs |-> IF outs[i].asset = of THEN outs[i].value ELSE 0],
                     DOMAIN outs)
PaidInAll(outs) == SumFunctionOnSet([i \in DOMAIN outs |-> outs[i].value], DOMAIN outs)

NothingCreated ==
    \A t \in Range(txs) :
        /\ t.kind = "contract" =>
              /\ \A of \in {t.outs[i].asset : i \in DOMAIN t.outs} :
                    Paid(t.outs, of) <= Total({r \in t.ins : Output(r).asset = of})
              /\ Total(t.ins) - PaidInAll(t.outs) \in Fees
        /\ t.kind = "claim" =>
              /\ \A i \in DOMAIN t.outs : t.outs[i].asset = Gas
              /\ PaidInAll(t.outs) =
                    SumFunctionOnSet([r \in t.claims |-> Output(r).value * Generated(r)], t.claims)

\* What the node offers to others is not yet in a block, and what is in its
\* pool it can also serve: no handler of a persisted block is left out.
OffersUnconfirmed == (pool \cup cache) \cap OnChain = {} /\ pool = cache

\* A wallet that stays open ends up following the chain.
Syncing == wallet # Null /\ wallet.handlers = 0

WalletSyncs == (Syncing /\ Height > 0) ~> ~Syncing
=============================================================================
