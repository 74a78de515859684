------------------------------ MODULE Accounts ------------------------------
(***************************************************************************)
(* The addresses of a wallet, in memory and in its file (neo/Wallets/      *)
(* Wallet.py and UserWallet.py).  A wallet w holds keys, contracts, watch  *)
(* (_watch_only), tokens and coins; its file holds the tables they are     *)
(* loaded from: accounts (Account), contracts (Contract), addresses        *)
(* (Address, with IsWatchOnly), tokens (NEP5Token) and coins (Coin).       *)
(*                                                                         *)
(* An address is the script hash of its contract; a key goes by the        *)
(* address of its signature contract.  An operation changes the memory at  *)
(* once and the file row by row, each row committed on its own.            *)
(***************************************************************************)
EXTENDS Integers, Sequences, FiniteSets, SequencesExt, Functions, TLC

CONSTANTS
    Own,            \* the address of the first key
    Joint           \* a multi-signature address of that key

\* Contract.PublicKeyHash.
KeyOf(addr) == IF addr = Joint THEN Own ELSE addr

(***************************************************************************)
(* Memory.                                                                 *)
(***************************************************************************)
\* Wallet.AddContract: the place of a contract it has is kept.
AddContract(w, addr) ==
    [w EXCEPT !.contracts = IF Contains(@, addr) THEN @ ELSE Append(@, addr),
              !.watch = RemoveFirst(@, addr)]

\* Wallet.CreateKey and the contract that goes with the key.
CreateKey(w, addr) == AddContract([w EXCEPT !.keys = @ \cup {addr}], addr)

\* Wallet.AddWatchOnly: the contracts are keyed by bytes, and a hash is never among
\* them, so the address is added whether or not the wallet has it.
AddWatchOnly(w, addr) == [w EXCEPT !.watch = Append(@, addr)]

\* Wallet.DeleteAddress, with gone the coins of the address.  Its key stays.
DeleteAddress(w, addr, gone) ==
    LET left == [w EXCEPT !.coins = Restrict(@, DOMAIN @ \ gone)]
    IN IF Contains(w.contracts, addr)
       THEN [left EXCEPT !.contracts = RemoveFirst(@, addr)]
       ELSE [left EXCEPT !.watch = RemoveFirst(@, addr)]

AddNEP5Token(w, token) == [w EXCEPT !.tokens = @ \cup {token}]
DeleteNEP5Token(w, token) == [w EXCEPT !.tokens = @ \ {token}]

(***************************************************************************)
(* The file.  A row write is <<table and what is done, which row>>.        *)
(***************************************************************************)
\* A table with the row of on.
Put(f, on, value) == [x \in DOMAIN f \cup {on} |-> IF x = on THEN value ELSE f[x]]

RowWritten(file, write) ==
    LET on == write[2] IN
    CASE write[1] = "account"    -> [file EXCEPT !.accounts = @ \cup {on}]
      [] write[1] = "contract"   -> [file EXCEPT !.contracts = Append(@, on)]
      [] write[1] = "uncontract" -> [file EXCEPT !.contracts = RemoveFirst(@, on)]
      [] write[1] = "address"    -> [file EXCEPT !.addresses = Put(@, on, FALSE)]
      [] write[1] = "watched"    -> [file EXCEPT !.addresses = Put(@, on, TRUE)]
      [] write[1] = "unaddress"  -> [file EXCEPT !.addresses = Restrict(@, DOMAIN @ \ {on})]
      [] write[1] = "token"      -> [file EXCEPT !.tokens = @ \cup {on}]
      [] write[1] = "untoken"    -> [file EXCEPT !.tokens = @ \ {on}]
      [] write[1] = "uncoin"     -> [file EXCEPT !.coins = Restrict(@, DOMAIN @ \ {on})]

\* The file after the first n of some writes.
Saved(file, writes, n) == FoldLeft(RowWritten, file, SubSeq(writes, 1, n))

If(condition, writes) == IF condition THEN writes ELSE << >>

\* UserWallet.AddContract: an old row of the contract is deleted first.
AddContractWrites(file, addr) ==
    If(Contains(file.contracts, addr), <<<<"uncontract", addr>>>>)
    \o <<<<"address", addr>>, <<"contract", addr>>>>

\* UserWallet.CreateKey: OnCreateAccount, then AddContract.
CreateKeyWrites(file, addr) == <<<<"account", addr>>>> \o AddContractWrites(file, addr)

\* UserWallet.AddWatchOnly: of an address that has a row it raises ValueError.
AddWatchOnlyWrites(file, addr) == If(addr \notin DOMAIN file.addresses, <<<<"watched", addr>>>>)

\* UserWallet.DeleteAddress: the coins, the contract with its address, and the
\* address if it is still there.
DeleteAddressWrites(file, addr, gone) ==
    LET coins == SetToSeq(gone \cap DOMAIN file.coins)
    IN [i \in DOMAIN coins |-> <<"uncoin", coins[i]>>]
       \o If(Contains(file.contracts, addr), <<<<"uncontract", addr>>>>)
       \o If(addr \in DOMAIN file.addresses, <<<<"unaddress", addr>>>>)

\* UserWallet.AddNEP5Token: the row of the token is made anew.
AddNEP5TokenWrites(file, token) ==
    If(token \in file.tokens, <<<<"untoken", token>>>>) \o <<<<"token", token>>>>

DeleteNEP5TokenWrites(file, token) == If(token \in file.tokens, <<<<"untoken", token>>>>)

LoadWatchOnly(file) == {a \in DOMAIN file.addresses : file.addresses[a]}

\* LoadKeyPairs, LoadContracts, LoadWatchOnly, LoadNEP5Tokens and LoadCoins: the wallet
\* made of a file.  Nothing is subscribed yet, and tasks wait to be run.
Loaded(file, tasks) ==
    [keys |-> file.accounts, contracts |-> file.contracts, tokens |-> file.tokens,
     watch |-> SetToSeq(LoadWatchOnly(file)), coins |-> file.coins, height |-> file.height,
     handlers |-> 0, loops |-> 0, starts |-> tasks]
=============================================================================
