# Bridge Name Service: a formal model

Bridge Name Service moves `.eth` domains from Ethereum to Solana and back. A
contract on Ethereum takes the ENS token into custody and mints a token with
metadata, the Wormhole NFT bridge carries that token to Solana as a 1/1 NFT, and a
program on Solana takes the NFT into a vault and has a name created for it. A
React client drives both directions, one transaction after the other.

This directory holds TLA+ modules of these parts, TLC configurations that
model-check them on small instances, and proofs, checked by TLAPS, of what holds for
every value of the constants. Paths below are relative to the repository;
`ui/` is short for `app/token-bridge-ui/src/`.

## 1. The system

| Part | Where | State | Operations |
|---|---|---|---|
| BNS contract | `ethereum/BNS/BNS.sol` | `wrappedTokens` by truncated id, ERC-721 ledger of BNS tokens, token URIs | `wrapNFT`, `unwrapNFT` (calls the receiver back), `tokenURI` |
| `bridge_name_service` program | `programs/bridge-name-service/src` | token accounts of the vault PDA; it keeps no account of its own | `wrap_domain`, `redeem_nft` |
| TLD House, Name House (external) | clients in `ui/solana/utils` | name accounts, ANS NFTs | buy or extend, delete, mint an ANS NFT, redeem it |
| Wormhole (external) | used by the hooks | messages (VAAs), which of them were completed | transfer, complete, on either chain |
| Transfer and redeem handlers | `ui/hooks/useHandleNFTTransfer.tsx`, `useHandleNFTRedeem.tsx`, `ui/solana/handleInstructions.ts` | none but the point they have reached | two chains of four transactions out, two of two and three back in, each with reads that decide where to resume |
| Store of the transfer | `ui/store/nftSlice.ts`, `selectors.ts` | step, chains, domain, flags, VAA, redeem transaction | reducers |
| Domain page | `ui/components/NFT` | none (the store) | the four steps, their buttons and locks |
| Recovery page | `ui/components/Recovery.tsx` | chain, transaction, loading flag, VAA | fetch a VAA, cancel the fetch, hand over to the store |
| VAA polling | `ui/utils/getSignedVAAWithRetry.ts` | attempts | one round per second until a host answers |
| Hooks for the target | `ui/hooks/useCheckIfWormholeWrapped.ts`, `useFetchTargetAsset.ts`, `useSyncTargetAddress.ts` | per effect: what it last ran with, a `cancelled` flag | look up origin, target asset, target address |
| Hook for the list of tokens | `ui/hooks/useGetSourceParsedTokenAccounts.ts` | the Ethereum list it keeps, the list in the store | load, reload, start over on a change of wallet |
| Wallet connections | `ui/contexts`, `ui/hooks/useIsWalletReady.ts` | the connected account of each chain | connect, disconnect, show another account |
| Token pickers | `ui/components/TokenSelectors` | dialog state | select a domain, on Ethereum after an awaited look-up |
| Upstream token bridge | `ui/hooks/useHandleTransfer.tsx`, `useHandleRedeem.tsx`, `ui/store/transferSlice.ts` | inherited, not routed | — |

How they interact. The handlers call the contract and the program by
transactions and read both chains between them; they share nothing but the chains, so
two pages meet only there. A page's handlers, its steps, its hooks and the recovery page
share the store: a reducer dispatched by one changes what the buttons of all offer, and
makes the effects run that depend on what it changed. The contract calls the receiver
of a token back in the middle of `unwrapNFT`. The program calls TLD House and the token
program inside one atomic instruction, while a domain's way through wrap, mint, redeem
and release takes several instructions that other wallets' instructions interleave with.

What is hard, and what correctness means:

* **contract** — a callback between the transfer and the burn; two ids sharing
  one entry of `wrappedTokens`; tokens sent to the contract unwrapped. Correct: every BNS
  token stands for one ENS token in custody, and release and burn go together.
* **program** — label, name account, TLD and token accounts are the caller's arguments,
  of which the program compares only the label with the mint; "buy or extend" also
  succeeds for a name that exists. Correct: an NFT in the vault for every name but those that
  TLD houses made, one release per deleted name, one bearer per domain.
* **handlers** — every await may fail, a transaction may fail unnoticed or land
  after its page is gone, and what was read before a signature may be stale after it.
  Correct: whatever has failed the domain is in one place and has one holder, and
  trying again finishes the transfer.
* **store and pages** — flags set and cleared by several handlers and pages
  are the only locks. Correct: one handler at a time, no lock without its handler,
  and what is shown belongs to the transfer that is shown.
* **hooks** — React runs an effect some time after the render that made it due, and
  what it awaits is answered after the selection, the wallet or the step has changed.
  Correct: what is looked up, listed and selected belongs to the account and the domain
  on the page, and the recipient of a transfer is never another domain's.
* **derived addresses** — the client and the program compute the address of a mint from
  the same token id by different conversions. Correct: they agree on every id.

`PROJECT.json` lists every hazard at its line with the properties that cover it; those
without one are named in section 8.

## 2. Modules

    DomainBearer (abstract)
        ▲ refinement
    BridgeNameService ─┐ BridgeNameService_proofs, MCBridgeNameService
    BNS ───────────────┤ BNS_proofs, MCBNS
                       ▼ INSTANCE
    DomainBridge         DomainBridge_proofs, BridgedDomain_proofs, MCDomainBridge
        │ refinement
        ├──▶ BridgedDomain (abstract)
        ▲ one handler per tab
    NftPage              NftPage_proofs, MCNftPage
        ▲ a selection, an address
    AssetHooks           AssetHooks_proofs, AssetLookups_proofs, MCAssetHooks
    SourceAccounts       SourceAccounts_proofs, MCSourceAccounts
    WormholeMint         MCWormholeMint

`DomainBridge` instantiates the two chain modules on its own variables, so its
transactions are their actions, and the bridge is checked against the same contract and
program that are checked and proved by themselves. The other modules look at
one tab from inside, each at the part of the store that its code touches; every
reducer of `nftSlice` is in one of them. What a module leaves open, the one above may
assume: that a tab has one handler at a time (`NftPage!OneHandler`, proved, but for a
transfer that is recovered into a store in use; such a tab is two elements of `Tabs`, as
`bridge_overlap` has them and the proofs allow), that the domain page has a selection and an address when
it sends (`NftPage!SyncTargetAddress` stands for `AssetHooks`), and that the
selection belongs to the connected wallet (`AssetHooks!Pick` for `SourceAccounts`).

### BNS — the contract

`ownerOf` and `getApproved` are the ERC-721 ledgers of the ENS registrar and of the
BNS token; `wrapped` is `wrappedTokens`, indexed by `Key160[id]`, the truncation of
`bytes32(uint256(uint160(id)))`. `wrapNFT` is one step: no code of its caller runs in
it. `unwrapNFT` by an account without code is one step too. For an account with
code it is a frame on the stack `calls`: `unwrapNFTCall` does the require and the transfer,
the receiver then takes any steps it likes (calls of the contract included, up to
`MaxDepth` deep), and `unwrapNFTReturn` resets the entry and burns, or `unwrapNFTRevert`
restores the storage saved at the call. The outermost transaction is the one that begins
and ends with an empty stack; `ReleaseBurns` compares its two ends.
`setApprovalForAll` and token URIs are left out: they change neither who owns
nor what is wrapped.

### BridgeNameService — the program and the name services

`amount[m][w]` is the balance of the associated token account of wallet `w`, `atas`
the accounts that exist, `nameOwner` and `ansNft` the state of TLD House and Name
House. `handle_domain_wrapping` and `handle_domain_redeeming` take the caller's
arguments as they come (label `n`, name account `k.t`, mint, both token accounts) and make
the checks of the source in its order; an instruction that fails leaves no trace, so it is
no step. The program compares the label with the mint (`check_wormhole_mint_account`), and
neither with the hash that the name account is derived from, nor the TLD with anything: whether
`k` is `n` would be for TLD House to check, which is not in this repository. So `n`, `k` and
`t` are independent. The PDA derivation is the injective constant `MintOf`.

`BuyOrExtendRenewable` buys a name that does not exist or has lapsed, which takes it from whoever
had it, or extends one that exists. The mint of an ANS NFT is derived from the expiry, so
either may leave the name with its record and without the NFT that would redeem it. Wallets may
also send NFTs, close empty accounts, pass names on and mint or redeem ANS NFTs between any two
instructions, and buy from or extend at any TLD house directly (`BuyName`).

Two history variables tell apart what the program cannot: `loose` are the names that a TLD
house sold or extended, or that one instruction paired with the NFT of another name; `sold`
counts the names that TLD houses made. `NameReleases` and `Covered` speak of all names, loose or
not; `NamesBacked` and `OneBearer` of those that are not loose, whatever instructions
mix up other names.

`DomainBearer` is what all this promises together, without accounts: a domain that has
arrived has one bearer until it departs, who changes only when it is given away, departs or
arrives. A name that becomes loose has departed for good.

### DomainBridge — both directions, driven by the client

For one domain. `tab[t]` says which transaction or read page `t` is waiting for, for
whom and for which VAA; a handler has no other memory. The clicks (`SendFromEth`,
`SendFromSolana`, `RedeemOnSolana`, `RedeemOnEth`) make the reads that decide
where to start, at the click, as in the code; what follows acts on what was read. Every
transaction may

* land and be seen (`Confirms`), land unseen (`ConfirmsUnseen`) or not land (`Fails`);
* fail in its block while the handler goes on (`FailsUnnoticed`): `signSendAndConfirm`
  skips the preflight and drops the result of `confirmTransaction`;
* be left pending with its page (`Leaves`), to land later or never. Transactions of
  a wallet on Ethereum land in the order of their nonces.

Between all of these the domain is sold on Ethereum or passed on on Solana.
Wormhole is a sequence of VAAs and the set of those completed: at most one completion each.
Abstracted: the metadata transaction of a first redemption, the posting of the VAA,
the derivation of addresses (see `WormholeMint`), more than one domain. The page does
not look at the recipient of a VAA, and neither do the clicks here; that people
redeem VAAs addressed to themselves is an assumption about them (`Own`, in `Clicks` and
`Returns`). Label and name account come from this client, which derives both from one domain,
and nobody buys or extends the name at the TLD house of `.eth` beside the program.

Two kinds of states are told apart. While the domain is `Backed`, the two chains agree: it
is in one place, and its ENS token is in the contract unless it is not wrapped. One kind of step
ends that, and `Crosses` names it: an unwrapping that gets into its block when the BNS token is
the NFT bridge's again. What the other properties say of the bridge they say up to there. `Landed` is the transaction
that a step takes out of a page or out of those left pending: with it `CrossesOnlyNewer` says
of the very unwrapping that crosses that a newer transfer has been published.

`BridgedDomain` is what the bridge promises without tokens, accounts and messages: a domain
on one chain or on its way to the other, with one holder who can give it away where it is and
keeps it on the way. `DomainBridge!Whole` maps to it: `Chain` is where the BNS token, the
VAA under way or the bridged NFT is, `Holder` the one user who has it in any of its
five forms. Sending is `Depart`, completing a VAA is `Arrive`, a gift, and an unwrapping
for whoever sends it, is `Give`; the other transactions are not seen.

### NftPage — one tab of the client

`nft` holds the fields of the store that handlers, steps and the recovery page meet
on; reducers have the names of the code. `running` are the handlers (asynchronous
functions) under way, each with the transfer it was started with; `published` the
transfers whose transaction the user can look up; `route` and `recovery` the page shown
and the recovery page's own state. Three things change the page. The header's links keep the
store and the handlers alive (`FollowLink`), and name no parameters. The address bar ends the
handlers and makes a new store (`Load`). The address it loads, `address`, may name chains, for the
domain page, or a chain and a transaction, for the recovery page; the browser's Back to that
entry (`GoBack`) mounts its page once more, which applies the parameters to the store as it is,
beside the handlers that run (`PathChains`, `PathTransaction`: the effects of `NFT/index.tsx`
and `Recovery.tsx` at their mount).
`ready` says that the Ethereum wallet is connected: the recovery page cancels its fetch when
it goes and starts again when it comes back, whichever chain the fetch asks. `FetchEnds` and `Retries` are the rounds of
`getSignedVAAWithRetry`: a round asks one host, and `attempts` is compared after it was
incremented, so that there is one round more than hosts.

`mixed` is history: a transfer was recovered into a store that was in use. Three of the
properties name it as their exception, which `page_recovered` shows to be needed for
`ShownAsRedeemed`; the two locks hold without it. `OnItsChainUntilSteered` is one of the three:
what is being sent, or is held to be redeemed, has the target chain of the page, and one step ends
that, Back to an address that names other chains while the page is locked (`Steered`).

### AssetHooks — the recipient of a transfer

The three effects of the domain page, under React's rules, which several of the hazards
come from. An effect is due while a value it lists as a dependency differs from the one it
last ran with (`Due`, `ran`). `Flushed` runs what is due: first all cleanups, which
cancel what the former run waits for (`job`), then the effects in the order of the
code, each with what was *rendered* but writing to what the store is *now*. An event of the
user finds all effects run; an answer or an event of a wallet may come first: it changes the
store, then the effects of the render before run, and those of the new render are left
for later. `AssetFound` dispatches twice with a render in between, as the code does
after an await.

`raced` is history: an answer came when its effect was already due, that is, after the
render that was to cancel it and before the cleanup. `excused`: a lookup failed, or the domain was
selected once more, which clears what was looked up and makes no effect due.

### SourceAccounts — the list of tokens and the selection

The selector's three effects that matter for domains: starting over when the selection
was made with another account, loading the Solana list, loading the Ethereum list. Only the
last cancels. `page.covalent` is the Ethereum list the component keeps beside
the store, lost when the selector is not shown; `loads[s]` counts Solana lists on their
way, which nothing cancels; `picking` are Ethereum picks that are being looked at. A failure
goes to the store first and runs the effects that are due; an answer goes to the selector
first, and is dropped if what is due cancels it. `excused` is the history behind the exception of
`ListComes`. That the list is that of the connected account is no property: a Solana list
that arrives late replaces the list of the account that is shown by then, and a list stays when
the account changes under it while nothing is selected. The comment of the code denies the
second, so it is the run `accounts_changed`.

### WormholeMint — digits and bytes

The two conversions of a token id that the seeds of the mint are made from: all bytes
(`to_big_endian`, in the program and when the client has the label), and the digits of
`BigNumber.toHexString`, without leading zeros (when the client has the number from a VAA).

## 3. Properties, runs, bounds

Every property of a passing run has a faulty variant of a definition
(`...Unchecked`, `...WithoutReset`, …, next to the correct one) under which that run
finds it violated; `PROJECT.json` pairs them.

| Run | Instance | Checks |
|---|---|---|
| `bns_callback` | an account with code and one without, 2 ids with one key, 3 nested calls | `TypeOK`, `WrappedMeansOneMinted`, `Custody`, `ReleaseBurns` |
| `bearer` | 2 wallets, 2 names, 2 TLDs, 1 name made by a TLD house, symmetry | `TypeOK`, `OneUnit`, `NamesBacked`, `Covered`, `NameReleases`, `OneBearer` (refinement) |
| `bridge_one` | 2 users, 1 page, 4 transfers, fairness | `TypeOK`, `Backed`, `OneHolder`, `OneDomain` (refinement), `Delivered`, `FinishedOnSolana`, `FinishedOnEth` |
| `bridge_overlap` | 1 user, 2 pages, 3 transfers, pending transactions | `MovableWhileBacked`, `BackedUntilCrossed`, `CrossesOnlyNewer` |
| `bridge_left` | 1 user, 1 page, 3 transfers, pending transactions | `Backed` is violated |
| `bridge_confirmed` | 1 user, 1 page, 1 transfer | `ReceivedOnSolana` is violated |
| `page` | 1 domain with transfers to both chains, 2 handlers, 1 host, 3 addresses, fairness | `TypeOK`, `OneHandler`, `ShownAsRedeemed`, `OnItsChainUntilSteered`, `LockedByHandler`, `OneRedeem`, `LoadingEnds` |
| `page_recovered` | as `page` | `RecoveredCanBeRedeemed` is violated |
| `hooks` | 2 domains, 1 account on Ethereum, 2 on Solana, fairness | `TypeOK`, `LookedUp`, `AddressAtRest`, `RecipientFits`, `AddressComes` |
| `accounts` | 2 accounts in each wallet, 2 loads on their way, fairness | `TypeOK`, `SelectedWithWallet`, `ListComes` |
| `accounts_changed` | as `accounts` | `ListResetOnChange` is violated |
| `mint_digits` | 3 bytes of 4 values | `ClientMintPassesCheck` is violated |

Why the bounds are enough (section 5 removes them for the invariants it proves).

* The contract keeps one storage slot per key and one ledger entry per id: entries
  meet only when two ids share a key, as the two here do, and three nested calls let a call
  return between two others.
* The program's instructions touch one name and one mint: two of each show an
  instruction reaching for another's, two TLDs a name that exists twice. A TLD house makes one
  name (`MaxSold`), enough for its buyer to redeem an NFT with it that another wallet
  wrapped; extensions and purchases of lapsed names are not bounded. Wallets, names with their
  mints, and TLDs are interchangeable and the run has no liveness, so the symmetry is sound.
* In `bridge_one` four transfers go there and back twice, so each direction is entered
  with every leftover of the one before (an old VAA, a claimed VAA, an approval, an
  existing token account); from the second round on no new situations appear.
  `bridge_overlap` trades users for interleavings: two pages and a pending transaction
  on each chain, over there, back and there again, the fewest transfers in which an
  unwrapping can cross a transfer.
* Two handler slots are enough to refute `OneHandler` and `OneRedeem`. Two transfers are told
  apart by the chain they go to, and either is sent any number of times, also while the other
  is known. Of the three addresses one swaps the chains, one swaps them back by the target
  alone, and one names a transaction. With one host, as in the code, there are two rounds
  of polling.
* A lookup meets one that is for another domain, account or chain: two of each, where
  the second Ethereum account would only repeat the dependency on the wallet that the two
  Solana accounts show. Two Solana lists on their way can be answered in either order.
* A token id is a number with or without a leading zero byte: three bytes have both, twice.

With pending transactions and three transfers `Backed` fails, as `bridge_left` shows, so
`MaxLeft` is 0 in `bridge_one`, where it is an invariant. In `bridge_overlap`, where
it may fail, the properties say when: at a step that `Crosses`, which lands one unwrapping,
and only when a newer transfer than the one it unwraps is published; and that until then the domain can go on from wherever it is.

Exceptions that properties name. `loose` (`BridgeNameService`), `~mixed` (`NftPage`), `raced`
and `excused` (`AssetHooks`), `excused` (`SourceAccounts`), and the empty field or absent wallet
of `LoadingEnds`: each is a situation of the code in which the property without the
exception fails, TLC finds it when the exception is dropped, and the hazards at the lines
named in `PROJECT.json` describe it.

`CHECK_DEADLOCK FALSE` stands in the configurations of the two chain modules (all tokens
may have been sent to the contract, or all NFTs to the vault, unwrapped, and then nothing
can move) and of `WormholeMint`, which is one computation.

## 4. Fairness

* `DomainBridge`: a page does not stay in a handler for ever (`WF(Fails)`: requests
  time out, pages are closed); a user comes back to the newest transfer (`SF(Returns)`),
  and of the redeeming transactions that are tried again and again one succeeds in the end
  (`SF` of `Redeeming /\ Confirms`, and of the two reads). It is strong fairness because a
  failure disables the step in between. Nothing is assumed of sending: no one has to send
  a domain.
* `NftPage`: a request of the polling ends, with an answer or an error
  (`WF(FetchEnds \/ Retries)`). Nothing is assumed of the guardians. `LoadingEnds` has the premise
  that from some point on the wallet stops coming and going and the tab is not loaded anew:
  either starts the fetch again, so that otherwise it may never have the time to end.
* `AssetHooks`: React runs effects that are due (`WF(Flush)`); lookups are answered
  (`WF(Answers)`), or fail, which `AddressComes` excuses: neither is tried again.
* `SourceAccounts`: React runs effects that are due; lists are answered, and not
  always between a render and its effects (`SF(Settled /\ Answers)`): strong because a user
  who goes on makes effects due in between.

## 5. What is proved

All for every value of the constants. The library's proof rules have no induction over
data and no ENABLED; none is needed: each theorem is an inductive invariant with one
lemma per action.

`BNS_proofs`, from `AccountsAssumption`, `TokensAssumption`, `KeysAssumption` and
`DepthAssumption` alone: any accounts with or without code, any ids and any
truncation, any depth of calls.

* `TypeCorrect`: `Spec => []TypeOK`.
* `WrappedMeansOneMintedAlways`, `CustodyAlways`. Neither is inductive: a revert
  restores a saved storage, and a return burns a token whose ENS token the call has handed
  out. `IInv` therefore says of the current storage, and of the storage saved by
  each frame, that it is `Sound` — entries match minted tokens, the ENS
  token of every minted id is in custody but for those handed out by the calls *below*
  that storage, no approval is open on a token in custody. One lemma per action shows that
  it keeps `IInv`; a call pushes the storage it found, a revert pops one, and
  `HandedOut(n)` grows and shrinks with the stack.
* `ReleaseBurnsAlways`, an action property of the outermost transaction, whose two ends
  are many steps apart. `Surplus` of an id counts its ENS token in custody and the absence of
  its BNS token: a release that burns keeps it, one that does not loses one. `SurplusInv` says
  that from the start of each pending call to that of the next, or to now, an id has lost
  no more than the call `Owes`. When the outermost call returns it pays what it owes,
  so nothing was lost.

`BridgeNameService_proofs`, from `WalletsAssumption`, `MintsAssumption` and
`FiniteAssumption`: any wallets, names, mints and TLDs, any of which may sell and extend names.

* `TypeCorrect`, `OneUnitAlways`: a move takes the one unit there is.
* `NameReleasesAlways`: whatever label, name account and TLD are given, the vault pays one NFT
  to a wallet that deletes one name of its own. By cases on the step: only `redeem_nft`
  lowers the vault's balance.
* `CoveredAlways`: a count. A wrap puts an NFT into the vault that was not there, since its owner
  had the one unit, and makes at most one name; a redemption takes one NFT and deletes the name
  that its owner has; a TLD house counts what it makes.
* `NamesBackedAlways`, of names that are not loose: `IInv` is the conjunction of the type
  invariant, `OneUnit` and `NamesBacked`. Wrapping needs it: since the wallet
  has the NFT the vault has none, so no TLD has the name and "buy or extend" buys.
* `BearerRefinement`: `Spec => OneBearer`. `IInv` gives that whoever holds the NFT,
  the name or the ANS NFT is the only one, from which every step maps to `Arrive`, `Give`,
  `Depart` or a stutter; an instruction that mixes up two names is a departure of those that
  it takes out of care, and no step at all for the others.

`DomainBridge_proofs`, from `BridgeAssumption`, for any users, any number of open pages, of
transfers and of transactions left behind.

* `TypeCorrect`, also after a crossing: one lemma (`...Effect`) per transaction says what it
  does to both chains, and that everything keeps its type.
* `CrossingUnbacks` (`BackedUntilCrossed`). `Backed` is not inductive and has to be
  strengthened by `SolInv`: the vault has the NFT exactly while there is a name, and the name is
  its record's exactly while there is an ANS NFT. But these too end with a crossing, so the
  invariant `ChainInv` says of the chains that they `Agree` *or* that there is a `Surplus`:
  more transfers under way and bridged NFTs than BNS tokens with the NFT bridge. A lemma per
  transaction (`...Keeps`) shows that it keeps the agreement unless it `Crosses`, turns it into
  a surplus if it does, and never takes a surplus away: hence "for good". What is true on
  either side (`EthInv`, the contract's books; `AtaInv`, a token account with an NFT exists) is
  kept by every step.
* `CrossingNeedsNewer` (`CrossesOnlyNewer`): a step that crosses takes exactly one transaction
  out of play, an `unwrapNFT` of a VAA to Ethereum that is not the newest. `StepInv` says of every step in play, on a page
  or left behind, that its VAA is its user's on that chain, and that, if the BNS token is with
  the NFT bridge while it unwraps, a newer VAA was published: the handler has seen the token
  elsewhere, or has itself completed its transfer, and only a new transfer to Solana takes the
  token back to the NFT bridge (`TransfersStep`).
* `OneHolderWhileBacked`, `NeverStuck` (`MovableWhileBacked`): consequences of the agreement, in
  every reachable state that has it. `BackedWithoutCrossing`: a behaviour in which nothing
  crosses has it throughout.
* Where nothing can cross. `TwoTransfersNeverCross`: with at most two transfers, since the first
  goes to Solana (`FirstInv`) and the second is the newest. `OnePageNeverCrosses`: under
  `OnePage` (one tab, and no transaction outlives its page), since a page about to unwrap has
  seen the BNS token outside the NFT bridge, where it stays (`PageInv`); with a second page or a
  pending transaction it need not, and `bridge_left` is the counterexample. `TwoTransfers`,
  `BackedOnePage` and `OneHolderOnePage` follow.

`BridgedDomain_proofs`, on top of it.

* `OneDomainWithoutCrossing`: `Spec /\ [][~Crosses]_vars => OneDomain`, the refinement. `View`
  says what the mapping yields while the chains agree: whoever has the domain in any form is
  `Holder`, and where the BNS token is decides `Chain`. From it and the effect of a
  transaction, each is seen as `Depart`, `Arrive`, `Give` or not at all (`LandsSeen`);
  completing a VAA needs `StepInv`, for a VAA could otherwise be redeemed on the wrong chain.
  `OneDomainOnePage` and `OneDomainTwoTransfers` drop the hypothesis.
* `BridgeKeepsContract`: `Spec => Contract!Spec`, where `Contract` is the module of proofs about
  the contract, instantiated with the bridge's users. Its assumptions hold there
  (`ContractAssumptions`), so its theorems hold in the whole bridge and need no second proof:
  `CustodyInBridge`, `WrappedInBridge`, `ReleaseBurnsInBridge`. They hold after a crossing as
  well: the contract never loses track of what it has, and what a crossing takes, the NFT on
  Solana is left without.

`NftPage_proofs`, from `PageAssumption`, for any domains, handlers, hosts and addresses.

* `LockInv`: `LockedByHandler`, `OneRedeem`, and that a handler which redeems has the flag
  set and no redeem transaction in the store, so that neither a second click nor a reset can
  clear its lock. It holds whatever is recovered.
* `PageInv`, unless `mixed`: one handler at a time, a sending handler has the flag and no
  VAA, a redeeming one redeems the VAA shown. `OneHandlerAlways` and `ShownAsRedeemedAlways`
  follow. It says nothing of the chains, which Back may set at any time.
* `OnItsChainUntilSteeredAlways`, an action property, from both, unless `mixed`: a step that changes the target
  chain while the page is locked is `GoBack` to an address that names it (`GoBackKeeps`), and
  every other step keeps what is sent or held on the target chain (`OnItsChainStep`), because
  the fields that would change it are locked.

`AssetHooks_proofs`, for any domains and accounts.

* `TypeCorrect`, `RecipientFitsAlways`. The invariant `HooksInv` says that what a job waits
  for was asked for with what its effect last ran with (`JobsRan`), and that origin, target
  asset and address fit the selection unless an answer `raced`. An answer whose effect is
  not due was therefore asked for with the dependencies of now. What an effect writes with
  an outdated render (`Touched`) is either nothing or an address or asset on Ethereum,
  which fits every domain.

`AssetLookups_proofs`, on top of it, from `HooksAssumption` (`None` is no domain, account,
origin, asset or pair of arguments).

* `LookedUpAlways`, `AddressAtRestAlways`. `Leaves` says in full what a flush leaves
  (`FlushedEffects`): an effect that is not due leaves what it is about alone, one that is
  due has ended what it was waiting for. `LookupsInv` then says what an effect that is not
  due and waits for nothing has left: the origin that it was to look up (`OriginKnown`,
  unless `excused`), the asset of the selection or none (`Looked`), the address that follows
  from the store and the wallets (`AddressKnown`), and that the noted arguments are those the
  asset was found with (`Noted`, `ArgsFresh`). The effects
  of one render write to a store that a dispatch has changed since, so the lemmas about a
  flush (`OriginFlushed`, `AnsweredFlushed`, ...) tell the page that was seen from the page
  that is written. A late answer is therefore repaired by the lookup
  that starts after it, which is what the two properties say of `raced`.

`SourceAccounts_proofs`, from `AccountsAssumption`, for any accounts and any number of lists.

* `TypeCorrect`, `SelectedWithWalletAlways`. `SelectorInv` relates the selection to the wallet
  the effects have last seen: a switch that they have seen was acted on (`SwitchNoticed`).

## 6. What is only model-checked

* Liveness: `Delivered`, `FinishedOnSolana`, `FinishedOnEth`, `LoadingEnds`, `AddressComes`,
  `ListComes`. It is beyond the prover.
  What it rests on is proved where it is an invariant: `NeverStuck` says that a transaction
  which would finish a transfer finds what it asks for.
* What `WormholeMint` computes: the digits of a number are a fold over a sequence, and what a fold
  yields for every sequence takes an induction over data.

## 7. Where code and words differ

* The redeem handler reads the owner of the BNS token before it asks for a signature,
  and `unwrapNFT` does not compare its caller with that owner. A `transferNFT` that
  was left pending may land in between; the token is then burned while the NFT bridge holds
  it, and the NFT that arrives on Solana stands for nothing in custody (`bridge_left`). It is
  the only way: no other step of any page or late transaction ends the agreement of the chains
  (`CrossingUnbacks`), and the unwrapping is always of an older transfer (`CrossingNeedsNewer`).
* "Transaction confirmed" is shown after a Solana transaction that failed in its block
  (`bridge_confirmed`). Redeeming again finishes the transfer (`FinishedOnSolana`).
* `setRecoveryVaa` keeps the redeem transaction of an earlier transfer: the recovered
  one is shown as redeemed and offers no redeem button (`page_recovered`). Loading the
  recovery page anew avoids it (`ShownAsRedeemed` without `mixed`).
* For a domain whose label hash begins with a zero byte, one in 256, the client names
  another mint in `wrap_domain` than the program computes, which refuses it
  (`mint_digits`): the NFT arrives on Solana and no name can be created for it.

* The comment of the effect that starts over says that it resets the list when the wallet changes
  (`useGetSourceParsedTokenAccounts.ts:516`). It does only if a token was selected with another
  account (`:517-522`): when an account is replaced by another while nothing is selected, the
  former account's list stays on the page (`accounts_changed`).

Others that no run states: `unwrapNFT` takes any ERC-721 for its `token`, where `wrapNFT`
insists on ENS: the BNS token is burned and the ENS token stays. `redeem_nft` reports
"Redeem {}.eth" (`redeem_domain.rs:105`) for whatever TLD and name account were passed. The domain
page sets the chains from its address at every mount, also on Back while a transfer runs
(`NFT/index.tsx:50-74`): `OnItsChainUntilSteered` says that nothing
else takes a transfer off the target chain, unless one is recovered into a store in use. Changing the source chain during a
fetch cancels the only code that ends the loading state of the recovery page.

## 8. Not modelled

* The generated code: `ui/ethers-contracts` (bindings and factories with their ABI and
  byte code), the IDLs in `app/solana/idl`, the Solana clients generated from them. It is most of the repository's lines and has
  no behaviour of this system's own, so the share of all lines that the definitions stand
  for is small, although the contract, the program, both handlers, the store and
  the domain page are modelled whole or nearly so.
* The upstream token bridge of the client (its own slice, hooks, attestation, statistics and
  migration pages): inherited, and not routed by `App.js`. No user of this program
  reaches it. The origin verifier is routed, and only shows what it looks up.
* The Ethereum provider context: how it comes to provider, network and address, and its await
  before the address of a signer is set. The hooks see any order of accounts that it
  could produce. Wallets on a wrong network are left out: their buttons are disabled.
* The duration that `wrapDomain` pays for, as a u16 in units of ten days, and the metadata
  transaction of a first redemption: one expression, and one transaction that only adds an
  account nobody reads.
* The unlimited polling of the send handler: the page is locked as long as the guardians sign
  no VAA, and only leaving it ends the wait.
* Wormhole's guardians, the metadata program, RPC nodes beyond their failures, rendering.
