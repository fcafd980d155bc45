----------------------------- MODULE AssetHooks -----------------------------
(***************************************************************************)
(* How the domain page finds the recipient of a transfer. Three effects of *)
(* the page follow the selection: one looks up where the domain comes from *)
(* (useCheckIfWormholeWrapped), one the token that stands for it on the    *)
(* target chain (useFetchTargetAsset), and one the account of the target   *)
(* wallet that will hold it (useSyncTargetAddress).                        *)
(*                                                                         *)
(* An effect runs after a render in which its dependencies have changed,   *)
(* with what was rendered; its cleanup cancels what the previous run still *)
(* waits for. An event of the user finds all effects run. An answer, or an *)
(* event of a wallet, changes the store first; the effects of the render   *)
(* before then run, and those of the new one are left to run later.        *)
(***************************************************************************)
EXTENDS Naturals

CONSTANTS
    Domains,   \* domains that the user may select
    EthAccounts, SolAccounts,  \* accounts of the user, in the wallets of both chains
    None

Accounts == [ethereum |-> EthAccounts, solana |-> SolAccounts]

VARIABLES
    page,     \* what the page holds: the store, its own state and its effects
    wallet,   \* wallet[chain]: the connected account, or None
    picking,  \* domains that were picked and are still being looked at
    raced,    \* history: an answer came between a render and the cleanup it brings
    excused   \* history: a lookup failed, or the domain was selected again, or when the
              \* step for it had been left

vars == <<page, wallet, picking, raced, excused>>

Chains == {"ethereum", "solana"}

Other(chain) == CHOOSE c \in Chains : c # chain

Effects == {"sync", "check", "fetch"}

\* isSourceAssetWormholeWrapped and originTokenId: every domain comes from Ethereum.
Origins == [domain : Domains, wrapped : BOOLEAN]

\* A token on the target chain: the mint of a domain, or a contract on Ethereum.
Assets == [chain : {"solana"}, domain : Domains] \cup [chain : {"ethereum"}]

\* A recipient: an account on Ethereum, or an account's token account for a mint.
Addresses ==
    [owner : EthAccounts, chain : {"ethereum"}]
    \cup [owner : SolAccounts, chain : {"solana"}, domain : Domains]

Store ==
    [activeStep : 0..2, sourceChain : Chains, selected : Domains \cup {None},
     origin : Origins \cup {None}, targetAsset : Assets \cup {None},
     targetAddress : Addresses \cup {None}]

\* What effects that were not cancelled wait for.
Jobs ==
    [sync : [asset : Assets, owner : SolAccounts] \cup {None},
     check : Origins \cup {None}, fetch : Assets \cup {None}]

ASSUME HooksAssumption ==
    /\ None \notin Domains \cup EthAccounts \cup SolAccounts \cup Origins \cup Assets
    /\ None \notin [asset : Assets, owner : SolAccounts]
    /\ None \notin (Origins \cup {None}) \X Chains

Target(nft) == Other(nft.sourceChain)

\* The arguments of the last lookup of the target asset that succeeded.
Args(nft) == <<nft.origin, Target(nft)>>

\* Faulty variant of SyncDependencies: the wallet on Solana is there or not.
SyncDependenciesWithoutKey(p, w) ==
    IF p.nft.activeStep # 1 THEN <<>>
    ELSE <<Target(p.nft), w["ethereum"], w["solana"] # None, p.nft.targetAsset>>

\* Faulty variant: the target asset is not one of them.
SyncDependenciesWithoutAsset(p, w) ==
    IF p.nft.activeStep # 1 THEN <<>>
    ELSE <<Target(p.nft), w["ethereum"], w["solana"]>>

\* The dependencies of the effects, as rendered. The address is kept up to date by
\* the target step alone.
SyncDependencies(p, w) ==
    IF p.nft.activeStep # 1 THEN <<>>
    ELSE <<Target(p.nft), w["ethereum"], w["solana"], p.nft.targetAsset>>

\* Faulty variant of CheckDependencies: the token id is not one of them.
CheckDependenciesWithoutTokenId(p, w) ==
    <<p.nft.sourceChain, p.nft.selected # None, w["ethereum"] # None>>

CheckDependencies(p, w) == <<p.nft.sourceChain, p.nft.selected, w["ethereum"] # None>>

FetchDependencies(p, w) ==
    <<p.nft.origin, Target(p.nft), w["ethereum"] # None, p.args = Args(p.nft)>>

Dependencies(p, w) ==
    [sync |-> SyncDependencies(p, w), check |-> CheckDependencies(p, w), fetch |-> FetchDependencies(p, w)]

\* The effects whose dependencies have changed since they ran.
Due(p, w) == {e \in Effects : Dependencies(p, w)[e] # p.ran[e]}

Settled == Due(page, wallet) = {}

----------------------------------------------------------------------------
(* The reducers *)

initialState(chain) ==
    [activeStep |-> 0, sourceChain |-> chain, selected |-> None,
     origin |-> None, targetAsset |-> None, targetAddress |-> None]

\* setSourceChain clears all that depends on the selection.
setSourceChain(chain) == initialState(chain)

\* Faulty variant of setSourceParsedTokenAccount: the target asset stays.
setSourceParsedTokenAccountOnly(d) ==
    [page.nft EXCEPT !.selected = d, !.origin = None, !.targetAddress = None]

setSourceParsedTokenAccount(d) ==
    [page.nft EXCEPT !.selected = d, !.origin = None, !.targetAsset = None, !.targetAddress = None]

----------------------------------------------------------------------------
(* The effects: p is what the page holds when one runs, seen what was rendered *)

\* The associated token account; an address on Ethereum is not a mint.
TokenAccount(asset, owner) ==
    IF asset.chain = "solana" THEN [owner |-> owner, chain |-> "solana", domain |-> asset.domain]
    ELSE None

useSyncTargetAddress(p, seen, w) ==
    LET chain == Target(seen.nft) asset == seen.nft.targetAsset IN
    IF seen.nft.activeStep # 1 THEN p
    ELSE IF chain = "ethereum" /\ w[chain] # None
      THEN [p EXCEPT !.nft.targetAddress = [owner |-> w[chain], chain |-> chain]]
    ELSE IF chain = "solana" /\ w[chain] # None /\ asset # None
      THEN [p EXCEPT !.job.sync = [asset |-> asset, owner |-> w[chain]]]
    ELSE [p EXCEPT !.nft.targetAddress = None]

\* Faulty variant of useCheckIfWormholeWrapped: also without a selection.
useCheckIfWormholeWrappedAlways(p, seen, w) ==
    LET chain == seen.nft.sourceChain IN
    IF chain = "ethereum" => w[chain] # None
      THEN [p EXCEPT !.job.check = [domain |-> seen.nft.selected, wrapped |-> chain = "solana"]]
      ELSE p

useCheckIfWormholeWrapped(p, seen, w) ==
    LET chain == seen.nft.sourceChain IN
    IF seen.nft.selected # None /\ (chain = "ethereum" => w[chain] # None)
      THEN [p EXCEPT !.job.check = [domain |-> seen.nft.selected, wrapped |-> chain = "solana"]]
      ELSE p

\* getForeignAssetSolNFT, by the token id of the origin, or getForeignAssetEthNFT.
Sought(chain, origin) ==
    IF chain = "solana" THEN [chain |-> chain, domain |-> origin.domain] ELSE [chain |-> chain]

\* A domain that goes home needs no lookup. Otherwise the asset is cleared until the
\* answer is there.
useFetchTargetAsset(p, seen, w) ==
    LET chain == Target(seen.nft)
        origin == seen.nft.origin
        cleared == [p EXCEPT !.args = None]
    IN
    IF seen.args = Args(seen.nft) THEN p
    ELSE IF origin = None THEN cleared
    ELSE IF chain = "ethereum" /\ origin.wrapped
      THEN [p EXCEPT !.nft.targetAsset = [chain |-> chain], !.args = Args(seen.nft)]
    ELSE IF chain = "ethereum" /\ w[chain] = None THEN cleared
    ELSE [cleared EXCEPT !.nft.targetAsset = None,
                         !.job.fetch = Sought(chain, origin)]

\* Flushing: the cleanups of all effects that are due, then the effects.
Flushed(p, seen, w) ==
    LET due == Due(seen, w)
        Runs(e, q, r) == IF e \in due THEN r ELSE q
        Kept(e) == IF e \in due THEN None ELSE p.job[e]
        clean == [p EXCEPT !.ran = Dependencies(seen, w),
                           !.job = [sync |-> Kept("sync"), check |-> Kept("check"), fetch |-> Kept("fetch")]]
        sync == Runs("sync", clean, useSyncTargetAddress(clean, seen, w))
        check == Runs("check", sync, useCheckIfWormholeWrapped(sync, seen, w))
    IN Runs("fetch", check, useFetchTargetAsset(check, seen, w))

----------------------------------------------------------------------------

Init ==
    /\ \E chain \in Chains, nothing \in {[sync |-> None, check |-> None, fetch |-> None]} :
          page = [nft |-> initialState(chain), args |-> None, job |-> nothing, ran |-> nothing]
    /\ wallet = [chain \in Chains |-> None]
    /\ picking = {}
    /\ raced = FALSE
    /\ excused = FALSE

\* The page does something else, and the effects that are due run.
Flush ==
    /\ ~Settled
    /\ page' = Flushed(page, page, wallet)
    /\ UNCHANGED <<wallet, picking, raced, excused>>

\* An event of the user: React runs the effects before.
UserSets(nft) ==
    /\ Settled
    /\ page' = [page EXCEPT !.nft = nft]
    /\ UNCHANGED <<wallet, raced>>

\* A dispatch from elsewhere.
Arrives(p) == page' = Flushed(p, page, wallet)

ChooseSourceChain(chain) ==
    /\ page.nft.activeStep = 0
    /\ chain # page.nft.sourceChain
    /\ UserSets(setSourceChain(chain))
    /\ excused' = FALSE
    /\ UNCHANGED picking

\* A domain is picked from the list. On Ethereum the picker looks at it once more
\* first.
Pick(d) ==
    /\ page.nft.activeStep = 0
    /\ wallet[page.nft.sourceChain] # None
    /\ IF page.nft.sourceChain = "ethereum"
         THEN picking' = picking \cup {d} /\ Settled /\ UNCHANGED <<page, wallet, raced, excused>>
         ELSE /\ UserSets(setSourceParsedTokenAccount(d))
              /\ excused' = (d = page.nft.selected)
              /\ UNCHANGED picking

\* It becomes the selection, whatever the page shows by then.
Picked(d) ==
    /\ d \in picking
    /\ picking' = picking \ {d}
    /\ Arrives([page EXCEPT !.nft = setSourceParsedTokenAccount(d)])
    /\ excused' = (d = page.nft.selected \/ page.nft.activeStep # 0)
    /\ UNCHANGED <<wallet, raced>>

PickFails(d) ==
    /\ d \in picking
    /\ picking' = picking \ {d}
    /\ UNCHANGED <<page, wallet, raced, excused>>

ClickNext ==
    /\ \/ page.nft.activeStep = 0 /\ page.nft.selected # None
       \/ page.nft.activeStep = 1 /\ page.nft.targetAddress # None
    /\ UserSets([page.nft EXCEPT !.activeStep = @ + 1])
    /\ UNCHANGED <<picking, excused>>

ClickStep(step) ==
    /\ step < page.nft.activeStep
    /\ UserSets([page.nft EXCEPT !.activeStep = step])
    /\ UNCHANGED <<picking, excused>>

\* A wallet connects, disconnects, or shows another account.
WalletChanges(chain, account) ==
    /\ account # wallet[chain]
    /\ wallet' = [wallet EXCEPT ![chain] = account]
    /\ Arrives(page)
    /\ UNCHANGED <<picking, raced, excused>>

Late(e) == raced' = (raced \/ e \in Due(page, wallet))

Done(e) == [page EXCEPT !.job[e] = None]

\* setSourceWormholeWrappedInfo
OriginFound ==
    /\ page.job.check # None
    /\ Arrives([Done("check") EXCEPT !.nft.origin = page.job.check])
    /\ Late("check")
    /\ UNCHANGED <<wallet, picking, excused>>

\* setTargetAsset, then the arguments are noted: two renders, with the effects of
\* the first run in between.
AssetFound ==
    /\ page.job.fetch # None
    /\ \E first \in {Flushed([Done("fetch") EXCEPT !.nft.targetAsset = page.job.fetch], page, wallet)} :
          page' = Flushed([first EXCEPT !.args = <<page.ran.fetch[1], page.ran.fetch[2]>>], first, wallet)
    /\ Late("fetch")
    /\ UNCHANGED <<wallet, picking, excused>>

\* setTargetAddressHex
AddressFound ==
    /\ page.job.sync # None
    /\ Arrives([Done("sync") EXCEPT !.nft.targetAddress =
                   TokenAccount(page.job.sync.asset, page.job.sync.owner)])
    /\ Late("sync")
    /\ UNCHANGED <<wallet, picking, excused>>

\* Neither lookup is tried again; that of the asset leaves an error in its place.
LookupFails(e) ==
    /\ page.job[e] # None
    /\ Arrives(IF e = "fetch" THEN [Done(e) EXCEPT !.nft.targetAsset = None] ELSE Done(e))
    /\ excused' = TRUE
    /\ UNCHANGED <<wallet, picking, raced>>

Answers == OriginFound \/ AssetFound \/ AddressFound

Next ==
    \/ Flush
    \/ \E chain \in Chains : ChooseSourceChain(chain)
    \/ \E d \in Domains : Pick(d) \/ Picked(d) \/ PickFails(d)
    \/ ClickNext
    \/ \E step \in 0..1 : ClickStep(step)
    \/ \E chain \in Chains : \E account \in Accounts[chain] \cup {None} : WalletChanges(chain, account)
    \/ Answers
    \/ \E e \in {"check", "fetch"} : LookupFails(e)

Spec == Init /\ [][Next]_vars

\* React runs the effects that are due; what is looked up is found.
Fairness == WF_vars(Flush) /\ WF_vars(Answers)

FairSpec == Spec /\ Fairness

----------------------------------------------------------------------------

TypeOK ==
    /\ page.nft \in Store
    /\ page.args \in ((Origins \cup {None}) \X Chains) \cup {None}
    /\ page.job \in Jobs
    /\ wallet \in [Chains -> EthAccounts \cup SolAccounts \cup {None}]
    /\ \A chain \in Chains : wallet[chain] \in Accounts[chain] \cup {None}
    /\ picking \subseteq Domains
    /\ raced \in BOOLEAN /\ excused \in BOOLEAN

\* The asset and the address that belong to the selection.
AssetOf(nft) ==
    IF Target(nft) = "solana" THEN [chain |-> "solana", domain |-> nft.selected]
    ELSE [chain |-> "ethereum"]

AddressOf(nft) ==
    LET owner == wallet[Target(nft)] IN
    IF owner = None THEN None
    ELSE IF Target(nft) = "ethereum" THEN [owner |-> owner, chain |-> "ethereum"]
    ELSE [owner |-> owner, chain |-> "solana", domain |-> nft.selected]

\* The lookups of the selection have failed, are not made again, or have no wallet.
Unanswered == excused \/ wallet[page.nft.sourceChain] = None

AtRest == Settled /\ \A e \in Effects : page.job[e] = None

\* Once all effects have run and all lookups have ended, in whatever order the
\* answers came, the origin and the target asset that the page holds are those of
\* the selection and not of an earlier one, even one that came before the cleanup that
\* was to cancel it, if the lookup that then starts is answered
\* (useCheckIfWormholeWrapped.ts:74-137, useFetchTargetAsset.ts:111-239).
LookedUp ==
    AtRest /\ page.nft.selected # None /\ ~(raced /\ Unanswered) =>
        /\ page.nft.origin \in {None, [domain |-> page.nft.selected,
                                      wrapped |-> page.nft.sourceChain = "solana"]}
        /\ page.nft.targetAsset \in {None, AssetOf(page.nft)}

\* On the target step, the page then shows the address that receives the selected
\* domain in the wallet that is connected, or none if a lookup has failed or has no
\* wallet to ask (useSyncTargetAddress.ts:45-112).
AddressAtRest ==
    AtRest /\ page.nft.activeStep = 1 /\ ~(raced /\ Unanswered) =>
        \/ page.nft.targetAddress = AddressOf(page.nft)
        \/ page.nft.targetAddress = None /\ (Unanswered \/ raced)

\* The address that a transfer would be sent to belongs to the selected domain and
\* its target chain: on Solana it is an account for the mint of this domain, also
\* when the selection changes while lookups run. The exception is an answer that
\* comes between a render and the cleanup of its effects (nftSlice.ts:120-133,
\* useSyncTargetAddress.ts:74-108).
RecipientFits ==
    page.nft.activeStep = 2 /\ page.nft.targetAddress # None /\ ~raced =>
        \E owner \in Accounts[Target(page.nft)] :
            page.nft.targetAddress =
                IF Target(page.nft) = "ethereum" THEN [owner |-> owner, chain |-> "ethereum"]
                ELSE [owner |-> owner, chain |-> "solana", domain |-> page.nft.selected]

\* On the target step the address comes, whatever was selected before, unless a
\* lookup fails, the wallets are not there, or the selected domain was selected
\* once more: that clears what was looked up, and nothing looks it up again
\* (useCheckIfWormholeWrapped.ts:79, useFetchTargetAsset.ts:115).
AddressComes ==
    page.nft.activeStep = 1 ~>
        \/ page.nft.activeStep # 1
        \/ page.nft.targetAddress # None
        \/ excused \/ raced
        \/ \E chain \in Chains : wallet[chain] = None
=============================================================================
