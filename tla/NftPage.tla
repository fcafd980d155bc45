------------------------------ MODULE NftPage ------------------------------
(***************************************************************************)
(* One tab of the web client: the store of the domain transfer, the        *)
(* handlers that run beside it and write to it when they end, the steps of *)
(* the page, and the recovery page, which takes up a transfer again from   *)
(* the transaction that sent it.                                           *)
(*                                                                         *)
(* A handler works with what the store held at the click. It goes on when  *)
(* the user follows a link inside the application, and writes to whatever  *)
(* the store holds by then; loading the page anew ends it.                 *)
(***************************************************************************)
EXTENDS Naturals

CONSTANTS
    Domains,     \* domains that the user transfers
    MaxRunning,  \* bound: handlers that run at once
    None,
    Hosts,       \* number of guardian hosts that the recovery page asks for a VAA
    Addresses    \* bound: the parameters that addresses of pages name

VARIABLES
    nft,        \* the store: nftSlice
    running,    \* running[h]: the handler in slot h, or None
    published,  \* transfers that were sent: the user knows their transactions
    route,      \* the page that is shown
    recovery,   \* the state of the recovery page
    ready,      \* whether the Ethereum wallet is connected
    address,    \* the parameters of the address the tab was loaded from, or None
    mixed       \* history: a transfer was recovered into a store that was in use

pageVars == <<nft, running, published, route, address, mixed>>
vars == <<pageVars, recovery, ready>>

Slots == 1..MaxRunning

Chains == {"ethereum", "solana"}

\* A signed VAA: the transfer of a domain to a chain.
Vaas == [domain : Domains, to : Chains]

Store ==
    [activeStep : 0..3, sourceChain : Chains, targetChain : Chains,
     sourceParsedTokenAccount : Domains \cup {None},
     targetAddress : BOOLEAN,  \* whether targetAddressHex is there
     signedVAA : Vaas \cup {None}, redeemTx : Vaas \cup {None},
     isSending : BOOLEAN, isRedeeming : BOOLEAN]

Handlers == [at : {"sending", "fetching", "redeeming"}, vaa : Vaas, chain : Chains]

\* sourceChain and targetChain, or sourceChain and transactionId.
Parameters ==
    [page : {"nft"}, source : Chains \cup {None}, target : Chains \cup {None}]
      \cup [page : {"redeem"}, source : Chains \cup {None}, tx : Vaas \cup {None}]

ASSUME PageAssumption ==
    /\ None \notin Domains \cup Vaas \cup Handlers \cup Chains \cup Addresses
    /\ Addresses \subseteq Parameters
    /\ Hosts \in Nat \ {0}
    /\ MaxRunning \in Nat

\* recoverySourceChain, recoverySourceTx, recoverySignedVAA, recoverySourceTxIsLoading,
\* and the attempt at which an effect that was not cancelled is fetching, or 0.
RecoveryState ==
    [chain : Chains, tx : Vaas \cup {None}, vaa : Vaas \cup {None},
     isLoading : BOOLEAN, attempts : 0..Hosts + 1]

TypeOK ==
    /\ nft \in Store
    /\ running \in [Slots -> Handlers \cup {None}]
    /\ published \subseteq Vaas
    /\ route \in {"nft", "redeem"}
    /\ recovery \in RecoveryState
    /\ ready \in BOOLEAN
    /\ address \in Addresses \cup {None}
    /\ mixed \in BOOLEAN

----------------------------------------------------------------------------
(* The store *)

initialState ==
    [activeStep |-> 0, sourceChain |-> "ethereum", targetChain |-> "solana",
     sourceParsedTokenAccount |-> None, targetAddress |-> FALSE,
     signedVAA |-> None, redeemTx |-> None, isSending |-> FALSE, isRedeeming |-> FALSE]

setStep(step) == [nft EXCEPT !.activeStep = step]

setSourceChain(s, chain) ==
    [s EXCEPT !.sourceChain = chain, !.sourceParsedTokenAccount = None,
              !.targetAddress = FALSE,
              !.targetChain = IF @ = chain THEN s.sourceChain ELSE @]

setTargetChain(s, chain) ==
    LET t == [s EXCEPT !.targetChain = chain, !.targetAddress = FALSE] IN
    IF s.sourceChain # chain THEN t
    ELSE [t EXCEPT !.sourceChain = s.targetChain, !.activeStep = 0,
                   !.sourceParsedTokenAccount = None]

setSourceParsedTokenAccount(d) ==
    [nft EXCEPT !.sourceParsedTokenAccount = d, !.targetAddress = FALSE]

setSignedVAAHex(vaa) ==
    [nft EXCEPT !.signedVAA = vaa, !.isSending = FALSE, !.activeStep = 3]

setRedeemTx(vaa) == [nft EXCEPT !.redeemTx = vaa, !.isRedeeming = FALSE]

\* Faulty variants of reset: the redeem transaction stays; the chains do not.
resetKeepingRedeemTx ==
    [initialState EXCEPT !.sourceChain = nft.sourceChain, !.targetChain = nft.targetChain,
                         !.redeemTx = nft.redeemTx]

resetChains == [initialState EXCEPT !.sourceChain = None, !.targetChain = None]

reset == [initialState EXCEPT !.sourceChain = nft.sourceChain, !.targetChain = nft.targetChain]

\* Faulty variant of setRecoveryVaa: the chains stay.
setRecoveryVaaOnly(vaa) ==
    [nft EXCEPT !.signedVAA = vaa, !.sourceParsedTokenAccount = None,
                !.targetAddress = TRUE, !.activeStep = 3]

\* Faulty variant: a handler that is redeeming another transfer is forgotten.
setRecoveryVaaUnlocking(vaa) ==
    [nft EXCEPT !.signedVAA = vaa, !.targetChain = vaa.to,
                !.sourceChain = IF @ = vaa.to THEN nft.targetChain ELSE @,
                !.sourceParsedTokenAccount = None, !.targetAddress = TRUE,
                !.activeStep = 3, !.isRedeeming = FALSE]

\* The transaction that redeemed an earlier transfer, and the flags of handlers
\* that run, stay as they are.
setRecoveryVaa(vaa) ==
    [nft EXCEPT !.signedVAA = vaa, !.targetChain = vaa.to,
                !.sourceChain = IF @ = vaa.to THEN nft.targetChain ELSE @,
                !.sourceParsedTokenAccount = None, !.targetAddress = TRUE,
                !.activeStep = 3]

isSendComplete == nft.signedVAA # None
isRedeemComplete == nft.redeemTx # None
shouldLockFields == nft.isSending \/ isSendComplete
isSourceComplete == nft.sourceParsedTokenAccount # None
isTargetComplete == isSourceComplete /\ nft.sourceChain # nft.targetChain /\ nft.targetAddress

preventNavigation == (nft.isSending \/ isSendComplete \/ nft.isRedeeming) /\ ~isRedeemComplete

----------------------------------------------------------------------------
(* Pages *)

NoRecovery == [chain |-> "ethereum", tx |-> None, vaa |-> None, isLoading |-> FALSE, attempts |-> 0]

\* A button of a page works while the wallet of its chain is connected; the Solana
\* wallet is taken to stay connected.
Ready(chain, connected) == chain = "ethereum" => connected

Connected(chain) == Ready(chain, ready)

\* The domain page's effect on the parameters a of its address, which sets the chains
\* of whatever store there is.
PathChains(a, s) ==
    LET t == IF a.source = None THEN s ELSE setSourceChain(s, a.source) IN
    IF a.source = a.target THEN s
    ELSE IF a.target = None THEN t
    ELSE setTargetChain(t, a.target)

\* The recovery page's effect that fetches a VAA: an earlier one is cancelled.
Fetches(state, connected) ==
    IF state.tx # None /\ Ready(state.chain, connected)
      THEN [state EXCEPT !.isLoading = TRUE, !.attempts = 1]
      ELSE [state EXCEPT !.attempts = 0]

\* Its effect on the parameters a of its address; it fetches if this changed a field.
PathTransaction(a, state, connected) ==
    LET named == [state EXCEPT !.chain = IF a.source = None THEN @ ELSE a.source,
                               !.tx = IF a.tx = None THEN @ ELSE a.tx] IN
    IF named = state THEN state ELSE Fetches(named, connected)

\* A store that was just loaded; the address may have named the chains.
Loaded == {initialState, [initialState EXCEPT !.sourceChain = "solana", !.targetChain = "ethereum"]}

\* The addresses of a page.
Of(page) == {None} \cup {a \in Addresses : a.page = page}

Init ==
    /\ address \in Of("nft")
    /\ nft = IF address = None THEN initialState ELSE PathChains(address, initialState)
    /\ running = [h \in Slots |-> None]
    /\ published = {}
    /\ route = "nft"
    /\ recovery = NoRecovery
    /\ ready = FALSE
    /\ mixed = FALSE

\* The store alone changes.
Dispatch(store) == nft' = store /\ UNCHANGED <<published, route, recovery, ready, address, mixed>>

OnStep(step) == route = "nft" /\ nft.activeStep = step

ChooseSourceChain(chain) ==
    /\ OnStep(0) /\ ~shouldLockFields
    /\ chain # nft.sourceChain
    /\ Dispatch(setSourceChain(nft, chain))
    /\ UNCHANGED running

ChooseDomain(d) ==
    /\ OnStep(0) /\ ~shouldLockFields
    /\ Dispatch(setSourceParsedTokenAccount(d))
    /\ UNCHANGED running

\* The target step keeps the recipient address up to date.
SyncTargetAddress ==
    /\ OnStep(1) /\ ~shouldLockFields
    /\ ~nft.targetAddress
    /\ Dispatch([nft EXCEPT !.targetAddress = TRUE])
    /\ UNCHANGED running

ClickNext ==
    /\ \/ OnStep(0) /\ isSourceComplete
       \/ OnStep(1) /\ isTargetComplete
    /\ Dispatch(setStep(nft.activeStep + 1))
    /\ UNCHANGED running

ClickStep(step) ==
    /\ route = "nft"
    /\ \/ step = 0 /\ ~preventNavigation /\ ~isRedeemComplete
       \/ step = 1 /\ ~preventNavigation /\ ~isRedeemComplete /\ nft.activeStep # 0
       \/ step = 3 /\ isSendComplete /\ ~isRedeemComplete
    /\ Dispatch(setStep(step))
    /\ UNCHANGED running

\* A button of the header, or the browser's Back to such an entry: the page that is left
\* loses what it holds itself, the store stays and the handlers go on.
FollowLink(page) ==
    /\ route # page
    /\ route' = page
    /\ recovery' = NoRecovery
    /\ UNCHANGED <<nft, running, published, ready, address, mixed>>

\* The browser's Back to the entry that the tab was loaded from, whose parameters no
\* link of the application names: the page reads them again, into a store that is in
\* use and beside handlers that run. The page shown may be the same one, without them.
GoBack ==
    /\ address # None
    /\ route' = address.page
    /\ \/ /\ address.page = "nft"
          /\ nft' = PathChains(address, nft)
          /\ recovery' = NoRecovery
       \/ /\ address.page = "redeem"
          /\ recovery' = PathTransaction(address, IF route = "redeem" THEN recovery ELSE NoRecovery, ready)
          /\ UNCHANGED nft
    /\ UNCHANGED <<running, published, ready, address, mixed>>

\* Transfers whose transaction may have left the browser.
Sent == {running[h].vaa : h \in {k \in Slots : running[k] # None /\ running[k].at = "sending"}}

\* The address bar: the store is new and the handlers have ended.
Load(page, a) ==
    /\ route' = page
    /\ address' = a
    /\ running' = [h \in Slots |-> None]
    /\ \E sent \in SUBSET Sent : published' = published \cup sent
    /\ IF page = "redeem" /\ a # None
         THEN /\ a.tx \in published' \cup {None}
              /\ recovery' = PathTransaction(a, NoRecovery, FALSE)
         ELSE recovery' = NoRecovery
    /\ nft' = IF page = "nft" /\ a # None THEN PathChains(a, initialState) ELSE initialState
    /\ ready' = FALSE
    /\ mixed' = FALSE

Loads == \E page \in {"nft", "redeem"} : \E a \in Of(page) : Load(page, a)

----------------------------------------------------------------------------
(* Handlers *)

Runs(h, handler) == running' = [running EXCEPT ![h] = handler]

Ends(h) == Runs(h, None)

\* A click's handler takes the first free slot.
Free(h) == running[h] = None /\ \A k \in Slots : k < h => running[k] # None

In(h, place) == running[h] # None /\ running[h].at = place

Sends(h) == In(h, "sending") \/ In(h, "fetching")

\* Faulty variant: the button is not disabled by a running transfer.
SendDisabledWhenComplete == ~isTargetComplete \/ isSendComplete

SendDisabled == ~isTargetComplete \/ nft.isSending \/ isSendComplete

handleTransferClick(h) ==
    /\ OnStep(2) /\ ~SendDisabled /\ Connected(nft.sourceChain)
    /\ Free(h)
    /\ Runs(h, [at |-> "sending", chain |-> nft.sourceChain,
                vaa |-> [domain |-> nft.sourceParsedTokenAccount, to |-> nft.targetChain]])
    /\ Dispatch([nft EXCEPT !.isSending = TRUE])

\* The transfer is on its chain; the handler asks for the signed VAA.
TransferConfirmed(h) ==
    /\ In(h, "sending")
    /\ Runs(h, [running[h] EXCEPT !.at = "fetching"])
    /\ published' = published \cup {running[h].vaa}
    /\ UNCHANGED <<nft, route, recovery, ready, address, mixed>>

VaaFetched(h) ==
    /\ In(h, "fetching")
    /\ Ends(h)
    /\ Dispatch(setSignedVAAHex(running[h].vaa))

\* Faulty variant of TransferFailed: the page is not told.
TransferFailedSilently(h) ==
    /\ Sends(h)
    /\ Ends(h)
    /\ UNCHANGED <<nft, published, route, recovery, ready, address, mixed>>

\* What was sent before the failure stays sent, known to the page or not.
TransferFailed(h) ==
    /\ Sends(h)
    /\ Ends(h)
    /\ nft' = [nft EXCEPT !.isSending = FALSE]
    /\ published' \in {published, published \cup {running[h].vaa}}
    /\ UNCHANGED <<route, recovery, ready, address, mixed>>

handleRedeemClick(h) ==
    /\ OnStep(3) /\ ~isRedeemComplete /\ ~nft.isRedeeming
    /\ nft.signedVAA # None /\ Connected(nft.targetChain)
    /\ Free(h)
    /\ Runs(h, [at |-> "redeeming", chain |-> nft.targetChain, vaa |-> nft.signedVAA])
    /\ Dispatch([nft EXCEPT !.isRedeeming = TRUE])

\* The handler gets through, which does not take a transfer to its chain: on Ethereum it
\* only unwraps once the BNS token is outside the NFT bridge, on Solana it does not see
\* that a transaction has failed.
RedeemConfirmed(h) ==
    /\ In(h, "redeeming")
    /\ Ends(h)
    /\ Dispatch(setRedeemTx(running[h].vaa))

RedeemFailed(h) ==
    /\ In(h, "redeeming")
    /\ Ends(h)
    /\ Dispatch([nft EXCEPT !.isRedeeming = FALSE])

handleResetClick ==
    /\ OnStep(3) /\ isRedeemComplete
    /\ Dispatch(reset)
    /\ UNCHANGED running

----------------------------------------------------------------------------
(* The recovery page *)

Recovers(state) == recovery' = state /\ UNCHANGED <<pageVars, ready>>

OnRecovery == route = "redeem"

\* The transaction field; the effect below then fetches the VAA.
PasteSourceTx(v) ==
    /\ OnRecovery /\ recovery.vaa = None /\ ~recovery.isLoading /\ Connected(recovery.chain)
    /\ v \in published \ {recovery.tx}
    /\ Recovers([recovery EXCEPT !.tx = v, !.isLoading = TRUE, !.attempts = 1])

\* The source chain stays open to change while the fetch runs. The field is
\* emptied and the effect of the fetch is cancelled; nothing else is.
ChangeSourceChain(chain) ==
    /\ OnRecovery /\ recovery.vaa = None
    /\ chain # recovery.chain
    /\ Recovers([recovery EXCEPT !.chain = chain, !.tx = None, !.attempts = 0])

\* The Ethereum wallet's state is a dependency of the effect, whichever chain it asks.
WalletChanges ==
    /\ ready' = ~ready
    /\ recovery' = IF OnRecovery THEN Fetches(recovery, ~ready) ELSE recovery
    /\ UNCHANGED pageVars

\* The transaction is on the chain it is looked for on.
Found == recovery.tx.to # recovery.chain

\* fetchSignedVAA ends: the VAA, or none: the transaction is not found, the
\* transfer is held back, or no host has the VAA.
FetchEnds ==
    /\ recovery.attempts > 0
    /\ \E vaa \in {recovery.vaa} \cup {v \in {recovery.tx} : Found} :
          Recovers([recovery EXCEPT !.attempts = 0, !.isLoading = FALSE, !.vaa = vaa])

\* Faulty variant: every host is given all the attempts.
RetriesAgain ==
    /\ recovery.attempts > 0 /\ Found
    /\ Recovers([recovery EXCEPT !.attempts = IF @ <= Hosts THEN @ + 1 ELSE 1])

\* A round of getSignedVAAWithRetry in which no host has an answer.
Retries ==
    /\ recovery.attempts \in 1..Hosts /\ Found
    /\ Recovers([recovery EXCEPT !.attempts = @ + 1])

\* The VAA field.
PasteSignedVAA(v) ==
    /\ OnRecovery /\ ~recovery.isLoading
    /\ v \in published
    /\ Recovers([recovery EXCEPT !.vaa = v])

InUse == nft \notin Loaded \/ \E h \in Slots : running[h] # None

\* Recover: the transfer is put into the store and the domain page is shown.
handleRecoverClick ==
    /\ OnRecovery /\ recovery.vaa # None
    /\ nft' = setRecoveryVaa(recovery.vaa)
    /\ route' = "nft"
    /\ recovery' = NoRecovery
    /\ mixed' = InUse
    /\ UNCHANGED <<running, published, ready, address>>

----------------------------------------------------------------------------

Fill ==
    \/ \E chain \in Chains : ChooseSourceChain(chain)
    \/ \E d \in Domains : ChooseDomain(d)
    \/ SyncTargetAddress
    \/ ClickNext
    \/ \E step \in 0..3 : ClickStep(step)

Handle(h) ==
    \/ handleTransferClick(h) \/ TransferConfirmed(h) \/ VaaFetched(h) \/ TransferFailed(h)
    \/ handleRedeemClick(h) \/ RedeemConfirmed(h) \/ RedeemFailed(h)

Recover ==
    \/ \E v \in Vaas : PasteSourceTx(v) \/ PasteSignedVAA(v)
    \/ \E chain \in Chains : ChangeSourceChain(chain)
    \/ FetchEnds \/ Retries
    \/ WalletChanges
    \/ handleRecoverClick

Next ==
    \/ Fill
    \/ \E h \in Slots : Handle(h)
    \/ handleResetClick
    \/ \E page \in {"nft", "redeem"} : FollowLink(page)
    \/ GoBack
    \/ Loads
    \/ Recover

Spec == Init /\ [][Next]_vars

\* A request of the polling ends, with an answer or an error.
FairSpec == Spec /\ WF_vars(FetchEnds \/ Retries)

----------------------------------------------------------------------------
(* Safety *)

\* Unless a transfer is recovered into a store that is in use, at most one handler
\* of the tab runs, however the user moves between the pages: the disabled buttons
\* are the only lock around the chain of transactions, and DomainBridge relies on
\* it (useHandleNFTTransfer.tsx:278, useHandleNFTRedeem.tsx:218, NFT/index.tsx:41-42).
OneHandler ==
    ~mixed => \A h, k \in Slots : running[h] # None /\ running[k] # None => h = k

\* A transfer that the page shows as redeemed is the one it has the VAA of: no
\* transfer is taken for redeemed because another one was, when the recovery page
\* writes to a store that is not in use (nftSlice.ts:187-235).
ShownAsRedeemed ==
    ~mixed /\ isSendComplete /\ isRedeemComplete => nft.redeemTx = nft.signedVAA

\* What is sent, and the VAA that the page would redeem, are for the target chain, whose
\* handler would redeem it.
OnItsChain ==
    /\ isSendComplete => nft.signedVAA.to = nft.targetChain
    /\ \A h \in Slots : Sends(h) => running[h].vaa.to = nft.targetChain

\* The target chain changes while the fields are locked: Back to an address that names
\* chains does this, and nothing else.
Steered == shouldLockFields /\ shouldLockFields' /\ nft'.targetChain # nft.targetChain

\* A VAA comes late, from a handler that was started for the chains of its time, or from
\* the recovery page; yet the page would redeem it on its chain, unless the address has
\* set the chains meanwhile, which is then always wrong (nftSlice.ts:101-117, 158-173,
\* 187-191; NFT/index.tsx:50-74).
OnItsChainUntilSteered == [][~mixed' /\ OnItsChain => (OnItsChain' <=> ~Steered)]_vars

\* A page that says it is sending or redeeming has a handler that is: the page is
\* not locked by one that has ended, wherever the user went meanwhile.
LockedByHandler ==
    /\ nft.isSending => \E h \in Slots : Sends(h)
    /\ nft.isRedeeming => \E h \in Slots : In(h, "redeeming")

\* Two handlers never redeem at once, whatever is recovered and reset while one
\* does: isRedeeming is the only lock around the redeeming transactions, and it is
\* cleared by handlers and by reset (nftSlice.ts:195-206, RedeemPreview.tsx:13-15).
OneRedeem ==
    \A h, k \in Slots : In(h, "redeeming") /\ In(k, "redeeming") => h = k

\* A recovered transfer is not shown as redeemed because another one was: the store
\* has no redeem transaction but that of the VAA it holds (Recovery.tsx:441).
RecoveredCanBeRedeemed ==
    isSendComplete /\ isRedeemComplete => nft.redeemTx = nft.signedVAA

----------------------------------------------------------------------------
(* Liveness *)

\* Unless the wallet comes and goes or the tab is loaded anew for ever, the recovery page
\* does not show for ever that it is loading: however often the hosts have no answer, the
\* polling gives up, and a fetch that was cancelled by the wallet or by the address has
\* started again (Recovery.tsx:266-352, getSignedVAAWithRetry.ts:38). Only a change of
\* the chain leaves it loading, with an empty field, and a wallet of Ethereum that is gone.
LoadingEnds ==
    <>[][~WalletChanges /\ ~Loads]_vars =>
        (recovery.isLoading ~>
            \/ ~recovery.isLoading
            \/ recovery.chain = "ethereum" /\ ~ready
            \/ recovery.tx = None)
=============================================================================
