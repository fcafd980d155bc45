---------------------------- MODULE DomainBridge ----------------------------
(***************************************************************************)
(* The whole bridge, for one domain: the contract BNS on Ethereum, the     *)
(* program bridge_name_service on Solana, the Wormhole NFT bridge between  *)
(* them, and the pages of the web client, whose handlers drive the two     *)
(* directions one transaction after the other.                             *)
(*                                                                         *)
(* A handler keeps nothing: whatever it awaits may fail, its page may be   *)
(* left, and a transfer is then taken up again from the start, with what   *)
(* the chains hold by then. A transaction sent from a page that was left   *)
(* may still get into a block.                                             *)
(***************************************************************************)
EXTENDS Naturals, Sequences

CONSTANTS
    Users,        \* people, each with a wallet on both chains
    Tabs,         \* open pages of the client; each runs one handler at a time
    Domain,       \* the domain: an ENS token id, a name, the mint of its NFT
    NFTBridge,    \* the Wormhole NFT bridge on Ethereum
    BNSContract, ENS, BNSToken,
    Vault, Record, Eth,
    NoOne,
    MaxVaas,      \* bound: transfers through Wormhole
    MaxLeft       \* bound: unconfirmed transactions left behind, by wallet and chain

ASSUME BridgeAssumption ==
    /\ NFTBridge \notin Users
    /\ BNSContract \notin Users \cup {NFTBridge}
    /\ NoOne \notin Users \cup {NFTBridge, BNSContract, Record}
    /\ Vault \notin Users
    /\ Record \notin Users
    /\ ENS # BNSToken
    /\ MaxVaas \in Nat
    /\ MaxLeft \in {0, 1}

VARIABLES
    ownerOf, getApproved, wrapped, calls,  \* Ethereum: see BNS
    atas, amount, nameOwner, ansNft,       \* Solana: see BridgeNameService
    vaas,     \* the messages of the NFT bridge, in order
    claimed,  \* the numbers of those that were completed
    tab,      \* what each page is waiting for
    left      \* transactions sent from pages that were left

ethVars == <<ownerOf, getApproved, wrapped, calls>>
solVars == <<atas, amount, nameOwner, ansNft>>
whVars == <<vaas, claimed>>
chainVars == <<ethVars, solVars, whVars>>
vars == <<chainVars, tab, left>>

E == INSTANCE BNS WITH
       Users <- Users \cup {NFTBridge}, Contracts <- {},
       Tokens <- {ENS, BNSToken}, CallTokens <- {ENS},
       Operators <- {BNSContract, NFTBridge},
       TokenIds <- {Domain}, Keys <- {Domain}, Key160 <- [id \in {Domain} |-> id],
       MaxDepth <- 0

\* The client names the domain's own account and mint, in the TLD "eth"; nobody buys
\* or extends it from the TLD house.
S == INSTANCE BridgeNameService WITH
       Names <- {Domain}, Mints <- {Domain}, MintOf <- [n \in {Domain} |-> n],
       Tlds <- {Eth}, MaxSold <- 0, loose <- {}, sold <- 0

Vaas == [to : {"ethereum", "solana"}, recipient : Users]

\* The transactions a page waits for, and the reads on the way.
EthTransactions ==
    {"approveENS", "wrapNFT", "approveBNS", "transferNFT", "redeemOnEth", "unwrapNFT"}
SolTransactions ==
    {"complete", "wrapDomain", "createNft", "redeemNft", "transferWrapped"}
Transactions == EthTransactions \cup SolTransactions
Reads == {"readName", "readExpiry"}

\* What a page waits for, in whose name, and the number of the VAA it redeems or 0.
Step == [at : Transactions \cup Reads \cup {"redeemed"}, user : Users, vaa : 0..MaxVaas]

Idle == [at |-> "idle", user |-> NoOne, vaa |-> 0]

TypeOK ==
    /\ vaas \in Seq(Vaas) /\ Len(vaas) <= MaxVaas
    /\ claimed \subseteq DOMAIN vaas
    /\ tab \in [Tabs -> Step \cup {Idle}]
    /\ left \subseteq Step
    /\ E!TypeOK
    /\ S!TypeOK

Init ==
    /\ E!Init /\ ownerOf[ENS][Domain] \in Users
    /\ S!Init
    /\ vaas = <<>>
    /\ claimed = {}
    /\ tab = [t \in Tabs |-> Idle]
    /\ left = {}

----------------------------------------------------------------------------
(* The Wormhole NFT bridge *)

\* A transfer to the wallet of the same user on the other chain.
Publish(to, u) ==
    /\ Len(vaas) < MaxVaas
    /\ vaas' = Append(vaas, [to |-> to, recipient |-> u])
    /\ UNCHANGED claimed

\* A VAA is completed once.
Claim(v) ==
    /\ v \in DOMAIN vaas \ claimed
    /\ claimed' = claimed \cup {v}
    /\ UNCHANGED vaas

----------------------------------------------------------------------------
(* The transactions on Ethereum *)

ApproveENS(u) ==
    /\ E!Approve(u, ENS, Domain, BNSContract)
    /\ UNCHANGED <<solVars, whVars>>

WrapNFT(u) ==
    /\ E!wrapNFT(u, ENS, Domain)
    /\ UNCHANGED <<solVars, whVars>>

ApproveBNS(u) ==
    /\ E!Approve(u, BNSToken, Domain, NFTBridge)
    /\ UNCHANGED <<solVars, whVars>>

\* Faulty variant of TransferNFT: the token stays with the sender.
TransferNFTWithoutToken(u) ==
    /\ ownerOf[BNSToken][Domain] = u
    /\ Publish("solana", u)
    /\ UNCHANGED <<ethVars, solVars>>

\* The NFT bridge takes the BNS token from the sender and publishes the transfer.
TransferNFT(u) ==
    /\ ownerOf[BNSToken][Domain] = u
    /\ E!TransferFrom(NFTBridge, BNSToken, Domain, NFTBridge)
    /\ Publish("solana", u)
    /\ UNCHANGED solVars

\* redeemOnEth: the NFT bridge gives the BNS token to the recipient of the transfer.
CompleteTransfer(v) ==
    /\ Claim(v)
    /\ ownerOf[BNSToken][Domain] = NFTBridge
    /\ E!TransferFrom(NFTBridge, BNSToken, Domain, vaas[v].recipient)
    /\ UNCHANGED solVars

UnwrapNFT(u) ==
    /\ E!unwrapNFT(u, ENS, Domain)
    /\ UNCHANGED <<solVars, whVars>>

----------------------------------------------------------------------------
(* The transactions on Solana *)

\* postVaaSolanaWithRetry and redeemOnSolana.
CompleteWrapped(v) ==
    /\ Claim(v)
    /\ S!CompleteWrapped(vaas[v].recipient, Domain)
    /\ UNCHANGED ethVars

WrapDomain(u) ==
    /\ S!handle_domain_wrapping(u, Domain, Domain, Eth, Domain,
                                S!Ata(u, Domain), S!Ata(Vault, Domain))
    /\ UNCHANGED <<ethVars, whVars>>

CreateNft(u) ==
    /\ S!CreateAnsNft(u, Eth, Domain)
    /\ UNCHANGED <<ethVars, whVars>>

\* Faulty variant of RedeemNft: the ANS NFT is not burned.
RedeemNftWithoutBurn(u) ==
    /\ ansNft[Eth][Domain] = u
    /\ nameOwner' = [nameOwner EXCEPT ![Eth][Domain] = NoOne]
    /\ S!assert_is_ata_enhanced(S!Ata(Vault, Domain), Vault, Domain, TRUE)
    /\ S!CheckedOrCreated(S!Ata(u, Domain), u, Domain)
    /\ S!MoveOne(S!Ata(Vault, Domain), S!Ata(u, Domain))
    /\ UNCHANGED <<ansNft, ethVars, whVars>>

\* Two instructions: redeemRenewableNft burns the ANS NFT and gives its holder the
\* name, then redeem_nft deletes that name and releases the bridged NFT.
RedeemNft(u) ==
    /\ ansNft[Eth][Domain] = u
    /\ ansNft' = [ansNft EXCEPT ![Eth][Domain] = NoOne]
    /\ nameOwner' = [nameOwner EXCEPT ![Eth][Domain] = NoOne]
    /\ S!assert_is_ata_enhanced(S!Ata(Vault, Domain), Vault, Domain, TRUE)
    /\ S!CheckedOrCreated(S!Ata(u, Domain), u, Domain)
    /\ S!MoveOne(S!Ata(Vault, Domain), S!Ata(u, Domain))
    /\ UNCHANGED <<ethVars, whVars>>

\* transferFromSolana: the bridged NFT is burned and the transfer published.
TransferWrapped(u) ==
    /\ S!TransferWrapped(u, Domain)
    /\ Publish("ethereum", u)
    /\ UNCHANGED ethVars

\* The transaction x gets into a block and succeeds.
Lands(x) ==
    \/ x.at = "approveENS" /\ ApproveENS(x.user)
    \/ x.at = "wrapNFT" /\ WrapNFT(x.user)
    \/ x.at = "approveBNS" /\ ApproveBNS(x.user)
    \/ x.at = "transferNFT" /\ TransferNFT(x.user)
    \/ x.at = "redeemOnEth" /\ CompleteTransfer(x.vaa)
    \/ x.at = "unwrapNFT" /\ UnwrapNFT(x.user)
    \/ x.at = "complete" /\ CompleteWrapped(x.vaa)
    \/ x.at = "wrapDomain" /\ WrapDomain(x.user)
    \/ x.at = "createNft" /\ CreateNft(x.user)
    \/ x.at = "redeemNft" /\ RedeemNft(x.user)
    \/ x.at = "transferWrapped" /\ TransferWrapped(x.user)

\* A wallet's transactions on Ethereum get into blocks in the order of their nonces.
LeftOnEth(u) == \E x \in left : x.user = u /\ x.at \in EthTransactions

InOrder(x) == x.at \in EthTransactions => ~LeftOnEth(x.user)

----------------------------------------------------------------------------
(* A click: the handler starts, and reads where to resume *)

Starts(t, u, v, place) ==
    /\ tab[t] = Idle
    /\ tab' = [tab EXCEPT ![t] = [at |-> place, user |-> u, vaa |-> v]]
    /\ UNCHANGED <<chainVars, left>>

\* transferFromEth: the ENS token is not the sender's once it is wrapped.
SendFromEth(t, u) ==
    Starts(t, u, 0, IF ownerOf[ENS][Domain] = u THEN "approveENS" ELSE "approveBNS")

\* The bridged NFT is the sender's once the ANS NFT is redeemed.
SendFromSolana(t, u) ==
    Starts(t, u, 0, IF amount[Domain][u] > 0 THEN "transferWrapped" ELSE "redeemNft")

\* The page redeems a VAA, its own or a recovered one, completed or not.
Redeemable(v, chain) == v \in DOMAIN vaas /\ vaas[v].to = chain

\* Faulty variant: a VAA that is not claimed is not completed.
RedeemOnSolanaClaimed(t, u, v) ==
    /\ Redeemable(v, "solana")
    /\ Starts(t, u, v, "readName")

RedeemOnSolana(t, u, v) ==
    /\ Redeemable(v, "solana")
    /\ Starts(t, u, v, IF v \in claimed THEN "readName" ELSE "complete")

\* Faulty variants of RedeemOnEth: the transfer is never, or always, completed.
RedeemOnEthNever(t, u, v) ==
    /\ Redeemable(v, "ethereum")
    /\ ownerOf[BNSToken][Domain] # NoOne
    /\ Starts(t, u, v, "unwrapNFT")

RedeemOnEthAlways(t, u, v) ==
    /\ Redeemable(v, "ethereum")
    /\ ownerOf[BNSToken][Domain] # NoOne
    /\ Starts(t, u, v, "redeemOnEth")

\* The BNS token has left the NFT bridge once the transfer is completed; while
\* there is none, reading its owner fails.
RedeemOnEth(t, u, v) ==
    /\ Redeemable(v, "ethereum")
    /\ ownerOf[BNSToken][Domain] # NoOne
    /\ Starts(t, u, v, IF ownerOf[BNSToken][Domain] = NFTBridge THEN "redeemOnEth" ELSE "unwrapNFT")

----------------------------------------------------------------------------
(* A page in a handler *)

At(t, place) == tab[t].at = place

Goes(t, place) == tab' = [tab EXCEPT ![t].at = place]

Stops(t) == tab' = [tab EXCEPT ![t] = Idle]

\* What comes after a transaction. A page that has sent a transfer waits for its
\* VAA, which it or another page then redeems.
After ==
    [approveENS |-> "wrapNFT", wrapNFT |-> "approveBNS", approveBNS |-> "transferNFT",
     transferNFT |-> "idle", redeemOnEth |-> "unwrapNFT", unwrapNFT |-> "redeemed",
     complete |-> "readName", wrapDomain |-> "readExpiry", createNft |-> "redeemed",
     redeemNft |-> "transferWrapped", transferWrapped |-> "idle"]

GoesOn(t) == IF After[tab[t].at] = "idle" THEN Stops(t) ELSE Goes(t, After[tab[t].at])

\* The page's transaction succeeds, and the handler goes on.
Confirms(t) ==
    /\ tab[t].at \in Transactions
    /\ InOrder(tab[t])
    /\ Lands(tab[t])
    /\ GoesOn(t)
    /\ UNCHANGED left

\* It succeeds, but the page does not learn so.
ConfirmsUnseen(t) ==
    /\ tab[t].at \in Transactions
    /\ InOrder(tab[t])
    /\ Lands(tab[t])
    /\ Stops(t)
    /\ UNCHANGED left

\* signSendAndConfirm sends without preflight and does not look at the outcome
\* that confirmTransaction returns: the handler goes on after a transaction that
\* failed in its block. A failed transferFromSolana is noticed: its log has no sequence
\* number.
FailsUnnoticed(t) ==
    /\ tab[t].at \in SolTransactions \ {"transferWrapped"}
    /\ GoesOn(t)
    /\ UNCHANGED <<chainVars, left>>

\* Faulty variant of ReadName: the name account is not looked for.
ReadNameAlwaysWraps(t) ==
    /\ At(t, "readName")
    /\ Goes(t, "wrapDomain")
    /\ UNCHANGED <<chainVars, left>>

\* wrapDomain has no instruction to send if the name account exists.
ReadName(t) ==
    /\ At(t, "readName")
    /\ Goes(t, IF nameOwner[Eth][Domain] = NoOne THEN "wrapDomain" ELSE "readExpiry")
    /\ UNCHANGED <<chainVars, left>>

\* createNftAns derives the NFT's mint from the name account, and throws without one.
ReadExpiry(t) ==
    /\ At(t, "readExpiry")
    /\ nameOwner[Eth][Domain] # NoOne
    /\ Goes(t, "createNft")
    /\ UNCHANGED <<chainVars, left>>

\* A transaction is rejected, reverts or does not get into a block, a request
\* fails, or the page is left.
Fails(t) ==
    /\ tab[t] # Idle
    /\ Stops(t)
    /\ UNCHANGED <<chainVars, left>>

\* The page is left while its transaction is not yet in a block.
Leaves(t) ==
    /\ tab[t].at \in Transactions
    /\ \A x \in left : x.user = tab[t].user => (x.at \in EthTransactions) # (tab[t].at \in EthTransactions)
    /\ MaxLeft = 1
    /\ left' = left \cup {tab[t]}
    /\ Stops(t)
    /\ UNCHANGED chainVars

LandsLater(x) ==
    /\ x \in left
    /\ Lands(x)
    /\ left' = left \ {x}
    /\ UNCHANGED tab

\* It reverts in its block, expires or is replaced.
Drops(x) ==
    /\ x \in left
    /\ left' = left \ {x}
    /\ UNCHANGED <<chainVars, tab>>

----------------------------------------------------------------------------
(* Outside the client: the domain changes hands *)

GiveOnEth(u, v, t) ==
    /\ ~LeftOnEth(u)
    /\ ownerOf[t][Domain] = u
    /\ E!TransferFrom(u, t, Domain, v)
    /\ UNCHANGED <<solVars, whVars, tab, left>>

GiveOnSolana(u, v) ==
    /\ S!TransferAnsNft(u, v, Eth, Domain) \/ S!SplTransfer(u, v, Domain)
    /\ UNCHANGED <<ethVars, whVars, tab, left>>

----------------------------------------------------------------------------

\* The page does not look at the recipient of a transfer: that people redeem transfers
\* addressed to themselves is assumed of them.
Own(u, v) == v \in DOMAIN vaas /\ vaas[v].recipient = u

Clicks(t) ==
    \E u \in Users :
        \/ SendFromEth(t, u)
        \/ SendFromSolana(t, u)
        \/ \E v \in DOMAIN vaas : Own(u, v) /\ (RedeemOnSolana(t, u, v) \/ RedeemOnEth(t, u, v))

Handler(t) ==
    \/ Confirms(t) \/ ConfirmsUnseen(t) \/ FailsUnnoticed(t)
    \/ ReadName(t) \/ ReadExpiry(t)
    \/ Fails(t) \/ Leaves(t)

Next ==
    \/ \E t \in Tabs : Clicks(t) \/ Handler(t)
    \/ \E x \in left : LandsLater(x) \/ Drops(x)
    \/ \E u, v \in Users : GiveOnSolana(u, v) \/ \E t \in {ENS, BNSToken} : GiveOnEth(u, v, t)

Spec == Init /\ [][Next]_vars

\* A user redeems the newest transfer, which is his.
Returns(t, u) ==
    Own(u, Len(vaas)) /\ (RedeemOnSolana(t, u, Len(vaas)) \/ RedeemOnEth(t, u, Len(vaas)))

Redeeming == {"complete", "wrapDomain", "createNft", "redeemOnEth", "unwrapNFT"}

\* No page stays in a handler for ever. Every user comes back to a transfer that is
\* not finished, and of what he tries again and again something succeeds in the end.
Fairness ==
    \A t \in Tabs :
        /\ WF_vars(Fails(t))
        /\ \A u \in Users :
              LET Of(A) == tab[t].user = u /\ A IN
              /\ SF_vars(Returns(t, u))
              /\ SF_vars(Of(tab[t].at \in Redeeming /\ Confirms(t)))
              /\ SF_vars(Of(ReadName(t)))
              /\ SF_vars(Of(ReadExpiry(t)))

FairSpec == Spec /\ Fairness

----------------------------------------------------------------------------
(* Safety *)

\* The transfers under way, and the wallets with the bridged NFT.
UnderWay == DOMAIN vaas \ claimed

Bridged == {w \in S!Wallets : amount[Domain][w] > 0}

\* The BNS token is with the NFT bridge exactly while the domain is on its way or on
\* Solana, and then in one place only; its ENS token is in the contract. This
\* relates what five transactions of two handlers leave on both chains, at every
\* point where one of them fails (useHandleNFTTransfer.tsx:83-102, 187-218;
\* useHandleNFTRedeem.tsx:59-68, 97-163).
Backed ==
    IF ownerOf[BNSToken][Domain] = NFTBridge
      THEN /\ ownerOf[ENS][Domain] = BNSContract
           /\ \/ Bridged = {} /\ \E v \in UnderWay : UnderWay = {v}
              \/ UnderWay = {} /\ \E w \in Bridged : Bridged = {w} /\ amount[Domain][w] = 1
      ELSE Bridged = {} /\ UnderWay = {}

\* Those who have the domain: as an ENS token, as a BNS token, as the recipient of
\* a transfer under way, or on Solana.
Holders ==
    {u \in Users :
       \/ ownerOf[ENS][Domain] = u
       \/ ownerOf[BNSToken][Domain] = u
       \/ \E v \in UnderWay : vaas[v].recipient = u
       \/ u \in S!Bearers(Domain)}

\* After every step of every handler, and whatever has failed, exactly one user has
\* the domain: it is never lost between two transactions and never had twice.
OneHolder == \E u \in Users : Holders = {u}

\* An unwrapping gets into its block when the BNS token is the NFT bridge's again:
\* unwrapNFT asks its caller for nothing, and burns it (BNS.sol:33-41).
Crosses == ownerOf[BNSToken][Domain] = NFTBridge /\ ownerOf'[BNSToken][Domain] = NoOne

\* However many pages are open and however late the transactions of pages that were
\* left get into a block, one kind of step ends the agreement of the chains, it always
\* does, and nothing brings them to agree again: an unwrapping that was sent before the
\* domain went to Solana again.
BackedUntilCrossed == [][Backed' <=> Backed /\ ~Crosses]_vars

\* The transactions and reads that a step takes out of the pages and out of those left.
Landed == {tab[t] : t \in {p \in Tabs : tab'[p] # tab[p]}} \cup (left \ left')

\* It takes a newer transfer: the unwrapping that crosses is part of a transfer to Ethereum
\* after which the domain has been sent on, because a handler unwraps only what it has
\* seen out of the NFT bridge. That of the newest transfer never crosses
\* (useHandleNFTRedeem.tsx:59-68).
CrossesOnlyNewer ==
    [][Crosses => \E x \in Landed :
         /\ Landed = {x} /\ x.at = "unwrapNFT"
         /\ vaas[x.vaa].to = "ethereum" /\ x.vaa < Len(vaas)]_vars

\* Wherever the domain is, the next transaction that would move it finds what it asks
\* for: to wrap and to unwrap on Ethereum, to complete a transfer on either chain, to
\* wrap on Solana for a name of one's own, to redeem for the vault's NFT.
Movable ==
    /\ ownerOf[ENS][Domain] \in Users => ~wrapped[Domain] /\ ~E!Minted(Domain)
    /\ ownerOf[BNSToken][Domain] \in Users => E!CanRelease(ENS, Domain)
    /\ \A v \in UnderWay :
          IF vaas[v].to = "ethereum"
            THEN ownerOf[BNSToken][Domain] = NFTBridge
            ELSE S!NoneMinted(Domain)
    /\ \A u \in Users :
          /\ amount[Domain][u] > 0 =>
                S!Ata(u, Domain) \in atas /\ nameOwner[Eth][Domain] = NoOne
          /\ u \in {nameOwner[Eth][Domain], ansNft[Eth][Domain]} =>
                S!Ata(Vault, Domain) \in atas /\ amount[Domain][Vault] > 0

\* As long as the chains agree nobody is stuck with the domain: every failure between
\* two transactions leaves it where a handler can take it up again, which the two token
\* accounts, the contract's mapping and the name all have their part in
\* (BNS.sol:19-41; wrap_domain.rs:134-255; redeem_domain.rs:110-195).
MovableWhileBacked == Backed => Movable

\* Where the domain is or is going, and whose it is.
Chain ==
    IF ownerOf[BNSToken][Domain] # NFTBridge THEN "ethereum"
    ELSE IF UnderWay = {} THEN "solana"
    ELSE vaas[CHOOSE v \in UnderWay : TRUE].to

Holder == CHOOSE u \in Users : Holders = {u}

Whole == INSTANCE BridgedDomain WITH chain <- Chain, underWay <- UnderWay # {}, holder <- Holder

\* Eleven transactions, on two chains and with five forms of the domain, behave like one
\* domain: none loses it or has it twice, none but the completion of its own transfer
\* ends its way, and it does not change hands on the way, from whichever point a failed
\* handler is taken up again (useHandleNFTTransfer.tsx:83-102, 187-218;
\* useHandleNFTRedeem.tsx:59-68, 97-163).
OneDomain == Whole!Spec

\* The page that says "Transaction confirmed" after redeeming a transfer on Solana
\* (useHandleNFTRedeem.tsx:166) has the ANS NFT in its wallet.
ReceivedOnSolana ==
    [][\A t \in Tabs :
         At(t, "createNft") /\ tab'[t].at = "redeemed" =>
             ansNft'[Eth][Domain] = tab[t].user]_vars

----------------------------------------------------------------------------
(* Liveness *)

\* A transfer that was published is completed: no failure between the two chains,
\* and no way a handler resumes, makes its VAA one that cannot be redeemed.
Delivered == \A v \in 1..MaxVaas : v \in UnderWay ~> v \in claimed

\* The newest transfer is the user's, on that chain.
Newest(u, chain) == vaas # <<>> /\ vaas[Len(vaas)] = [to |-> chain, recipient |-> u]

\* The recipient of a transfer does not stay with the bridged NFT or with the bare
\* name account in his wallet: from wherever the chain of transactions broke,
\* redeeming again ends in the ANS NFT, or the domain goes on
\* (useHandleNFTRedeem.tsx:97-163).
FinishedOnSolana ==
    \A u \in Users :
        /\ amount[Domain][u] > 0 /\ Newest(u, "solana") ~> amount[Domain][u] = 0
        /\ nameOwner[Eth][Domain] = u /\ Newest(u, "solana") ~> nameOwner[Eth][Domain] # u

\* The recipient who was given back the BNS token does not stay with it: redeeming
\* again unwraps it (useHandleNFTRedeem.tsx:59-68).
FinishedOnEth ==
    \A u \in Users :
        ownerOf[BNSToken][Domain] = u /\ Newest(u, "ethereum") ~> ownerOf[BNSToken][Domain] # u
=============================================================================
