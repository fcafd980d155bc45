------------------------ MODULE BridgedDomain_proofs ------------------------
(***************************************************************************)
(* Proofs that the whole bridge does what its parts promise, for any       *)
(* users, pages, transfers and transactions left behind: as long as        *)
(* nothing crosses, it behaves like the one domain of BridgedDomain; and   *)
(* whatever crosses, on Ethereum it behaves like the contract alone, so    *)
(* that what is proved of the contract holds in the bridge.                *)
(***************************************************************************)
EXTENDS DomainBridge_proofs

----------------------------------------------------------------------------
(* What is seen of the bridge while the chains agree *)

Good == ChainTyped /\ EthInv /\ Agree

\* The domain is u's, in one of its forms.
Has(u) ==
    \/ ens = u \/ bns = u
    \/ \E v \in UnderWay : vaas[v].recipient = u
    \/ units[u] > 0 \/ name = u \/ nft = u

\* What the mapping of the refinement yields, and where the forms of the domain are.
View ==
    /\ Holder \in Users
    /\ \A u \in Users : Has(u) => Holder = u
    /\ bns # NFTBridge => Chain = "ethereum" /\ UnderWay = {}
    /\ bns = NFTBridge /\ UnderWay = {} => Chain = "solana"
    /\ \A v \in UnderWay : bns = NFTBridge /\ UnderWay = {v} /\ Chain = vaas[v].to
    /\ \A u \in Users :
          /\ ens = u => bns # NFTBridge
          /\ units[u] > 0 \/ name = u \/ nft = u => bns = NFTBridge /\ UnderWay = {}
          /\ units[u] > 0 => name = NoOne

LEMMA HasHolds ==
    ASSUME Good, NEW u \in Users, Has(u)
    PROVE  u \in Holders
<1>1. u \in S!Bearers(Domain) <=> units[u] > 0 \/ name = u \/ nft = u
  BY DEF S!Bearers, units, name, nft
<1> QED
  BY <1>1 DEF Holders, Has, ens, bns

LEMMA GoodView == Good => View
<1> SUFFICES ASSUME Good PROVE View
  OBVIOUS
<1>1. /\ \A w \in S!Wallets : w \in Bridged <=> units[w] > 0
      /\ Vault \in S!Wallets /\ Users \subseteq S!Wallets
      /\ units \in [S!Wallets -> Nat]
  BY UnitsTyped DEF Good, S!Wallets
<1>2. PICK h \in Users : Holders = {h}
  BY AgreeOneHolder DEF Good, OneHolder
<1>3. Holder = h
  BY <1>2 DEF Holder
<1>4. \A u \in Users : Has(u) => Holder = u
  BY <1>2, <1>3, HasHolds
<1>5. bns # NFTBridge => UnderWay = {} /\ Bridged = {} /\ Chain = "ethereum"
  BY DEF Good, Agree, Backed, Chain, bns
<1>6. bns = NFTBridge /\ UnderWay = {} => Chain = "solana"
  BY DEF Chain, bns
<1>7. ASSUME NEW v \in UnderWay
      PROVE  bns = NFTBridge /\ UnderWay = {v} /\ Bridged = {} /\ Chain = vaas[v].to
  <2>1. bns = NFTBridge /\ UnderWay = {v} /\ Bridged = {}
    BY DEF Good, Agree, Backed, bns
  <2>2. (CHOOSE w \in UnderWay : TRUE) = v
    BY <2>1
  <2> QED
    BY <2>1, <2>2 DEF Chain, bns
<1>8. Bridged # {} => bns = NFTBridge /\ UnderWay = {}
  BY <1>5, <1>7
<1>9. ASSUME NEW u \in Users
      PROVE  /\ ens = u => bns # NFTBridge
             /\ units[u] > 0 \/ name = u \/ nft = u => Bridged # {}
             /\ units[u] > 0 => name = NoOne
  <2>1. ens = u => bns # NFTBridge
    BY BridgeAssumption DEF Good, Agree, Backed, bns, ens
  <2>2. name = u \/ nft = u => units[Vault] > 0
    BY BridgeAssumption DEF Good, Agree, SolInv
  <2>3. ASSUME units[u] > 0 PROVE name = NoOne
    <3>1. u \in Bridged /\ u # Vault
      BY <1>1, <2>3, BridgeAssumption
    <3>2. Bridged = {u}
      BY <3>1 DEF Good, Agree, Backed
    <3> QED
      BY <1>1, <3>1, <3>2 DEF Good, Agree, SolInv
  <2> QED
    BY <1>1, <2>1, <2>2, <2>3
<1> QED
  BY <1>2, <1>3, <1>4, <1>5, <1>6, <1>7, <1>8, <1>9 DEF View

----------------------------------------------------------------------------
(* What is seen of each step *)

Seen == <<Chain, UnderWay # {}, Holder>>

\* Where the steps keep the tokens in the same place and the transfers as they are.
LEMMA ChainStays ==
    ASSUME View, View', vaas' = vaas, claimed' = claimed, bns = NFTBridge <=> bns' = NFTBridge
    PROVE  Chain' = Chain /\ UnderWay' = UnderWay
<1>1. UnderWay' = UnderWay
  BY DEF UnderWay
<1> QED
  BY <1>1 DEF View

LEMMA SentSeen ==
    ASSUME Good, View, View', NEW u \in Users, NEW to \in {"ethereum", "solana"},
           Publish(to, u), Has(u), UnderWay = {}, Chain # to, Chain \in {"ethereum", "solana"}
    PROVE  Whole!Depart
<1> DEFINE n == Len(vaas) + 1
<1>1. n \in UnderWay' /\ vaas'[n] = [to |-> to, recipient |-> u]
  BY Published DEF Good
<1> HIDE DEF n
<1>2. Has(u)'
  BY <1>1 DEF Has
<1>3. Chain' = to /\ UnderWay' # {} /\ Holder' = u /\ Holder = u
  BY <1>1, <1>2 DEF View
<1> QED
  BY <1>3 DEF Whole!Depart

LEMMA CompletedSeen ==
    ASSUME View, View', NEW v \in UnderWay, NEW u \in Users, vaas[v].recipient = u,
           UnderWay' = UnderWay \ {v}, Has(u)', Chain' = vaas[v].to
    PROVE  Whole!Arrive
<1>1. Chain = vaas[v].to /\ UnderWay' = {} /\ UnderWay # {}
  BY DEF View
<1>2. Has(u)
  BY DEF Has
<1>3. Holder = u /\ Holder' = u
  BY <1>2 DEF View
<1> QED
  BY <1>1, <1>3 DEF Whole!Arrive

LEMMA GivenSeen ==
    ASSUME View, View', UNCHANGED <<Chain, UnderWay>>, UnderWay = {}
    PROVE  Whole!Next
<1>1. Whole!Give(Holder') /\ Holder' \in Users
  BY DEF Whole!Give, View
<1> QED
  BY <1>1 DEF Whole!Next

LEMMA LandsSeen ==
    ASSUME Good, Good', View, View', NEW x \in Step, Lands(x), StepOK(x), ~Crosses
    PROVE  [Whole!Next]_Seen
<1> USE DEF Good
<1>1. x.user \in Users /\ NFTBridge \notin Users \cup {NoOne} /\ x.user # BNSContract /\ NoOne # BNSContract
  BY BridgeAssumption DEF Step
<1>2. ASSUME UNCHANGED <<Chain, UnderWay>>, NEW u \in Users, Has(u), Has(u)'
      PROVE  UNCHANGED Seen
  BY <1>2 DEF View, Seen
<1>3. CASE ApproveENS(x.user) \/ ApproveBNS(x.user)
  <2>1. UNCHANGED <<ownerOf, solVars, whVars>>
    BY <1>1, <1>3, ApproveEffect
  <2>2. UNCHANGED <<Chain, UnderWay, Holders>>
    BY <2>1 DEF Chain, UnderWay, Holders, S!Bearers, solVars, whVars
  <2> QED
    BY <2>2 DEF Seen, Holder
<1>4. CASE WrapNFT(x.user)
  <2>1. ens = x.user /\ bns = NoOne /\ bns' = x.user /\ UNCHANGED whVars
    BY <1>1, <1>4, WrapNFTEffect
  <2>2. UNCHANGED <<Chain, UnderWay>>
    BY <1>1, <2>1, ChainStays DEF whVars
  <2> QED
    BY <1>1, <1>2, <2>1, <2>2 DEF Has
<1>5. CASE TransferNFT(x.user)
  <2>1. bns = x.user /\ Publish("solana", x.user)
    BY <1>1, <1>5, TransferNFTEffect
  <2>2. UnderWay = {} /\ Chain = "ethereum"
    BY <1>1, <2>1 DEF View
  <2>3. Whole!Depart
    BY <1>1, <2>1, <2>2, SentSeen DEF Has
  <2> QED
    BY <2>3 DEF Whole!Next
<1>6. CASE x.at = "redeemOnEth" /\ CompleteTransfer(x.vaa)
  <2>1. /\ x.vaa \in UnderWay /\ UnderWay' = UnderWay \ {x.vaa}
        /\ vaas[x.vaa].recipient \in Users /\ bns' = vaas[x.vaa].recipient
    BY <1>6, CompleteTransferEffect
  <2>2. vaas[x.vaa].to = "ethereum"
    BY <1>6 DEF StepOK, OwnTo, Redeemable, Own
  <2>3. Chain' = "ethereum"
    BY <1>1, <2>1 DEF View
  <2>4. PICK u \in Users : vaas[x.vaa].recipient = u
    BY <2>1
  <2>5. Has(u)'
    BY <2>1, <2>4 DEF Has
  <2>6. Whole!Arrive
    BY <2>1, <2>2, <2>3, <2>4, <2>5, CompletedSeen
  <2> QED
    BY <2>6 DEF Whole!Next
<1>7. CASE UnwrapNFT(x.user)
  <2>1. bns' = NoOne /\ UNCHANGED whVars
    BY <1>1, <1>7, UnwrapNFTEffect
  <2>2. bns # NFTBridge
    BY <2>1 DEF Crosses, bns
  <2>3. UNCHANGED <<Chain, UnderWay>> /\ UnderWay = {}
    BY <1>1, <2>1, <2>2, ChainStays DEF View, whVars
  <2> QED
    BY <2>3, GivenSeen
<1>8. CASE x.at = "complete" /\ CompleteWrapped(x.vaa)
  <2>1. PICK u \in Users :
          /\ vaas[x.vaa].recipient = u
          /\ x.vaa \in UnderWay /\ UnderWay' = UnderWay \ {x.vaa}
          /\ units'[u] = units[u] + 1
    BY <1>8, CompleteWrappedEffect
  <2>2. vaas[x.vaa].to = "solana"
    BY <1>8 DEF StepOK, OwnTo, Redeemable, Own
  <2>3. units[u] \in Nat
    BY UnitsTyped DEF S!Wallets
  <2>4. units'[u] > 0
    BY <2>1, <2>3
  <2>5. Has(u)'
    BY <2>4 DEF Has
  <2>6. bns' = NFTBridge /\ UnderWay' = {}
    BY <2>1, <2>4 DEF View
  <2>7. Chain' = "solana"
    BY <2>6 DEF View
  <2>8. Whole!Arrive
    BY <2>1, <2>2, <2>5, <2>7, CompletedSeen
  <2> QED
    BY <2>8 DEF Whole!Next
<1>9. CASE WrapDomain(x.user)
  <2>1. /\ units[x.user] > 0 /\ (name' = x.user \/ name # NoOne)
        /\ UNCHANGED <<ethVars, whVars>>
    BY <1>1, <1>9, WrapDomainEffect DEF Moved
  <2>2. name' = x.user
    BY <1>1, <2>1 DEF View
  <2>3. UNCHANGED <<Chain, UnderWay>>
    BY <2>1, ChainStays DEF ethVars, whVars, bns
  <2> QED
    BY <1>1, <1>2, <2>1, <2>2, <2>3 DEF Has
<1>10. CASE CreateNft(x.user)
  <2>1. name = x.user /\ nft' = x.user /\ UNCHANGED <<ethVars, whVars>>
    BY <1>1, <1>10, CreateNftEffect
  <2>2. UNCHANGED <<Chain, UnderWay>>
    BY <2>1, ChainStays DEF ethVars, whVars, bns
  <2> QED
    BY <1>1, <1>2, <2>1, <2>2 DEF Has
<1>11. CASE RedeemNft(x.user)
  <2>1. nft = x.user /\ units'[x.user] = units[x.user] + 1 /\ UNCHANGED <<ethVars, whVars>>
    BY <1>1, <1>11, RedeemNftEffect DEF Moved
  <2>2. units'[x.user] > 0
    BY <1>1, <2>1, UnitsTyped DEF S!Wallets
  <2>3. UNCHANGED <<Chain, UnderWay>>
    BY <2>1, ChainStays DEF ethVars, whVars, bns
  <2> QED
    BY <1>1, <1>2, <2>1, <2>2, <2>3 DEF Has
<1>12. CASE TransferWrapped(x.user)
  <2>1. units[x.user] > 0 /\ Publish("ethereum", x.user)
    BY <1>1, <1>12, TransferWrappedEffect
  <2>2. UnderWay = {} /\ Chain = "solana"
    BY <1>1, <2>1 DEF View
  <2>3. Whole!Depart
    BY <1>1, <2>1, <2>2, SentSeen DEF Has
  <2> QED
    BY <2>3 DEF Whole!Next
<1> QED
  BY <1>3, <1>4, <1>5, <1>6, <1>7, <1>8, <1>9, <1>10, <1>11, <1>12 DEF Lands

LEMMA StepSeen ==
    ASSUME Good, Good', View, View', ChainMoves, StepInv, ~Crosses
    PROVE  [Whole!Next]_Seen
<1>1. CASE \E x \in Step : x \in InPlay /\ Lands(x)
  BY <1>1, LandsSeen DEF StepInv
<1>2. ASSUME NEW u \in Users, NEW v \in Users, GiveOnSolana(u, v)
      PROVE  Whole!Next
  <2>1. (nft = u \/ units[u] > 0) /\ UNCHANGED <<ethVars, whVars>>
    BY <1>2, GiveOnSolanaEffect DEF Good, Moved
  <2>2. UNCHANGED <<Chain, UnderWay>>
    BY <2>1, ChainStays DEF ethVars, whVars, bns
  <2>3. UnderWay = {}
    BY <2>1 DEF View
  <2> QED
    BY <2>2, <2>3, GivenSeen
<1>3. ASSUME NEW u \in Users, NEW v \in Users, NEW t \in {ENS, BNSToken}, GiveOnEth(u, v, t)
      PROVE  Whole!Next
  <2>1. /\ t = ENS => ens = u /\ bns' = bns
        /\ t = BNSToken => bns = u /\ bns' = v
        /\ UNCHANGED whVars
    BY <1>3, GiveOnEthEffect DEF Good
  <2>2. bns # NFTBridge /\ bns' # NFTBridge
    BY <2>1, BridgeAssumption DEF View
  <2>3. UNCHANGED <<Chain, UnderWay>> /\ UnderWay = {}
    BY <2>1, <2>2, ChainStays DEF View, whVars
  <2> QED
    BY <2>3, GivenSeen
<1>4. CASE UNCHANGED chainVars
  <2>1. UNCHANGED <<Chain, UnderWay, Holders>>
    BY <1>4 DEF Chain, UnderWay, Holders, S!Bearers, chainVars, ethVars, solVars, whVars
  <2> QED
    BY <2>1 DEF Seen, Holder
<1> QED
  BY <1>1, <1>2, <1>3, <1>4 DEF ChainMoves

----------------------------------------------------------------------------
(* The refinement *)

\* As long as nothing crosses, the bridge behaves like the one domain of BridgedDomain:
\* whatever pages and failures do, it is on one chain or on its way there, has one
\* holder, and does not change hands on the way.
THEOREM OneDomainWithoutCrossing == Spec /\ [][~Crosses]_vars => OneDomain
<1>1. Init => Whole!Init
  <2> SUFFICES ASSUME Init PROVE Whole!Init
    OBVIOUS
  <2>1. Good
    BY InitCorrect DEF Good, TypeOK, ChainTyped, BridgeInv, ChainInv
  <2>2. bns # NFTBridge
    BY <2>1, InitCorrect DEF BridgeInv, FirstInv, Init
  <2> QED
    BY <2>1, <2>2, GoodView DEF View, Whole!Init
<1>2. TypeOK /\ BridgeInv /\ Backed => Good
  BY BackedAgrees DEF Good, TypeOK, ChainTyped, BridgeInv, ChainInv
<1>3. /\ TypeOK /\ BridgeInv /\ Good /\ Good' /\ View /\ View'
      /\ [Next]_vars /\ [~Crosses]_vars
      => [Whole!Next]_Whole!vars
  <2> SUFFICES ASSUME TypeOK, BridgeInv, Good, Good', View, View', [Next]_vars, [~Crosses]_vars
               PROVE  [Whole!Next]_Seen
    BY DEF Whole!vars, Seen
  <2>1. UNCHANGED vars => ~Crosses
    BY BridgeAssumption DEF vars, chainVars, ethVars, Crosses
  <2>2. ~Crosses
    BY <2>1
  <2> QED
    BY <2>2, NextMoves, StepSeen DEF BridgeInv
<1> QED
  BY <1>1, <1>2, <1>3, GoodView, BridgeCorrect, BackedWithoutCrossing, PTL
     DEF Spec, OneDomain, Whole!Spec

\* With one page, and none left behind, it always does.
THEOREM OneDomainOnePage ==
    ASSUME OnePage
    PROVE  Spec => OneDomain
  BY OneDomainWithoutCrossing, OnePageNeverCrosses, PTL

\* Nor is there anything else to see of at most two transfers, on any number of pages.
THEOREM OneDomainTwoTransfers ==
    ASSUME MaxVaas <= 2
    PROVE  Spec => OneDomain
  BY OneDomainWithoutCrossing, TwoTransfersNeverCross, PTL

----------------------------------------------------------------------------
(* The contract, as a part of the bridge *)

\* The contract with the bridge's users as its callers, none of which has code, and
\* what is proved of it.
Contract == INSTANCE BNS_proofs WITH
       Users <- Users \cup {NFTBridge}, Contracts <- {},
       Tokens <- {ENS, BNSToken}, CallTokens <- {ENS},
       Operators <- {BNSContract, NFTBridge},
       TokenIds <- {Domain}, Keys <- {Domain}, Key160 <- [id \in {Domain} |-> id],
       MaxDepth <- 0

\* It meets the assumptions of that module.
LEMMA ContractAssumptions ==
    /\ Contract!AccountsAssumption /\ Contract!TokensAssumption
    /\ Contract!KeysAssumption /\ Contract!DepthAssumption
  BY BridgeAssumption
     DEF Contract!AccountsAssumption, Contract!TokensAssumption, Contract!KeysAssumption,
         Contract!DepthAssumption, Contract!Accounts

LEMMA ContractSame ==
    /\ E!Init <=> Contract!Init
    /\ \A u, t, to : E!Approve(u, t, Domain, to) <=> Contract!Approve(u, t, Domain, to)
    /\ \A u, t, to : E!TransferFrom(u, t, Domain, to) <=> Contract!TransferFrom(u, t, Domain, to)
    /\ \A u, t : E!wrapNFT(u, t, Domain) <=> Contract!wrapNFT(u, t, Domain)
    /\ \A u, t : E!unwrapNFT(u, t, Domain) <=> Contract!unwrapNFT(u, t, Domain)
<1>1. E!Init <=> Contract!Init
  BY DEF E!Init, Contract!Init
<1>2. \A u, t, to : E!Approve(u, t, Domain, to) <=> Contract!Approve(u, t, Domain, to)
  BY DEF E!Approve, Contract!Approve, E!Running, Contract!Running
<1>3. \A u, t, to : E!TransferFrom(u, t, Domain, to) <=> Contract!TransferFrom(u, t, Domain, to)
  BY DEF E!TransferFrom, Contract!TransferFrom, E!Running, Contract!Running,
         E!Transferred, Contract!Transferred, E!Cleared, Contract!Cleared
<1>4. \A u, t : E!wrapNFT(u, t, Domain) <=> Contract!wrapNFT(u, t, Domain)
  BY DEF E!wrapNFT, Contract!wrapNFT, E!Running, Contract!Running,
         E!CanDeposit, Contract!CanDeposit, E!Minted, Contract!Minted,
         E!Transferred, Contract!Transferred, E!Cleared, Contract!Cleared
<1>5. \A u, t : E!unwrapNFT(u, t, Domain) <=> Contract!unwrapNFT(u, t, Domain)
  BY DEF E!unwrapNFT, Contract!unwrapNFT, E!CanRelease, Contract!CanRelease,
         E!Released, Contract!Released,
         E!Transferred, Contract!Transferred, E!Cleared, Contract!Cleared
<1> QED
  BY <1>1, <1>2, <1>3, <1>4, <1>5

\* What lands on Ethereum is a transaction of the contract's specification, and what
\* lands on Solana leaves the contract alone.
LEMMA LandsOnContract ==
    ASSUME ChainTyped, NEW x \in Step, Lands(x)
    PROVE  Contract!Next \/ UNCHANGED ethVars
<1>1. x.user \in Users /\ Users \subseteq Contract!Accounts /\ NFTBridge \in Contract!Accounts
  BY DEF Step, Contract!Accounts
<1>2. CASE ApproveENS(x.user) \/ ApproveBNS(x.user)
  <2>1. \E t \in {ENS, BNSToken}, to \in {BNSContract, NFTBridge} : Contract!Approve(x.user, t, Domain, to)
    BY <1>2, ContractSame DEF ApproveENS, ApproveBNS
  <2> QED
    BY <1>1, <2>1 DEF Contract!Next
<1>3. CASE WrapNFT(x.user)
  <2>1. Contract!wrapNFT(x.user, ENS, Domain)
    BY <1>3, ContractSame DEF WrapNFT
  <2> QED
    BY <1>1, <2>1 DEF Contract!Next
<1>4. CASE TransferNFT(x.user)
  <2>1. Contract!TransferFrom(NFTBridge, BNSToken, Domain, NFTBridge)
    BY <1>4, ContractSame DEF TransferNFT
  <2> QED
    BY <1>1, <2>1 DEF Contract!Next
<1>5. CASE CompleteTransfer(x.vaa)
  <2>1. vaas[x.vaa].recipient \in Users
    BY <1>5, CompleteTransferEffect
  <2>2. Contract!TransferFrom(NFTBridge, BNSToken, Domain, vaas[x.vaa].recipient)
    BY <1>5, ContractSame DEF CompleteTransfer
  <2> QED
    BY <1>1, <2>1, <2>2 DEF Contract!Next
<1>6. CASE UnwrapNFT(x.user)
  <2>1. Contract!unwrapNFT(x.user, ENS, Domain)
    BY <1>6, ContractSame DEF UnwrapNFT
  <2> QED
    BY <1>1, <2>1 DEF Contract!Next
<1>7. CASE \/ CompleteWrapped(x.vaa) \/ WrapDomain(x.user) \/ CreateNft(x.user)
           \/ RedeemNft(x.user) \/ TransferWrapped(x.user)
  BY <1>7 DEF CompleteWrapped, WrapDomain, CreateNft, RedeemNft, TransferWrapped
<1> QED
  BY <1>2, <1>3, <1>4, <1>5, <1>6, <1>7 DEF Lands

\* The whole bridge, with its pages, late transactions and crossings, does nothing on
\* Ethereum that the contract's own specification does not allow.
THEOREM BridgeKeepsContract == Spec => Contract!Spec
<1>1. Init => Contract!Init
  BY ContractSame DEF Init
<1>2. TypeOK /\ [Next]_vars => [Contract!Next]_Contract!vars
  <2> SUFFICES ASSUME TypeOK, [Next]_vars PROVE Contract!Next \/ UNCHANGED ethVars
    BY DEF Contract!vars, ethVars
  <2>1. ChainTyped /\ ChainMoves
    BY NextMoves DEF TypeOK, ChainTyped
  <2>2. CASE \E x \in Step : x \in InPlay /\ Lands(x)
    BY <2>1, <2>2, LandsOnContract
  <2>3. CASE \E u, v \in Users : GiveOnSolana(u, v)
    BY <2>3 DEF GiveOnSolana
  <2>4. ASSUME NEW u \in Users, NEW v \in Users, NEW t \in {ENS, BNSToken}, GiveOnEth(u, v, t)
        PROVE  Contract!Next
    <3>1. Contract!TransferFrom(u, t, Domain, v) /\ v \in Contract!Accounts
      BY <2>4, ContractSame DEF GiveOnEth, Contract!Accounts
    <3> QED
      BY <3>1 DEF Contract!Next
  <2>5. CASE UNCHANGED chainVars
    BY <2>5 DEF chainVars
  <2> QED
    BY <2>1, <2>2, <2>3, <2>4, <2>5 DEF ChainMoves
<1> QED
  BY <1>1, <1>2, TypeCorrect, PTL DEF Spec, Contract!Spec

\* So a BNS token always stands for an ENS token that the contract has and that no one
\* is approved to take, also after a crossing.
THEOREM CustodyInBridge == Spec => []Contract!Custody
  BY ContractAssumptions, BridgeKeepsContract, Contract!CustodyAlways, PTL

\* The contract's mapping tells whether the domain is wrapped.
THEOREM WrappedInBridge == Spec => []Contract!WrappedMeansOneMinted
  BY ContractAssumptions, BridgeKeepsContract, Contract!WrappedMeansOneMintedAlways, PTL

\* And the ENS token leaves the contract only for a BNS token that is burned: what a
\* crossing releases it has paid for with the token that backed the domain on Solana.
THEOREM ReleaseBurnsInBridge == Spec => Contract!ReleaseBurns
  BY ContractAssumptions, BridgeKeepsContract, Contract!ReleaseBurnsAlways, PTL
=============================================================================
