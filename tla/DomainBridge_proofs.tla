------------------------ MODULE DomainBridge_proofs ------------------------
(***************************************************************************)
(* Proofs about the whole bridge, for any users, any number of pages, of   *)
(* transfers and of transactions that outlive their page. First what each  *)
(* transaction does to the chains, then what it keeps: of everything that  *)
(* may land, in any order, an unwrapping that Crosses a newer transfer is  *)
(* the only transaction that ends the agreement of the two chains. With    *)
(* one page, or with at most two transfers, there is none.                 *)
(***************************************************************************)
EXTENDS DomainBridge, TLAPS

ens == ownerOf[ENS][Domain]
bns == ownerOf[BNSToken][Domain]
name == nameOwner[Eth][Domain]
nft == ansNft[Eth][Domain]
units == amount[Domain]

\* On Ethereum: no call is pending, and the contract has the ENS token exactly
\* while there is a BNS token.
EthInv ==
    /\ calls = <<>>
    /\ wrapped[Domain] <=> bns # NoOne
    /\ IF bns = NoOne THEN ens \in Users ELSE ens = BNSContract
    /\ bns # BNSContract

\* On Solana: a token account that holds the bridged NFT exists.
AtaInv == \A w \in S!Wallets : units[w] > 0 => S!Ata(w, Domain) \in atas

\* On Solana: the vault has the bridged NFT exactly while there is a name, and the
\* name is its record's exactly while there is an ANS NFT.
SolInv ==
    /\ units[Vault] > 0 <=> name # NoOne
    /\ nft # NoOne <=> name = Record

\* The chains agree.
Agree == SolInv /\ Backed

\* There are more transfers under way and bridged NFTs than BNS tokens with the NFT
\* bridge: what a crossing leaves, for good.
Surplus ==
    IF bns = NFTBridge
      THEN \/ \E v, w \in UnderWay : v # w
           \/ UnderWay # {} /\ Bridged # {}
           \/ \E a, b \in Bridged : a # b
           \/ \E a \in Bridged : units[a] > 1
      ELSE UnderWay # {} \/ Bridged # {}

\* The types of what the chains hold.
ChainTyped ==
    /\ vaas \in Seq(Vaas) /\ Len(vaas) <= MaxVaas
    /\ claimed \subseteq DOMAIN vaas
    /\ E!TypeOK
    /\ S!TypeOK

\* What every step keeps, and what a crossing ends.
ChainInv == EthInv /\ AtaInv /\ (Agree \/ Surplus)

Keeps ==
    /\ EthInv' /\ AtaInv'
    /\ Agree /\ ~Crosses => Agree'
    /\ Agree /\ Crosses => Surplus'
    /\ Surplus => Surplus'

----------------------------------------------------------------------------
(* What each transaction does to the chains *)

\* A ledger in which one token has changed hands.
LEMMA MovedTyped ==
    ASSUME NEW o \in E!Ledgers, NEW t \in {ENS, BNSToken}, NEW to \in E!Accounts \cup {NoOne}
    PROVE  /\ [o EXCEPT ![t][Domain] = to] \in E!Ledgers
           /\ [o EXCEPT ![t][Domain] = to][t][Domain] = to
           /\ \A s \in {ENS, BNSToken} \ {t} : [o EXCEPT ![t][Domain] = to][s][Domain] = o[s][Domain]
  BY DEF E!Ledgers

\* A ledger in which the ENS token has changed hands and then the BNS token.
BothMoved(o, a, b) == [[o EXCEPT ![ENS][Domain] = a] EXCEPT ![BNSToken][Domain] = b]

LEMMA BothMovedTyped ==
    ASSUME NEW o \in E!Ledgers, NEW a \in E!Accounts \cup {NoOne}, NEW b \in E!Accounts \cup {NoOne}
    PROVE  /\ BothMoved(o, a, b) \in E!Ledgers
           /\ BothMoved(o, a, b)[ENS][Domain] = a
           /\ BothMoved(o, a, b)[BNSToken][Domain] = b
  BY BridgeAssumption DEF E!Ledgers, BothMoved

LEMMA Published ==
    ASSUME ChainTyped, NEW u \in Users, NEW to \in {"ethereum", "solana"}, Publish(to, u)
    PROVE  /\ vaas' \in Seq(Vaas) /\ Len(vaas') <= MaxVaas
           /\ claimed' \subseteq DOMAIN vaas'
           /\ Len(vaas) \in Nat /\ Len(vaas') = Len(vaas) + 1
           /\ Len(vaas) + 1 \notin DOMAIN vaas
           /\ vaas'[Len(vaas) + 1] = [to |-> to, recipient |-> u]
           /\ \A v \in DOMAIN vaas : v \in DOMAIN vaas' /\ vaas'[v] = vaas[v]
           /\ UnderWay' = UnderWay \cup {Len(vaas) + 1}
<1>1. vaas \in Seq(Vaas) /\ Len(vaas) \in Nat /\ DOMAIN vaas = 1..Len(vaas) /\ claimed \subseteq DOMAIN vaas
  BY DEF ChainTyped
<1>2. [to |-> to, recipient |-> u] \in Vaas
  BY DEF Vaas
<1>3. vaas' \in Seq(Vaas) /\ Len(vaas') = Len(vaas) + 1 /\ DOMAIN vaas' = 1..Len(vaas) + 1
  BY <1>1, <1>2 DEF Publish
<1>4. Len(vaas') <= MaxVaas
  BY <1>1, <1>3, BridgeAssumption DEF Publish
<1>5. /\ vaas'[Len(vaas) + 1] = [to |-> to, recipient |-> u]
      /\ \A v \in DOMAIN vaas : v \in DOMAIN vaas' /\ vaas'[v] = vaas[v]
  BY <1>1, <1>2, <1>3 DEF Publish
<1> QED
  BY <1>1, <1>3, <1>4, <1>5 DEF Publish, UnderWay

LEMMA Claimed ==
    ASSUME ChainTyped, NEW v, Claim(v)
    PROVE  /\ claimed' \subseteq DOMAIN vaas' /\ vaas' = vaas
           /\ v \in UnderWay /\ UnderWay' = UnderWay \ {v}
           /\ vaas[v].recipient \in Users
<1>1. v \in DOMAIN vaas /\ vaas[v] \in Vaas
  BY DEF ChainTyped, Claim
<1> QED
  BY <1>1 DEF ChainTyped, Claim, UnderWay, Vaas

LEMMA ApproveEffect ==
    ASSUME ChainTyped, NEW u \in Users, ApproveENS(u) \/ ApproveBNS(u)
    PROVE  ChainTyped' /\ UNCHANGED <<ownerOf, wrapped, calls, solVars, whVars>>
<1>1. UNCHANGED <<ownerOf, wrapped, calls, solVars, whVars>>
  BY DEF ApproveENS, ApproveBNS, E!Approve
<1>2. getApproved' \in E!Ledgers
  <2>1. getApproved \in E!Ledgers /\ {BNSContract, NFTBridge} \subseteq E!Accounts
    BY DEF ChainTyped, E!TypeOK, E!Accounts
  <2>2. PICK t \in {ENS, BNSToken}, to \in {BNSContract, NFTBridge} :
           getApproved' = [getApproved EXCEPT ![t][Domain] = to]
    BY DEF ApproveENS, ApproveBNS, E!Approve
  <2> QED
    BY <2>1, <2>2, MovedTyped
<1> QED
  BY <1>1, <1>2 DEF ChainTyped, E!TypeOK, S!TypeOK, solVars, whVars

\* A token that is transferred: what becomes of the two owners, and of the types.
LEMMA TransferFromEffect ==
    ASSUME ChainTyped, NEW w, NEW t \in {ENS, BNSToken}, NEW to \in E!Accounts,
           E!TransferFrom(w, t, Domain, to)
    PROVE  /\ E!TypeOK'
           /\ ownerOf'[t][Domain] = to
           /\ \A s \in {ENS, BNSToken} \ {t} : ownerOf'[s][Domain] = ownerOf[s][Domain]
           /\ UNCHANGED <<wrapped, calls>>
<1>1. ownerOf \in E!Ledgers /\ getApproved \in E!Ledgers
  BY DEF ChainTyped, E!TypeOK
<1>2. /\ ownerOf' = [ownerOf EXCEPT ![t][Domain] = to]
      /\ getApproved' = [getApproved EXCEPT ![t][Domain] = NoOne]
      /\ UNCHANGED <<wrapped, calls>>
  BY DEF E!TransferFrom, E!Transferred, E!Cleared
<1>3. getApproved' \in E!Ledgers
  BY <1>1, <1>2, MovedTyped
<1>4. /\ ownerOf' \in E!Ledgers
      /\ ownerOf'[t][Domain] = to
      /\ \A s \in {ENS, BNSToken} \ {t} : ownerOf'[s][Domain] = ownerOf[s][Domain]
  <2> DEFINE moved == [ownerOf EXCEPT ![t][Domain] = to]
  <2>1. /\ moved \in E!Ledgers
        /\ moved[t][Domain] = to
        /\ \A s \in {ENS, BNSToken} \ {t} : moved[s][Domain] = ownerOf[s][Domain]
    BY <1>1, MovedTyped
  <2>2. ownerOf' = moved
    BY <1>2
  <2> HIDE DEF moved
  <2> QED
    BY <2>1, <2>2
<1> QED
  BY <1>2, <1>3, <1>4 DEF ChainTyped, E!TypeOK

LEMMA WrapNFTEffect ==
    ASSUME ChainTyped, NEW u \in Users, WrapNFT(u)
    PROVE  /\ ChainTyped'
           /\ ens = u /\ bns = NoOne
           /\ ens' = BNSContract /\ bns' = u /\ wrapped'[Domain]
           /\ UNCHANGED <<calls, solVars, whVars>>
<1>1. ownerOf \in E!Ledgers /\ getApproved \in E!Ledgers /\ {u, BNSContract} \subseteq E!Accounts
  BY DEF ChainTyped, E!TypeOK, E!Accounts
<1>2. /\ ownerOf' = BothMoved(ownerOf, BNSContract, u)
      /\ getApproved' = [getApproved EXCEPT ![ENS][Domain] = NoOne]
      /\ wrapped' = [wrapped EXCEPT ![Domain] = TRUE]
      /\ ens = u /\ bns = NoOne
      /\ UNCHANGED <<calls, solVars, whVars>>
  BY DEF WrapNFT, E!wrapNFT, E!CanDeposit, E!Minted, E!Transferred, E!Cleared, ens, bns, BothMoved
<1>3. getApproved' \in E!Ledgers
  BY <1>1, <1>2, MovedTyped
<1>4. ownerOf' \in E!Ledgers /\ bns' = u /\ ens' = BNSContract
  BY <1>1, <1>2, BothMovedTyped DEF ens, bns
<1>5. wrapped' \in [{Domain} -> BOOLEAN] /\ wrapped'[Domain]
  BY <1>2 DEF ChainTyped, E!TypeOK
<1> QED
  BY <1>2, <1>3, <1>4, <1>5 DEF ChainTyped, E!TypeOK, S!TypeOK, solVars, whVars

LEMMA TransferNFTEffect ==
    ASSUME ChainTyped, NEW u \in Users, TransferNFT(u)
    PROVE  /\ ChainTyped'
           /\ bns = u /\ bns' = NFTBridge /\ ens' = ens
           /\ UNCHANGED <<wrapped, calls, solVars>>
           /\ Publish("solana", u)
<1>1. NFTBridge \in E!Accounts /\ bns = u
  BY DEF TransferNFT, E!Accounts, bns
<1>2. /\ E!TypeOK' /\ bns' = NFTBridge /\ ens' = ens
      /\ UNCHANGED <<wrapped, calls, solVars>>
  BY <1>1, TransferFromEffect, BridgeAssumption DEF TransferNFT, bns, ens
<1>3. /\ vaas' \in Seq(Vaas) /\ Len(vaas') <= MaxVaas
      /\ claimed' \subseteq DOMAIN vaas'
  BY Published DEF TransferNFT
<1> QED
  BY <1>1, <1>2, <1>3 DEF ChainTyped, S!TypeOK, solVars, TransferNFT

LEMMA CompleteTransferEffect ==
    ASSUME ChainTyped, NEW v, CompleteTransfer(v)
    PROVE  /\ ChainTyped'
           /\ v \in UnderWay /\ UnderWay' = UnderWay \ {v} /\ vaas' = vaas
           /\ vaas[v].recipient \in Users
           /\ bns = NFTBridge /\ bns' = vaas[v].recipient /\ ens' = ens
           /\ UNCHANGED <<wrapped, calls, solVars>>
<1>1. /\ claimed' \subseteq DOMAIN vaas' /\ vaas' = vaas
      /\ v \in UnderWay /\ UnderWay' = UnderWay \ {v}
      /\ vaas[v].recipient \in Users /\ bns = NFTBridge
  BY Claimed DEF CompleteTransfer, bns
<1>2. vaas[v].recipient \in E!Accounts
  BY <1>1 DEF E!Accounts
<1>3. /\ E!TypeOK' /\ bns' = vaas[v].recipient /\ ens' = ens
      /\ UNCHANGED <<wrapped, calls, solVars>>
  BY <1>2, TransferFromEffect, BridgeAssumption DEF CompleteTransfer, bns, ens
<1> QED
  BY <1>1, <1>3 DEF ChainTyped, S!TypeOK, solVars

LEMMA UnwrapNFTEffect ==
    ASSUME ChainTyped, NEW u \in Users, UnwrapNFT(u)
    PROVE  /\ ChainTyped'
           /\ ens = BNSContract /\ bns # NoOne
           /\ ens' = u /\ bns' = NoOne /\ ~wrapped'[Domain]
           /\ UNCHANGED <<calls, solVars, whVars>>
<1>1. ownerOf \in E!Ledgers /\ getApproved \in E!Ledgers /\ u \in E!Accounts
  BY DEF ChainTyped, E!TypeOK, E!Accounts
<1> DEFINE first == [ownerOf EXCEPT ![ENS][Domain] = u]
<1>2. /\ ownerOf' = BothMoved(ownerOf, u, NoOne)
      /\ getApproved' = BothMoved(getApproved, NoOne, NoOne)
      /\ wrapped' = [wrapped EXCEPT ![Domain] = FALSE]
      /\ ens = BNSContract /\ first[BNSToken][Domain] # NoOne
      /\ UNCHANGED <<calls, solVars, whVars>>
  BY DEF UnwrapNFT, E!unwrapNFT, E!CanRelease, E!Released, E!Transferred, E!Cleared, ens, BothMoved
<1>3. bns # NoOne
  BY <1>1, <1>2, MovedTyped, BridgeAssumption DEF bns
<1>4. getApproved' \in E!Ledgers
  BY <1>1, <1>2, BothMovedTyped
<1>5. ownerOf' \in E!Ledgers /\ bns' = NoOne /\ ens' = u
  BY <1>1, <1>2, BothMovedTyped DEF ens, bns
<1>6. wrapped' \in [{Domain} -> BOOLEAN] /\ ~wrapped'[Domain]
  BY <1>2 DEF ChainTyped, E!TypeOK
<1> QED
  BY <1>2, <1>3, <1>4, <1>5, <1>6 DEF ChainTyped, E!TypeOK, S!TypeOK, solVars, whVars

LEMMA GiveOnEthEffect ==
    ASSUME ChainTyped, NEW u \in Users, NEW v \in Users, NEW t \in {ENS, BNSToken},
           GiveOnEth(u, v, t)
    PROVE  /\ ChainTyped'
           /\ t = ENS => ens = u /\ ens' = v /\ bns' = bns
           /\ t = BNSToken => bns = u /\ bns' = v /\ ens' = ens
           /\ UNCHANGED <<wrapped, calls, solVars, whVars>>
<1>1. v \in E!Accounts
  BY DEF E!Accounts
<1>2. /\ E!TypeOK' /\ ownerOf[t][Domain] = u /\ ownerOf'[t][Domain] = v
      /\ \A s \in {ENS, BNSToken} \ {t} : ownerOf'[s][Domain] = ownerOf[s][Domain]
      /\ UNCHANGED <<wrapped, calls, solVars, whVars>>
  BY <1>1, TransferFromEffect DEF GiveOnEth
<1> QED
  BY <1>2, BridgeAssumption DEF ChainTyped, S!TypeOK, solVars, whVars, ens, bns

\* The bridged NFT moves from one account to another.
LEMMA MoveOneEffect ==
    ASSUME ChainTyped, NEW a \in S!Wallets, NEW b \in S!Wallets, a # b,
           S!MoveOne(S!Ata(a, Domain), S!Ata(b, Domain))
    PROVE  /\ amount' \in [{Domain} -> [S!Wallets -> Nat]]
           /\ units[a] > 0 /\ units'[a] = units[a] - 1 /\ units'[b] = units[b] + 1
           /\ \A w \in S!Wallets \ {a, b} : units'[w] = units[w]
<1>1. amount \in [{Domain} -> [S!Wallets -> Nat]] /\ units \in [S!Wallets -> Nat]
  BY DEF ChainTyped, S!TypeOK, units
<1>2. /\ units[a] > 0
      /\ amount' = [amount EXCEPT ![Domain] =
                      [w \in S!Wallets |->
                         units[w] - (IF w = a THEN 1 ELSE 0) + (IF w = b THEN 1 ELSE 0)]]
  BY DEF S!MoveOne, S!Ata, units
<1>3. \A w \in S!Wallets : units'[w] = units[w] - (IF w = a THEN 1 ELSE 0) + (IF w = b THEN 1 ELSE 0)
  BY <1>1, <1>2 DEF units
<1>4. [w \in S!Wallets |-> units[w] - (IF w = a THEN 1 ELSE 0) + (IF w = b THEN 1 ELSE 0)] \in [S!Wallets -> Nat]
  BY <1>1, <1>2
<1>5. amount' \in [{Domain} -> [S!Wallets -> Nat]]
  BY <1>1, <1>2, <1>4
<1> QED
  BY <1>1, <1>2, <1>3, <1>5

\* The bridged NFT has moved from a's account to b's, which exists by then.
Moved(a, b) ==
    /\ units[a] > 0 /\ units'[a] = units[a] - 1 /\ units'[b] = units[b] + 1
    /\ \A w \in S!Wallets \ {a, b} : units'[w] = units[w]
    /\ atas' = atas \cup {S!Ata(b, Domain)}

LEMMA CompleteWrappedEffect ==
    ASSUME ChainTyped, NEW v, CompleteWrapped(v)
    PROVE  /\ ChainTyped'
           /\ v \in UnderWay /\ UnderWay' = UnderWay \ {v} /\ vaas' = vaas
           /\ vaas[v].recipient \in Users
           /\ units'[vaas[v].recipient] = units[vaas[v].recipient] + 1
           /\ \A w \in S!Wallets \ {vaas[v].recipient} : units'[w] = units[w]
           /\ atas' = atas \cup {S!Ata(vaas[v].recipient, Domain)}
           /\ UNCHANGED <<nameOwner, ansNft, ethVars>>
<1> DEFINE u == vaas[v].recipient
<1>1. /\ claimed' \subseteq DOMAIN vaas' /\ vaas' = vaas
      /\ v \in UnderWay /\ UnderWay' = UnderWay \ {v}
      /\ u \in Users
  BY Claimed DEF CompleteWrapped
<1>2. amount \in [{Domain} -> [S!Wallets -> Nat]] /\ u \in S!Wallets
  BY <1>1 DEF ChainTyped, S!TypeOK, S!Wallets
<1> HIDE DEF u
<1>3. /\ amount' = [amount EXCEPT ![Domain][u] = @ + 1]
      /\ atas' = atas \cup {S!Ata(u, Domain)}
      /\ UNCHANGED <<nameOwner, ansNft, ethVars>>
  BY DEF CompleteWrapped, S!CompleteWrapped, u
<1>4. /\ amount' \in [{Domain} -> [S!Wallets -> Nat]] /\ units'[u] = units[u] + 1
      /\ \A w \in S!Wallets \ {u} : units'[w] = units[w]
  BY <1>2, <1>3 DEF units
<1>5. atas' \subseteq S!Atas
  BY <1>2, <1>3 DEF ChainTyped, S!TypeOK, S!Atas, S!Ata
<1>6. ChainTyped'
  BY <1>1, <1>3, <1>4, <1>5 DEF ChainTyped, S!TypeOK, E!TypeOK, ethVars
<1> QED
  BY <1>1, <1>3, <1>4, <1>6 DEF u

LEMMA TransferWrappedEffect ==
    ASSUME ChainTyped, NEW u \in Users, TransferWrapped(u)
    PROVE  /\ ChainTyped'
           /\ units[u] > 0 /\ units'[u] = units[u] - 1
           /\ \A w \in S!Wallets \ {u} : units'[w] = units[w]
           /\ UNCHANGED <<atas, nameOwner, ansNft, ethVars>>
           /\ Publish("ethereum", u)
<1>1. amount \in [{Domain} -> [S!Wallets -> Nat]] /\ u \in S!Wallets
  BY DEF ChainTyped, S!TypeOK, S!Wallets
<1>2. /\ units[u] > 0
      /\ amount' = [amount EXCEPT ![Domain][u] = @ - 1]
      /\ UNCHANGED <<atas, nameOwner, ansNft, ethVars>>
  BY DEF TransferWrapped, S!TransferWrapped, units
<1>3. /\ amount' \in [{Domain} -> [S!Wallets -> Nat]]
      /\ units'[u] = units[u] - 1 /\ \A w \in S!Wallets \ {u} : units'[w] = units[w]
  BY <1>1, <1>2 DEF units
<1>4. /\ vaas' \in Seq(Vaas) /\ Len(vaas') <= MaxVaas
      /\ claimed' \subseteq DOMAIN vaas'
  BY Published DEF TransferWrapped
<1>5. ChainTyped'
  BY <1>2, <1>3, <1>4 DEF ChainTyped, S!TypeOK, E!TypeOK, ethVars
<1> QED
  BY <1>2, <1>3, <1>5 DEF TransferWrapped

LEMMA WrapDomainEffect ==
    ASSUME ChainTyped, NEW u \in Users, WrapDomain(u)
    PROVE  /\ ChainTyped'
           /\ Moved(u, Vault)
           /\ \/ name' = u /\ nft' = NoOne
              \/ name # NoOne /\ name' = name /\ nft' \in {nft, NoOne}
           /\ UNCHANGED <<ethVars, whVars>>
<1>1. u \in S!Wallets /\ Vault \in S!Wallets /\ u # Vault
  BY BridgeAssumption DEF S!Wallets
<1> DEFINE nothing == [ansNft EXCEPT ![Eth][Domain] = NoOne]
<1>2. /\ S!MoveOne(S!Ata(u, Domain), S!Ata(Vault, Domain))
      /\ \/ nameOwner' = [nameOwner EXCEPT ![Eth][Domain] = u] /\ ansNft' = nothing
         \/ name # NoOne /\ nameOwner' = nameOwner /\ ansNft' \in {ansNft, nothing}
      /\ atas' = atas \cup {S!Ata(Vault, Domain)}
      /\ UNCHANGED <<ethVars, whVars>>
  BY DEF WrapDomain, S!handle_domain_wrapping, S!BuyOrExtendRenewable, S!CheckedOrCreated, name
<1>3. Moved(u, Vault) /\ amount' \in [{Domain} -> [S!Wallets -> Nat]]
  BY <1>1, <1>2, MoveOneEffect DEF Moved
<1>4. /\ nameOwner' \in [{Eth} -> [{Domain} -> Users \cup {NoOne, Record}]]
      /\ ansNft' \in [{Eth} -> [{Domain} -> Users \cup {NoOne}]]
      /\ \/ name' = u /\ nft' = NoOne
         \/ name # NoOne /\ name' = name /\ nft' \in {nft, NoOne}
  <2>1. /\ nameOwner \in [{Eth} -> [{Domain} -> Users \cup {NoOne, Record}]]
        /\ ansNft \in [{Eth} -> [{Domain} -> Users \cup {NoOne}]]
    BY DEF ChainTyped, S!TypeOK
  <2>2. /\ nothing \in [{Eth} -> [{Domain} -> Users \cup {NoOne}]]
        /\ nothing[Eth][Domain] = NoOne
    BY <2>1
  <2>3. /\ [nameOwner EXCEPT ![Eth][Domain] = u] \in [{Eth} -> [{Domain} -> Users \cup {NoOne, Record}]]
        /\ [nameOwner EXCEPT ![Eth][Domain] = u][Eth][Domain] = u
    BY <2>1
  <2> HIDE DEF nothing
  <2> QED
    BY <1>2, <2>1, <2>2, <2>3 DEF name, nft
<1>5. atas' \subseteq S!Atas
  BY <1>1, <1>2 DEF ChainTyped, S!TypeOK, S!Atas, S!Ata
<1>6. ChainTyped'
  BY <1>2, <1>3, <1>4, <1>5 DEF ChainTyped, S!TypeOK, E!TypeOK, ethVars, whVars
<1> QED
  BY <1>2, <1>3, <1>4, <1>6

LEMMA CreateNftEffect ==
    ASSUME ChainTyped, NEW u \in Users, CreateNft(u)
    PROVE  /\ ChainTyped'
           /\ name = u /\ name' = Record /\ nft' = u
           /\ UNCHANGED <<atas, amount, ethVars, whVars>>
<1>1. /\ name = u
      /\ nameOwner' = [nameOwner EXCEPT ![Eth][Domain] = Record]
      /\ ansNft' = [ansNft EXCEPT ![Eth][Domain] = u]
      /\ UNCHANGED <<atas, amount, ethVars, whVars>>
  BY DEF CreateNft, S!CreateAnsNft, name
<1>2. /\ nameOwner' \in [{Eth} -> [{Domain} -> Users \cup {NoOne, Record}]] /\ name' = Record
      /\ ansNft' \in [{Eth} -> [{Domain} -> Users \cup {NoOne}]] /\ nft' = u
  BY <1>1 DEF ChainTyped, S!TypeOK, name, nft
<1> QED
  BY <1>1, <1>2 DEF ChainTyped, S!TypeOK, E!TypeOK, ethVars, whVars

LEMMA RedeemNftEffect ==
    ASSUME ChainTyped, NEW u \in Users, RedeemNft(u)
    PROVE  /\ ChainTyped'
           /\ Moved(Vault, u)
           /\ nft = u /\ name' = NoOne /\ nft' = NoOne
           /\ UNCHANGED <<ethVars, whVars>>
<1>1. u \in S!Wallets /\ Vault \in S!Wallets /\ u # Vault
  BY BridgeAssumption DEF S!Wallets
<1>2. /\ S!MoveOne(S!Ata(Vault, Domain), S!Ata(u, Domain))
      /\ nft = u
      /\ ansNft' = [ansNft EXCEPT ![Eth][Domain] = NoOne]
      /\ nameOwner' = [nameOwner EXCEPT ![Eth][Domain] = NoOne]
      /\ atas' = atas \cup {S!Ata(u, Domain)}
      /\ UNCHANGED <<ethVars, whVars>>
  BY DEF RedeemNft, S!CheckedOrCreated, nft
<1>3. Moved(Vault, u) /\ amount' \in [{Domain} -> [S!Wallets -> Nat]]
  BY <1>1, <1>2, MoveOneEffect DEF Moved
<1>4. /\ nameOwner' \in [{Eth} -> [{Domain} -> Users \cup {NoOne, Record}]] /\ name' = NoOne
      /\ ansNft' \in [{Eth} -> [{Domain} -> Users \cup {NoOne}]] /\ nft' = NoOne
  BY <1>2 DEF ChainTyped, S!TypeOK, name, nft
<1>5. atas' \subseteq S!Atas
  BY <1>1, <1>2 DEF ChainTyped, S!TypeOK, S!Atas, S!Ata
<1>6. ChainTyped'
  BY <1>2, <1>3, <1>4, <1>5 DEF ChainTyped, S!TypeOK, E!TypeOK, ethVars, whVars
<1> QED
  BY <1>2, <1>3, <1>4, <1>6

\* The domain changes hands on Solana: as the ANS NFT, or as the bridged NFT.
LEMMA GiveOnSolanaEffect ==
    ASSUME ChainTyped, NEW u \in Users, NEW v \in Users, GiveOnSolana(u, v)
    PROVE  /\ ChainTyped' /\ UNCHANGED <<nameOwner, ethVars, whVars>>
           /\ \/ nft = u /\ nft' = v /\ UNCHANGED <<atas, amount>>
              \/ u # v /\ Moved(u, v) /\ UNCHANGED ansNft
<1>1. u \in S!Wallets /\ v \in S!Wallets
  BY DEF S!Wallets
<1>2. UNCHANGED <<nameOwner, ethVars, whVars>>
  BY DEF GiveOnSolana, S!TransferAnsNft, S!SplTransfer
<1>3. CASE S!TransferAnsNft(u, v, Eth, Domain)
  <2>1. nft = u /\ ansNft' = [ansNft EXCEPT ![Eth][Domain] = v] /\ UNCHANGED <<atas, amount>>
    BY <1>3 DEF S!TransferAnsNft, nft
  <2>2. ansNft' \in [{Eth} -> [{Domain} -> Users \cup {NoOne}]] /\ nft' = v
    BY <2>1 DEF ChainTyped, S!TypeOK, nft
  <2> QED
    BY <1>2, <2>1, <2>2 DEF ChainTyped, S!TypeOK, E!TypeOK, ethVars, whVars
<1>4. CASE S!SplTransfer(u, v, Domain)
  <2>1. /\ u # v /\ S!MoveOne(S!Ata(u, Domain), S!Ata(v, Domain))
        /\ atas' = atas \cup {S!Ata(v, Domain)} /\ UNCHANGED ansNft
    BY <1>4 DEF S!SplTransfer
  <2>2. Moved(u, v) /\ amount' \in [{Domain} -> [S!Wallets -> Nat]]
    BY <1>1, <2>1, MoveOneEffect DEF Moved
  <2>3. atas' \subseteq S!Atas
    BY <1>1, <2>1 DEF ChainTyped, S!TypeOK, S!Atas, S!Ata
  <2> QED
    BY <1>2, <2>1, <2>2, <2>3 DEF ChainTyped, S!TypeOK, E!TypeOK, ethVars, whVars
<1> QED
  BY <1>3, <1>4 DEF GiveOnSolana

----------------------------------------------------------------------------
(* What each transaction keeps *)

\* Nothing that the invariants are about has changed.
LEMMA SameKeeps ==
    ASSUME EthInv, AtaInv, UNCHANGED <<ownerOf, wrapped, calls, solVars, whVars>>
    PROVE  Keeps
<1>1. /\ UNCHANGED <<ens, bns, wrapped, calls, atas, amount, name, nft, units, vaas, claimed>>
      /\ UNCHANGED <<Bridged, UnderWay, ownerOf, nameOwner>>
  BY DEF ens, bns, name, nft, units, Bridged, UnderWay, solVars, whVars
<1>2. EthInv' /\ AtaInv' /\ (Agree => Agree') /\ (Surplus => Surplus')
  BY <1>1 DEF EthInv, AtaInv, Agree, SolInv, Backed, Surplus
<1>3. Crosses => FALSE
  BY <1>1, BridgeAssumption DEF Crosses, bns
<1> QED
  BY <1>2, <1>3 DEF Keeps

\* Where only the NFT's two views of the token accounts and of the transfers matter.
LEMMA SurplusNotBacked == ASSUME Surplus, Backed PROVE FALSE
  BY DEF Surplus, Backed, bns, units

LEMMA WrapNFTKeeps ==
    ASSUME ChainTyped, EthInv, AtaInv, NEW u \in Users, WrapNFT(u)
    PROVE  Keeps
<1>1. /\ ens = u /\ bns = NoOne
      /\ ens' = BNSContract /\ bns' = u /\ wrapped'[Domain]
      /\ UNCHANGED <<calls, solVars, whVars>>
  BY WrapNFTEffect
<1>2. u \notin {NFTBridge, NoOne, BNSContract} /\ NFTBridge # NoOne
  BY BridgeAssumption
<1>3. UNCHANGED <<atas, units, name, nft, Bridged, UnderWay>>
  BY <1>1 DEF units, name, nft, Bridged, UnderWay, solVars, whVars
<1>4. EthInv' /\ AtaInv' /\ ~Crosses
  BY <1>1, <1>2, <1>3 DEF EthInv, AtaInv, Crosses, bns
<1>5. Agree => Agree'
  BY <1>1, <1>2, <1>3 DEF Agree, SolInv, Backed, bns
<1>6. Surplus => Surplus'
  BY <1>1, <1>2, <1>3 DEF Surplus
<1> QED
  BY <1>4, <1>5, <1>6 DEF Keeps

LEMMA TransferNFTKeeps ==
    ASSUME ChainTyped, EthInv, AtaInv, NEW u \in Users, TransferNFT(u)
    PROVE  Keeps
<1>1. /\ bns = u /\ bns' = NFTBridge /\ ens' = ens
      /\ UNCHANGED <<wrapped, calls, solVars>>
      /\ Publish("solana", u)
  BY TransferNFTEffect
<1>2. /\ UnderWay' = UnderWay \cup {Len(vaas) + 1} /\ Len(vaas) + 1 \notin UnderWay
  BY <1>1, Published DEF UnderWay
<1>3. u \notin {NFTBridge, NoOne, BNSContract} /\ NFTBridge \notin {NoOne, BNSContract}
  BY BridgeAssumption
<1>4. UNCHANGED <<atas, units, name, nft, Bridged>>
  BY <1>1 DEF units, name, nft, Bridged, solVars
<1>5. EthInv' /\ AtaInv' /\ ~Crosses
  BY <1>1, <1>3, <1>4 DEF EthInv, AtaInv, Crosses, bns
<1>6. Agree => Agree'
  BY <1>1, <1>2, <1>3, <1>4 DEF EthInv, Agree, SolInv, Backed, bns, ens
<1>7. Surplus => Surplus'
  BY <1>1, <1>2, <1>3, <1>4 DEF Surplus
<1> QED
  BY <1>5, <1>6, <1>7 DEF Keeps

LEMMA CompleteTransferKeeps ==
    ASSUME ChainTyped, EthInv, AtaInv, NEW v, CompleteTransfer(v)
    PROVE  Keeps
<1>1. /\ v \in UnderWay /\ UnderWay' = UnderWay \ {v}
      /\ vaas[v].recipient \in Users
      /\ bns = NFTBridge /\ bns' = vaas[v].recipient /\ ens' = ens
      /\ UNCHANGED <<wrapped, calls, solVars>>
  BY CompleteTransferEffect
<1>2. bns' \notin {NFTBridge, NoOne, BNSContract} /\ NFTBridge # NoOne
  BY <1>1, BridgeAssumption
<1>3. UNCHANGED <<atas, units, name, nft, Bridged>>
  BY <1>1 DEF units, name, nft, Bridged, solVars
<1>4. EthInv' /\ AtaInv' /\ ~Crosses
  BY <1>1, <1>2, <1>3 DEF EthInv, AtaInv, Crosses, bns
<1>5. Agree => Agree'
  BY <1>1, <1>2, <1>3 DEF Agree, SolInv, Backed, bns
<1>6. Surplus => Surplus'
  BY <1>1, <1>2, <1>3 DEF Surplus
<1> QED
  BY <1>4, <1>5, <1>6 DEF Keeps

\* Unwrapping: what it burns may be the token that backs the domain on Solana.
LEMMA UnwrapNFTKeeps ==
    ASSUME ChainTyped, EthInv, AtaInv, NEW u \in Users, UnwrapNFT(u)
    PROVE  Keeps
<1>1. /\ ens = BNSContract /\ bns # NoOne
      /\ ens' = u /\ bns' = NoOne /\ ~wrapped'[Domain]
      /\ UNCHANGED <<calls, solVars, whVars>>
  BY UnwrapNFTEffect
<1>2. NFTBridge # NoOne /\ BNSContract # NoOne
  BY BridgeAssumption
<1>3. UNCHANGED <<atas, units, name, nft, Bridged, UnderWay>>
  BY <1>1 DEF units, name, nft, Bridged, UnderWay, solVars, whVars
<1>4. EthInv' /\ AtaInv' /\ (Crosses <=> bns = NFTBridge)
  BY <1>1, <1>2, <1>3 DEF EthInv, AtaInv, Crosses, bns
<1>5. Agree /\ bns # NFTBridge => Agree'
  BY <1>1, <1>2, <1>3 DEF Agree, SolInv, Backed, bns
<1>6. Agree /\ bns = NFTBridge => Surplus'
  BY <1>1, <1>2, <1>3 DEF Agree, Backed, Surplus, bns
<1>7. Surplus => Surplus'
  BY <1>1, <1>2, <1>3 DEF Surplus
<1> QED
  BY <1>4, <1>5, <1>6, <1>7 DEF Keeps

LEMMA GiveOnEthKeeps ==
    ASSUME ChainTyped, EthInv, AtaInv, NEW u \in Users, NEW v \in Users, NEW t \in {ENS, BNSToken},
           GiveOnEth(u, v, t)
    PROVE  Keeps
<1>1. /\ t = ENS => ens = u /\ ens' = v /\ bns' = bns
      /\ t = BNSToken => bns = u /\ bns' = v /\ ens' = ens
      /\ UNCHANGED <<wrapped, calls, solVars, whVars>>
  BY GiveOnEthEffect
<1>2. {u, v} \cap {NFTBridge, NoOne, BNSContract} = {} /\ NFTBridge # NoOne
  BY BridgeAssumption
<1>3. UNCHANGED <<atas, units, name, nft, Bridged, UnderWay>>
  BY <1>1 DEF units, name, nft, Bridged, UnderWay, solVars, whVars
<1>4. EthInv' /\ AtaInv' /\ ~Crosses
  BY <1>1, <1>2, <1>3 DEF EthInv, AtaInv, Crosses, bns
<1>5. (bns = NFTBridge <=> bns' = NFTBridge) /\ (bns = NFTBridge => ens' = ens)
  BY <1>1, <1>2 DEF EthInv
<1>6. Agree => Agree'
  BY <1>3, <1>5 DEF Agree, SolInv, Backed, bns, ens, units
<1>7. Surplus => Surplus'
  BY <1>3, <1>5 DEF Surplus
<1> QED
  BY <1>4, <1>6, <1>7 DEF Keeps

LEMMA UnitsTyped ==
    ASSUME ChainTyped
    PROVE  /\ units \in [S!Wallets -> Nat]
           /\ Bridged \subseteq S!Wallets
           /\ \A w \in S!Wallets : w \in Bridged <=> units[w] > 0
  BY DEF ChainTyped, S!TypeOK, units, Bridged

\* The bridged NFT moves between accounts: there are as many as before, and if there
\* was one, it is at b.
LEMMA MovedKeeps ==
    ASSUME ChainTyped, ChainTyped', EthInv, AtaInv,
           NEW a \in S!Wallets, NEW b \in S!Wallets, a # b,
           Moved(a, b), UNCHANGED <<ethVars, whVars>>
    PROVE  /\ EthInv' /\ AtaInv' /\ ~Crosses
           /\ Backed => Backed' /\ Bridged = {a} /\ Bridged' = {b}
           /\ Surplus => Surplus'
<1>1. /\ units[a] > 0 /\ units'[a] = units[a] - 1 /\ units'[b] = units[b] + 1
      /\ \A w \in S!Wallets \ {a, b} : units'[w] = units[w]
      /\ atas' = atas \cup {S!Ata(b, Domain)}
  BY DEF Moved
<1>2. /\ units \in [S!Wallets -> Nat] /\ units' \in [S!Wallets -> Nat]
      /\ Bridged \subseteq S!Wallets /\ Bridged' \subseteq S!Wallets
      /\ \A w \in S!Wallets : w \in Bridged <=> units[w] > 0
      /\ \A w \in S!Wallets : w \in Bridged' <=> units'[w] > 0
  <2>1. /\ units' \in [S!Wallets -> Nat]
        /\ Bridged' \subseteq S!Wallets
        /\ \A w \in S!Wallets : w \in Bridged' <=> units'[w] > 0
    BY DEF ChainTyped, S!TypeOK, units, Bridged
  <2> QED
    BY <2>1, UnitsTyped
<1>3. UNCHANGED <<ens, bns, wrapped, calls, UnderWay>>
  BY DEF ens, bns, UnderWay, ethVars, whVars
<1>4. EthInv' /\ ~Crosses
  BY <1>3, BridgeAssumption DEF EthInv, Crosses, bns
<1>5. AtaInv'
  <2> SUFFICES ASSUME NEW w \in S!Wallets, units'[w] > 0 PROVE S!Ata(w, Domain) \in atas'
    BY DEF AtaInv
  <2>1. CASE w = b
    BY <1>1, <2>1
  <2>2. CASE w # b
    <3>1. units[w] > 0
      BY <1>1, <1>2, <2>2
    <3> QED
      BY <1>1, <3>1 DEF AtaInv
  <2> QED
    BY <2>1, <2>2
<1>6. a \in Bridged /\ b \in Bridged'
  BY <1>1, <1>2
<1>7. Backed => Backed' /\ Bridged = {a} /\ Bridged' = {b}
  <2> SUFFICES ASSUME Backed PROVE Backed' /\ Bridged = {a} /\ Bridged' = {b}
    OBVIOUS
  <2>1. /\ bns = NFTBridge /\ ens = BNSContract /\ UnderWay = {}
        /\ Bridged = {a} /\ units[a] = 1
    BY <1>6 DEF Backed, bns, ens, units
  <2>2. units'[b] = 1 /\ \A w \in S!Wallets \ {b} : ~(units'[w] > 0)
    <3>1. units[b] = 0 /\ \A w \in S!Wallets \ {a} : ~(units[w] > 0)
      BY <1>2, <2>1
    <3> QED
      BY <1>1, <1>2, <2>1, <3>1
  <2>3. Bridged' = {b}
    BY <1>2, <1>6, <2>2
  <2> QED
    BY <1>3, <2>1, <2>2, <2>3 DEF Backed, bns, ens, units
<1>8. Surplus => Surplus'
  <2> SUFFICES ASSUME Surplus PROVE Surplus'
    OBVIOUS
  <2>1. CASE bns # NFTBridge \/ UnderWay # {}
    BY <1>3, <1>6, <2>1 DEF Surplus
  <2>2. CASE bns = NFTBridge /\ UnderWay = {}
    <3> SUFFICES \/ \E x, y \in Bridged' : x # y
                 \/ \E x \in Bridged' : units'[x] > 1
      BY <1>3, <2>2 DEF Surplus
    <3>1. CASE \E x \in Bridged : x # a
      <4>1. PICK x \in Bridged : x # a
        BY <3>1
      <4>2. x = b => units'[b] > 1
        BY <1>1, <1>2, <4>1
      <4>3. x # b => x \in Bridged'
        BY <1>1, <1>2, <4>1
      <4> QED
        BY <1>6, <4>2, <4>3
    <3>2. CASE \A x \in Bridged : x = a
      <4>1. units[a] > 1
        BY <2>2, <3>2 DEF Surplus
      <4>2. a \in Bridged'
        BY <1>1, <1>2, <4>1
      <4> QED
        BY <1>6, <4>2
    <3> QED
      BY <3>1, <3>2
  <2> QED
    BY <2>1, <2>2
<1> QED
  BY <1>4, <1>5, <1>7, <1>8

LEMMA CompleteWrappedKeeps ==
    ASSUME ChainTyped, EthInv, AtaInv, NEW v, CompleteWrapped(v)
    PROVE  Keeps
<1> DEFINE u == vaas[v].recipient
<1>1. /\ ChainTyped'
      /\ v \in UnderWay /\ UnderWay' = UnderWay \ {v}
      /\ u \in Users
      /\ units'[u] = units[u] + 1 /\ \A w \in S!Wallets \ {u} : units'[w] = units[w]
      /\ atas' = atas \cup {S!Ata(u, Domain)}
      /\ UNCHANGED <<nameOwner, ansNft, ethVars>>
  BY CompleteWrappedEffect
<1> HIDE DEF u
<1>2. /\ units \in [S!Wallets -> Nat] /\ u \in S!Wallets /\ Vault \in S!Wallets /\ u # Vault
      /\ Bridged \subseteq S!Wallets /\ Bridged' \subseteq S!Wallets
      /\ \A w \in S!Wallets : w \in Bridged <=> units[w] > 0
      /\ \A w \in S!Wallets : w \in Bridged' <=> units'[w] > 0
  <2>1. /\ Bridged' \subseteq S!Wallets
        /\ \A w \in S!Wallets : w \in Bridged' <=> units'[w] > 0
    BY <1>1 DEF ChainTyped, S!TypeOK, units, Bridged
  <2> QED
    BY <1>1, <2>1, UnitsTyped, BridgeAssumption DEF S!Wallets
<1>3. UNCHANGED <<ens, bns, wrapped, calls, name, nft>>
  BY <1>1 DEF ens, bns, name, nft, ethVars
<1>4. EthInv' /\ ~Crosses
  BY <1>3, BridgeAssumption DEF EthInv, Crosses, bns
<1>5. AtaInv'
  BY <1>1, <1>2 DEF AtaInv
<1>6. u \in Bridged' /\ Bridged \subseteq Bridged'
  BY <1>1, <1>2
<1>7. Agree => Agree'
  <2> SUFFICES ASSUME Agree PROVE Agree'
    OBVIOUS
  <2>1. bns = NFTBridge /\ ens = BNSContract /\ UnderWay = {v} /\ Bridged = {}
    BY <1>1 DEF Agree, Backed, bns, ens
  <2>2. units'[u] = 1 /\ \A w \in S!Wallets \ {u} : units'[w] = 0 /\ units[w] = 0
    BY <1>1, <1>2, <2>1
  <2>3. Bridged' = {u} /\ UnderWay' = {}
    BY <1>1, <1>2, <2>1, <2>2
  <2>4. Backed'
    BY <1>3, <2>1, <2>2, <2>3 DEF Backed, bns, ens, units
  <2>5. SolInv'
    BY <1>2, <1>3, <2>2 DEF Agree, SolInv
  <2> QED
    BY <2>4, <2>5 DEF Agree
<1>8. Surplus => Surplus'
  <2> SUFFICES ASSUME Surplus PROVE Surplus'
    OBVIOUS
  <2>1. CASE bns # NFTBridge \/ \E w \in UnderWay : w # v
    BY <1>1, <1>3, <1>6, <2>1 DEF Surplus
  <2>2. CASE bns = NFTBridge /\ \A w \in UnderWay : w = v
    <3>1. PICK x \in Bridged : TRUE
      BY <2>2 DEF Surplus
    <3>2. x = u => units'[u] > 1
      BY <1>1, <1>2, <3>1
    <3> QED
      BY <1>3, <1>6, <2>2, <3>1, <3>2 DEF Surplus
  <2> QED
    BY <2>1, <2>2
<1> QED
  BY <1>4, <1>5, <1>7, <1>8 DEF Keeps

LEMMA TransferWrappedKeeps ==
    ASSUME ChainTyped, EthInv, AtaInv, NEW u \in Users, TransferWrapped(u)
    PROVE  Keeps
<1>1. /\ ChainTyped'
      /\ units[u] > 0 /\ units'[u] = units[u] - 1
      /\ \A w \in S!Wallets \ {u} : units'[w] = units[w]
      /\ UNCHANGED <<atas, nameOwner, ansNft, ethVars>>
      /\ Publish("ethereum", u)
  BY TransferWrappedEffect
<1> DEFINE n == Len(vaas) + 1
<1>2. UnderWay' = UnderWay \cup {n} /\ n \notin UnderWay
  BY <1>1, Published DEF UnderWay
<1> HIDE DEF n
<1>3. /\ units \in [S!Wallets -> Nat] /\ u \in S!Wallets /\ Vault \in S!Wallets /\ u # Vault
      /\ Bridged \subseteq S!Wallets /\ Bridged' \subseteq S!Wallets
      /\ \A w \in S!Wallets : w \in Bridged <=> units[w] > 0
      /\ \A w \in S!Wallets : w \in Bridged' <=> units'[w] > 0
  <2>1. /\ Bridged' \subseteq S!Wallets
        /\ \A w \in S!Wallets : w \in Bridged' <=> units'[w] > 0
    BY <1>1 DEF ChainTyped, S!TypeOK, units, Bridged
  <2> QED
    BY <1>1, <2>1, UnitsTyped, BridgeAssumption DEF S!Wallets
<1>4. UNCHANGED <<ens, bns, wrapped, calls, name, nft>>
  BY <1>1 DEF ens, bns, name, nft, ethVars
<1>5. EthInv' /\ ~Crosses
  BY <1>4, BridgeAssumption DEF EthInv, Crosses, bns
<1>6. AtaInv'
  BY <1>1, <1>3 DEF AtaInv
<1>7. u \in Bridged /\ \A w \in Bridged : w # u => w \in Bridged'
  BY <1>1, <1>3
<1>8. Agree => Agree'
  <2> SUFFICES ASSUME Agree PROVE Agree'
    OBVIOUS
  <2>1. /\ bns = NFTBridge /\ ens = BNSContract /\ UnderWay = {}
        /\ Bridged = {u} /\ units[u] = 1
    BY <1>7 DEF Agree, Backed, bns, ens, units
  <2>2. units[Vault] = 0 /\ \A w \in S!Wallets : units'[w] = 0
    BY <1>1, <1>3, <2>1
  <2>3. Bridged' = {} /\ UnderWay' = {n}
    BY <1>2, <1>3, <2>1, <2>2
  <2>4. Backed'
    BY <1>4, <2>1, <2>3 DEF Backed, bns, ens
  <2>5. SolInv'
    BY <1>3, <1>4, <2>2 DEF Agree, SolInv
  <2> QED
    BY <2>4, <2>5 DEF Agree
<1>9. Surplus => Surplus'
  <2> SUFFICES ASSUME Surplus PROVE Surplus'
    OBVIOUS
  <2>1. CASE bns # NFTBridge \/ UnderWay # {}
    BY <1>2, <1>4, <2>1 DEF Surplus
  <2>2. CASE bns = NFTBridge /\ UnderWay = {}
    <3>1. Bridged' # {}
      <4>1. CASE \E x \in Bridged : x # u
        BY <1>7, <4>1
      <4>2. CASE \A x \in Bridged : x = u
        <5>1. units[u] > 1
          BY <2>2, <4>2 DEF Surplus
        <5> QED
          BY <1>1, <1>3, <5>1
      <4> QED
        BY <4>1, <4>2
    <3> QED
      BY <1>2, <1>4, <2>2, <3>1 DEF Surplus
  <2> QED
    BY <2>1, <2>2
<1> QED
  BY <1>5, <1>6, <1>8, <1>9 DEF Keeps

LEMMA WrapDomainKeeps ==
    ASSUME ChainTyped, EthInv, AtaInv, NEW u \in Users, WrapDomain(u)
    PROVE  Keeps
<1>1. /\ ChainTyped' /\ Moved(u, Vault)
      /\ \/ name' = u /\ nft' = NoOne
         \/ name # NoOne /\ name' = name /\ nft' \in {nft, NoOne}
      /\ UNCHANGED <<ethVars, whVars>>
  BY WrapDomainEffect
<1>2. u \in S!Wallets /\ Vault \in S!Wallets /\ u # Vault /\ u # Record /\ u # NoOne
  BY BridgeAssumption DEF S!Wallets
<1>3. /\ EthInv' /\ AtaInv' /\ ~Crosses
      /\ Backed => Backed' /\ Bridged = {u} /\ Bridged' = {Vault}
      /\ Surplus => Surplus'
  BY <1>1, <1>2, MovedKeeps
<1>4. Agree => Agree'
  <2> SUFFICES ASSUME Agree PROVE Agree'
    OBVIOUS
  <2>1. Backed' /\ Bridged = {u} /\ Bridged' = {Vault}
    BY <1>3 DEF Agree
  <2>2. ~(units[Vault] > 0) /\ units'[Vault] > 0
    BY <1>2, <2>1 DEF Bridged, units
  <2>3. name' = u /\ nft' = NoOne
    BY <1>1, <2>2, BridgeAssumption DEF Agree, SolInv
  <2> QED
    BY <1>1, <1>2, <2>1, <2>2, <2>3 DEF Agree, SolInv
<1> QED
  BY <1>3, <1>4 DEF Keeps

LEMMA CreateNftKeeps ==
    ASSUME ChainTyped, EthInv, AtaInv, NEW u \in Users, CreateNft(u)
    PROVE  Keeps
<1>1. /\ name = u /\ name' = Record /\ nft' = u
      /\ UNCHANGED <<atas, amount, ethVars, whVars>>
  BY CreateNftEffect
<1>2. UNCHANGED <<ens, bns, wrapped, calls, units, Bridged, UnderWay>>
  BY <1>1 DEF ens, bns, units, Bridged, UnderWay, ethVars, whVars
<1>3. EthInv' /\ AtaInv' /\ ~Crosses
  BY <1>1, <1>2, BridgeAssumption DEF EthInv, AtaInv, Crosses, bns
<1>4. Agree => Agree'
  BY <1>1, <1>2, BridgeAssumption DEF Agree, SolInv, Backed, bns, ens, units
<1>5. Surplus => Surplus'
  BY <1>2 DEF Surplus
<1> QED
  BY <1>3, <1>4, <1>5 DEF Keeps

LEMMA RedeemNftKeeps ==
    ASSUME ChainTyped, EthInv, AtaInv, NEW u \in Users, RedeemNft(u)
    PROVE  Keeps
<1>1. /\ ChainTyped' /\ Moved(Vault, u)
      /\ name' = NoOne /\ nft' = NoOne
      /\ UNCHANGED <<ethVars, whVars>>
  BY RedeemNftEffect
<1>2. u \in S!Wallets /\ Vault \in S!Wallets /\ u # Vault
  BY BridgeAssumption DEF S!Wallets
<1>3. /\ EthInv' /\ AtaInv' /\ ~Crosses
      /\ Backed => Backed' /\ Bridged = {Vault} /\ Bridged' = {u}
      /\ Surplus => Surplus'
  BY <1>1, <1>2, MovedKeeps
<1>4. Backed => ~(units'[Vault] > 0)
  BY <1>2, <1>3 DEF Bridged, units
<1>5. Agree => Agree'
  BY <1>1, <1>3, <1>4, BridgeAssumption DEF Agree, SolInv
<1> QED
  BY <1>3, <1>5 DEF Keeps

LEMMA GiveOnSolanaKeeps ==
    ASSUME ChainTyped, EthInv, AtaInv, NEW u \in Users, NEW v \in Users, GiveOnSolana(u, v)
    PROVE  Keeps
<1>1. ChainTyped' /\ UNCHANGED <<nameOwner, ethVars, whVars>>
  BY GiveOnSolanaEffect
<1>2. CASE nft = u /\ nft' = v /\ UNCHANGED <<atas, amount>>
  <2>1. UNCHANGED <<ens, bns, wrapped, calls, name, units, Bridged, UnderWay>>
    BY <1>1, <1>2 DEF ens, bns, name, units, Bridged, UnderWay, ethVars, whVars
  <2>2. EthInv' /\ AtaInv' /\ ~Crosses /\ (Surplus => Surplus')
    BY <1>2, <2>1, BridgeAssumption DEF EthInv, AtaInv, Crosses, Surplus, bns
  <2>3. Agree => Agree'
    BY <1>2, <2>1, BridgeAssumption DEF Agree, SolInv, Backed, bns, ens, units
  <2> QED
    BY <2>2, <2>3 DEF Keeps
<1>3. CASE u # v /\ Moved(u, v) /\ UNCHANGED ansNft
  <2>1. u \in S!Wallets /\ v \in S!Wallets /\ Vault \in S!Wallets /\ Vault # u /\ Vault # v
    BY BridgeAssumption DEF S!Wallets
  <2>2. /\ EthInv' /\ AtaInv' /\ ~Crosses
        /\ Backed => Backed'
        /\ Surplus => Surplus'
    BY <1>1, <1>3, <2>1, MovedKeeps
  <2>3. units'[Vault] = units[Vault] /\ UNCHANGED <<name, nft>>
    BY <1>1, <1>3, <2>1 DEF Moved, name, nft
  <2> QED
    BY <2>2, <2>3 DEF Keeps, Agree, SolInv
<1> QED
  BY <1>2, <1>3, GiveOnSolanaEffect

----------------------------------------------------------------------------
(* Everything that may happen to the chains *)

\* The transactions that pages wait for, or that were left behind.
InPlay == left \cup {tab[t] : t \in Tabs}

\* One of them lands, the domain is given away, or nothing happens.
ChainMoves ==
    \/ \E x \in Step : x \in InPlay /\ Lands(x)
    \/ \E u, v \in Users : GiveOnSolana(u, v) \/ \E t \in {ENS, BNSToken} : GiveOnEth(u, v, t)
    \/ UNCHANGED chainVars

LEMMA LandsStep ==
    ASSUME ChainTyped, NEW x \in Step, Lands(x)
    PROVE  ChainTyped' /\ (EthInv /\ AtaInv => Keeps)
<1>1. x.user \in Users
  BY DEF Step
<1>2. CASE ApproveENS(x.user) \/ ApproveBNS(x.user)
  BY <1>1, <1>2, ApproveEffect, SameKeeps
<1>3. CASE WrapNFT(x.user)
  BY <1>1, <1>3, WrapNFTEffect, WrapNFTKeeps
<1>4. CASE TransferNFT(x.user)
  BY <1>1, <1>4, TransferNFTEffect, TransferNFTKeeps
<1>5. CASE CompleteTransfer(x.vaa)
  BY <1>5, CompleteTransferEffect, CompleteTransferKeeps
<1>6. CASE UnwrapNFT(x.user)
  BY <1>1, <1>6, UnwrapNFTEffect, UnwrapNFTKeeps
<1>7. CASE CompleteWrapped(x.vaa)
  BY <1>7, CompleteWrappedEffect, CompleteWrappedKeeps
<1>8. CASE WrapDomain(x.user)
  BY <1>1, <1>8, WrapDomainEffect, WrapDomainKeeps
<1>9. CASE CreateNft(x.user)
  BY <1>1, <1>9, CreateNftEffect, CreateNftKeeps
<1>10. CASE RedeemNft(x.user)
  BY <1>1, <1>10, RedeemNftEffect, RedeemNftKeeps
<1>11. CASE TransferWrapped(x.user)
  BY <1>1, <1>11, TransferWrappedEffect, TransferWrappedKeeps
<1> QED
  BY <1>2, <1>3, <1>4, <1>5, <1>6, <1>7, <1>8, <1>9, <1>10, <1>11 DEF Lands

LEMMA ChainStep ==
    ASSUME ChainTyped, ChainMoves
    PROVE  ChainTyped' /\ (EthInv /\ AtaInv => Keeps)
<1>1. CASE UNCHANGED chainVars
  <2>1. UNCHANGED <<ownerOf, getApproved, wrapped, calls, solVars, whVars>>
    BY <1>1 DEF chainVars, ethVars
  <2>2. ChainTyped'
    BY <2>1 DEF ChainTyped, E!TypeOK, S!TypeOK, solVars, whVars
  <2> QED
    BY <2>1, <2>2, SameKeeps
<1>2. CASE \E x \in Step : x \in InPlay /\ Lands(x)
  BY <1>2, LandsStep
<1>3. CASE \E u, v \in Users : GiveOnSolana(u, v)
  BY <1>3, GiveOnSolanaEffect, GiveOnSolanaKeeps
<1>4. CASE \E u, v \in Users : \E t \in {ENS, BNSToken} : GiveOnEth(u, v, t)
  BY <1>4, GiveOnEthEffect, GiveOnEthKeeps
<1> QED
  BY <1>1, <1>2, <1>3, <1>4 DEF ChainMoves

----------------------------------------------------------------------------
(* The pages *)

TabTyped == tab \in [Tabs -> Step \cup {Idle}] /\ left \subseteq Step

LEMMA IdleNot == \A place \in Transactions \cup Reads : Idle.at # place
  BY DEF Idle, Transactions, EthTransactions, SolTransactions, Reads

\* A page that goes on is at the place that After names, or idle.
LEMMA PageMoves ==
    ASSUME TabTyped, NEW t \in Tabs, tab[t] # Idle
    PROVE  /\ tab[t] \in Step
           /\ Stops(t) => /\ tab' \in [Tabs -> Step \cup {Idle}] /\ tab'[t] = Idle
                          /\ \A s \in Tabs \ {t} : tab'[s] = tab[s]
           /\ \A place \in Transactions \cup Reads \cup {"redeemed"} :
                 Goes(t, place) =>
                    /\ tab' \in [Tabs -> Step \cup {Idle}]
                    /\ tab'[t].at = place /\ tab'[t].user = tab[t].user /\ tab'[t].vaa = tab[t].vaa
                    /\ \A s \in Tabs \ {t} : tab'[s] = tab[s]
<1>1. tab[t] \in Step
  BY DEF TabTyped
<1>2. ASSUME NEW place \in Transactions \cup Reads \cup {"redeemed"}, Goes(t, place)
      PROVE  /\ tab' \in [Tabs -> Step \cup {Idle}]
             /\ tab'[t].at = place /\ tab'[t].user = tab[t].user /\ tab'[t].vaa = tab[t].vaa
             /\ \A s \in Tabs \ {t} : tab'[s] = tab[s]
  <2> DEFINE step == [tab[t] EXCEPT !.at = place]
  <2>1. step \in Step /\ step.at = place /\ step.user = tab[t].user /\ step.vaa = tab[t].vaa
    BY <1>1 DEF Step
  <2>2. tab' = [tab EXCEPT ![t] = step]
    BY <1>2 DEF Goes
  <2> HIDE DEF step
  <2> QED
    BY <2>1, <2>2 DEF TabTyped
<1> QED
  BY <1>1, <1>2 DEF Stops, TabTyped

LEMMA GoesOnMoves ==
    ASSUME TabTyped, NEW t \in Tabs, tab[t].at \in Transactions, GoesOn(t)
    PROVE  /\ tab[t] \in Step
           /\ tab' \in [Tabs -> Step \cup {Idle}]
           /\ \A s \in Tabs \ {t} : tab'[s] = tab[s]
           /\ \/ tab'[t] = Idle
              \/ /\ tab'[t].at = After[tab[t].at]
                 /\ tab'[t].user = tab[t].user /\ tab'[t].vaa = tab[t].vaa
<1>1. tab[t] # Idle
  BY IdleNot
<1>2. \/ After[tab[t].at] = "idle" /\ Stops(t)
      \/ /\ After[tab[t].at] \in Transactions \cup Reads \cup {"redeemed"}
         /\ Goes(t, After[tab[t].at])
  BY DEF GoesOn, After, Transactions, EthTransactions, SolTransactions, Reads
<1> QED
  BY <1>1, <1>2, PageMoves

\* The VAA v is of a transfer to that chain, of u's own.
OwnTo(v, u, chain) == Redeemable(v, chain) /\ Own(u, v)

\* A click reads where to resume; what it reads is true of the chains at the click.
LEMMA ClicksMoves ==
    ASSUME ChainTyped, TabTyped, NEW t \in Tabs, Clicks(t)
    PROVE  /\ TabTyped' /\ UNCHANGED <<chainVars, left>>
           /\ \A s \in Tabs \ {t} : tab'[s] = tab[s]
           /\ tab'[t].at = "complete" => OwnTo(tab'[t].vaa, tab'[t].user, "solana")
           /\ tab'[t].at \in {"redeemOnEth", "unwrapNFT"} =>
                 /\ OwnTo(tab'[t].vaa, tab'[t].user, "ethereum")
                 /\ tab'[t].at = "unwrapNFT" => bns # NFTBridge
<1>1. DOMAIN vaas \subseteq 0..MaxVaas /\ 0 \in 0..MaxVaas
  BY BridgeAssumption DEF ChainTyped
<1>2. PICK u \in Users, v \in 0..MaxVaas, place \in Transactions \cup Reads :
        /\ Starts(t, u, v, place)
        /\ place = "complete" => OwnTo(v, u, "solana")
        /\ place \in {"redeemOnEth", "unwrapNFT"} =>
              OwnTo(v, u, "ethereum") /\ (place = "unwrapNFT" => bns # NFTBridge)
  <2>1. PICK u \in Users : SendFromEth(t, u) \/ SendFromSolana(t, u)
                            \/ \E v \in DOMAIN vaas :
                                 Own(u, v) /\ (RedeemOnSolana(t, u, v) \/ RedeemOnEth(t, u, v))
    BY DEF Clicks
  <2>2. CASE SendFromEth(t, u)
    BY <1>1, <2>2 DEF SendFromEth, Transactions, EthTransactions
  <2>3. CASE SendFromSolana(t, u)
    BY <1>1, <2>3 DEF SendFromSolana, Transactions, SolTransactions
  <2>4. ASSUME NEW v \in DOMAIN vaas, Own(u, v), RedeemOnSolana(t, u, v)
        PROVE  \E place \in Transactions \cup Reads :
                  Starts(t, u, v, place) /\ place \notin {"redeemOnEth", "unwrapNFT"} /\ OwnTo(v, u, "solana")
    BY <2>4 DEF OwnTo, RedeemOnSolana, Transactions, SolTransactions, Reads
  <2>5. ASSUME NEW v \in DOMAIN vaas, Own(u, v), RedeemOnEth(t, u, v)
        PROVE  \E place \in Transactions :
                  /\ Starts(t, u, v, place) /\ place # "complete" /\ OwnTo(v, u, "ethereum")
                  /\ place = "unwrapNFT" => bns # NFTBridge
    BY <2>5 DEF OwnTo, RedeemOnEth, Transactions, EthTransactions, bns
  <2> QED
    BY <1>1, <2>1, <2>2, <2>3, <2>4, <2>5
<1> DEFINE step == [at |-> place, user |-> u, vaa |-> v]
<1>3. step \in Step /\ step.at = place /\ step.user = u /\ step.vaa = v
  BY DEF Step
<1>4. tab' = [tab EXCEPT ![t] = step] /\ UNCHANGED <<chainVars, left>>
  BY <1>2 DEF Starts
<1> HIDE DEF step
<1>5. TabTyped' /\ tab'[t] = step /\ \A s \in Tabs \ {t} : tab'[s] = tab[s]
  BY <1>3, <1>4 DEF TabTyped
<1> QED
  BY <1>2, <1>3, <1>4, <1>5

\* A page's handler: what it does on the chains, and where the page is then.
LEMMA HandlerMoves ==
    ASSUME TabTyped, NEW t \in Tabs, Handler(t)
    PROVE  /\ TabTyped' /\ tab[t] \in Step
           /\ \A s \in Tabs \ {t} : tab'[s] = tab[s]
           /\ left' \in {left, left \cup {tab[t]}} /\ (left' # left => MaxLeft # 0)
           /\ UNCHANGED chainVars \/ Lands(tab[t])
           /\ \/ tab'[t].at \notin {"complete", "redeemOnEth", "unwrapNFT"}
              \/ /\ tab[t].at = "redeemOnEth" /\ tab'[t].at = "unwrapNFT"
                 /\ tab'[t].user = tab[t].user /\ tab'[t].vaa = tab[t].vaa
                 /\ CompleteTransfer(tab[t].vaa)
<1>1. ASSUME Stops(t), tab[t] # Idle
      PROVE  /\ tab' \in [Tabs -> Step \cup {Idle}] /\ tab[t] \in Step /\ tab'[t] = Idle
             /\ \A s \in Tabs \ {t} : tab'[s] = tab[s]
             /\ tab'[t].at \notin {"complete", "redeemOnEth", "unwrapNFT"}
  BY <1>1, PageMoves DEF Idle
<1>2. ASSUME GoesOn(t), tab[t].at \in Transactions
      PROVE  /\ tab' \in [Tabs -> Step \cup {Idle}] /\ tab[t] \in Step
             /\ \A s \in Tabs \ {t} : tab'[s] = tab[s]
             /\ \/ tab'[t].at \notin {"complete", "redeemOnEth", "unwrapNFT"}
                \/ /\ tab[t].at = "redeemOnEth" /\ tab'[t].at = "unwrapNFT"
                   /\ tab'[t].user = tab[t].user /\ tab'[t].vaa = tab[t].vaa
  <2>1. /\ After[tab[t].at] \notin {"complete", "redeemOnEth"}
        /\ After[tab[t].at] = "unwrapNFT" => tab[t].at = "redeemOnEth"
    BY <1>2 DEF After, Transactions, EthTransactions, SolTransactions
  <2>2. Idle.at \notin {"complete", "redeemOnEth", "unwrapNFT"}
    BY DEF Idle
  <2> QED
    BY <1>2, <2>1, <2>2, GoesOnMoves
<1>3. CASE Confirms(t)
  <2>1. tab[t].at \in Transactions /\ Lands(tab[t]) /\ GoesOn(t) /\ UNCHANGED left
    BY <1>3 DEF Confirms
  <2>2. tab[t].at = "redeemOnEth" => CompleteTransfer(tab[t].vaa)
    BY <2>1 DEF Lands
  <2> QED
    BY <1>2, <2>1, <2>2 DEF TabTyped
<1>4. CASE ConfirmsUnseen(t)
  BY <1>1, <1>4, IdleNot DEF ConfirmsUnseen, TabTyped
<1>5. CASE FailsUnnoticed(t)
  <2>1. /\ tab[t].at \in Transactions /\ tab[t].at # "redeemOnEth"
        /\ GoesOn(t) /\ UNCHANGED <<chainVars, left>>
    BY <1>5 DEF FailsUnnoticed, Transactions, SolTransactions
  <2> QED
    BY <1>2, <2>1 DEF TabTyped
<1>6. CASE ReadName(t) \/ ReadExpiry(t)
  <2>1. PICK place \in Transactions \cup Reads :
          place \notin {"complete", "redeemOnEth", "unwrapNFT"} /\ Goes(t, place)
    BY <1>6 DEF ReadName, ReadExpiry, Transactions, SolTransactions, Reads
  <2>2. tab[t] # Idle /\ UNCHANGED <<chainVars, left>>
    BY <1>6, IdleNot DEF ReadName, ReadExpiry, At, Reads
  <2> QED
    BY <2>1, <2>2, PageMoves DEF TabTyped
<1>7. CASE Fails(t)
  BY <1>1, <1>7 DEF Fails, TabTyped
<1>8. CASE Leaves(t)
  <2>1. tab[t] # Idle /\ Stops(t) /\ left' = left \cup {tab[t]} /\ MaxLeft = 1 /\ UNCHANGED chainVars
    BY <1>8, IdleNot DEF Leaves
  <2> QED
    BY <1>1, <2>1 DEF TabTyped
<1> QED
  BY <1>3, <1>4, <1>5, <1>6, <1>7, <1>8 DEF Handler

\* Every step moves the chains in one of the ways above, and keeps the pages' types.
LEMMA NextMoves ==
    ASSUME TypeOK, [Next]_vars
    PROVE  ChainMoves /\ TabTyped'
<1>1. ChainTyped /\ TabTyped
  BY DEF TypeOK, ChainTyped, TabTyped
<1>2. ASSUME NEW t \in Tabs, Clicks(t) PROVE ChainMoves /\ TabTyped'
  BY <1>1, <1>2, ClicksMoves DEF ChainMoves
<1>3. ASSUME NEW t \in Tabs, Handler(t) PROVE ChainMoves /\ TabTyped'
  BY <1>1, <1>3, HandlerMoves DEF ChainMoves, InPlay
<1>4. ASSUME NEW x \in left, LandsLater(x) \/ Drops(x) PROVE ChainMoves /\ TabTyped'
  BY <1>1, <1>4 DEF LandsLater, Drops, ChainMoves, InPlay, TabTyped
<1>5. CASE \E u, v \in Users : GiveOnSolana(u, v) \/ \E t \in {ENS, BNSToken} : GiveOnEth(u, v, t)
  <2>1. UNCHANGED <<tab, left>>
    BY <1>5 DEF GiveOnSolana, GiveOnEth
  <2> QED
    BY <1>1, <1>5, <2>1 DEF ChainMoves, TabTyped
<1>6. CASE UNCHANGED vars
  BY <1>1, <1>6 DEF vars, ChainMoves, TabTyped
<1> QED
  BY <1>2, <1>3, <1>4, <1>5, <1>6 DEF Next

----------------------------------------------------------------------------
(* The transfers, and the pages that redeem them *)

\* Publishing a transfer to Solana is what takes the BNS token to the NFT bridge, and
\* only a bridged NFT is sent back.
LEMMA TransfersStep ==
    ASSUME ChainTyped, ChainMoves
    PROVE  \/ /\ vaas' = vaas /\ (bns' = NFTBridge => bns = NFTBridge)
              /\ Bridged' # {} => Bridged # {} \/ vaas # <<>>
           \/ \E u \in Users : Publish("solana", u)
           \/ bns' = bns /\ Bridged # {} /\ \E u \in Users : Publish("ethereum", u)
<1>1. NFTBridge \notin Users /\ NFTBridge # NoOne
  BY BridgeAssumption
<1>2. CASE UNCHANGED <<ownerOf, solVars, whVars>>
  BY <1>2 DEF solVars, whVars, bns, Bridged
<1>3. ASSUME NEW a \in S!Wallets, Moved(a, Vault) \/ \E b \in Users : Moved(a, b), UNCHANGED <<ethVars, whVars>>
      PROVE  vaas' = vaas /\ bns' = bns /\ Bridged # {}
  BY <1>3 DEF Moved, ethVars, whVars, bns, Bridged, units
<1>4. ASSUME NEW x \in Step, Lands(x),
             ~(vaas' = vaas /\ (bns' = NFTBridge => bns = NFTBridge)
                 /\ (Bridged' # {} => Bridged # {} \/ vaas # <<>>))
      PROVE  \/ \E u \in Users : Publish("solana", u)
             \/ bns' = bns /\ Bridged # {} /\ \E u \in Users : Publish("ethereum", u)
  <2>1. x.user \in Users /\ x.user \in S!Wallets /\ Vault \in S!Wallets
    BY DEF Step, S!Wallets
  <2>2. CASE ApproveENS(x.user) \/ ApproveBNS(x.user)
    BY <1>2, <1>4, <2>1, <2>2, ApproveEffect DEF solVars, whVars, bns, Bridged
  <2>3. CASE WrapNFT(x.user) \/ UnwrapNFT(x.user)
    BY <1>1, <1>4, <2>1, <2>3, WrapNFTEffect, UnwrapNFTEffect DEF solVars, whVars, Bridged
  <2>4. CASE TransferNFT(x.user)
    BY <2>1, <2>4 DEF TransferNFT
  <2>5. CASE CompleteTransfer(x.vaa)
    BY <1>1, <1>4, <2>5, CompleteTransferEffect DEF solVars, Bridged
  <2>6. CASE CompleteWrapped(x.vaa)
    <3>1. vaas' = vaas /\ bns' = bns /\ x.vaa \in DOMAIN vaas
      BY <2>6, CompleteWrappedEffect DEF UnderWay, ethVars, bns
    <3>2. vaas # <<>>
      BY <3>1
    <3> QED
      BY <1>4, <3>1, <3>2
  <2>7. CASE WrapDomain(x.user)
    BY <1>3, <1>4, <2>1, <2>7, WrapDomainEffect
  <2>8. CASE CreateNft(x.user)
    BY <1>4, <2>1, <2>8, CreateNftEffect DEF ethVars, whVars, bns, Bridged
  <2>9. CASE RedeemNft(x.user)
    BY <1>3, <1>4, <2>1, <2>9, RedeemNftEffect
  <2>10. CASE TransferWrapped(x.user)
    <3>1. /\ units[x.user] > 0 /\ UNCHANGED ethVars /\ Publish("ethereum", x.user)
      BY <2>1, <2>10, TransferWrappedEffect
    <3> QED
      BY <2>1, <3>1 DEF Bridged, units, ethVars, bns
  <2> QED
    BY <1>4, <2>2, <2>3, <2>4, <2>5, <2>6, <2>7, <2>8, <2>9, <2>10 DEF Lands
<1>5. ASSUME NEW u \in Users, NEW v \in Users, GiveOnSolana(u, v)
      PROVE  vaas' = vaas /\ bns' = bns /\ (Bridged' # {} => Bridged # {})
  <2>1. u \in S!Wallets /\ UNCHANGED <<ethVars, whVars>>
    BY <1>5, GiveOnSolanaEffect DEF S!Wallets
  <2>2. CASE UNCHANGED amount
    BY <2>1, <2>2 DEF ethVars, whVars, bns, Bridged
  <2>3. CASE Moved(u, v)
    BY <1>3, <2>1, <2>3
  <2> QED
    BY <1>5, <2>2, <2>3, GiveOnSolanaEffect
<1>6. ASSUME NEW u \in Users, NEW v \in Users, NEW t \in {ENS, BNSToken}, GiveOnEth(u, v, t)
      PROVE  vaas' = vaas /\ (bns' = NFTBridge => bns = NFTBridge) /\ (Bridged' # {} => Bridged # {})
  BY <1>1, <1>6, GiveOnEthEffect DEF solVars, whVars, Bridged
<1>7. CASE UNCHANGED chainVars
  BY <1>2, <1>7 DEF chainVars, ethVars
<1> QED
  BY <1>4, <1>5, <1>6, <1>7 DEF ChainMoves

\* The first transfer goes to Solana.
FirstInv ==
    /\ vaas = <<>> => bns # NFTBridge /\ Bridged = {}
    /\ vaas # <<>> => vaas[1].to = "solana"

\* A page redeems a transfer to its user on that chain, and, if the BNS token is with
\* the NFT bridge while the page unwraps, then for a newer transfer.
StepOK(x) ==
    /\ x.at = "complete" => OwnTo(x.vaa, x.user, "solana")
    /\ x.at \in {"redeemOnEth", "unwrapNFT"} => OwnTo(x.vaa, x.user, "ethereum")
    /\ x.at = "unwrapNFT" /\ bns = NFTBridge => x.vaa < Len(vaas)

StepInv == \A x \in InPlay : StepOK(x)

\* The transfers grow, and with them what is known of the steps in play.
LEMMA TransfersGrow ==
    ASSUME ChainTyped, ChainMoves, FirstInv
    PROVE  /\ FirstInv'
           /\ Len(vaas) \in Nat /\ Len(vaas') \in Nat /\ Len(vaas) <= Len(vaas')
           /\ \A v \in DOMAIN vaas : v \in DOMAIN vaas' /\ vaas'[v] = vaas[v]
           /\ bns' = NFTBridge /\ bns # NFTBridge => Len(vaas) < Len(vaas')
<1>1. vaas \in Seq(Vaas) /\ Len(vaas) \in Nat /\ DOMAIN vaas = 1..Len(vaas)
  BY DEF ChainTyped
<1>2. CASE /\ vaas' = vaas /\ (bns' = NFTBridge => bns = NFTBridge)
           /\ Bridged' # {} => Bridged # {} \/ vaas # <<>>
  BY <1>1, <1>2 DEF FirstInv
<1>3. ASSUME NEW u \in Users, NEW to \in {"ethereum", "solana"}, Publish(to, u),
             to = "ethereum" => bns' = bns /\ Bridged # {}
      PROVE  /\ FirstInv'
             /\ Len(vaas') = Len(vaas) + 1
             /\ \A v \in DOMAIN vaas : v \in DOMAIN vaas' /\ vaas'[v] = vaas[v]
  <2>1. /\ Len(vaas') = Len(vaas) + 1
        /\ vaas'[Len(vaas) + 1] = [to |-> to, recipient |-> u]
        /\ \A v \in DOMAIN vaas : v \in DOMAIN vaas' /\ vaas'[v] = vaas[v]
        /\ vaas' \in Seq(Vaas)
    BY <1>3, Published
  <2>2. vaas' # <<>>
    BY <1>1, <2>1
  <2>3. CASE vaas = <<>>
    <3>1. to = "solana" /\ Len(vaas) = 0
      BY <1>3, <2>3 DEF FirstInv
    <3> QED
      BY <2>1, <2>2, <3>1 DEF FirstInv
  <2>4. CASE vaas # <<>>
    <3>1. 1 \in DOMAIN vaas
      BY <1>1, <2>4
    <3> QED
      BY <2>1, <2>2, <2>4, <3>1 DEF FirstInv
  <2> QED
    BY <2>1, <2>3, <2>4
<1> QED
  BY <1>1, <1>2, <1>3, TransfersStep

LEMMA StepStays ==
    ASSUME ChainTyped, ChainMoves, FirstInv, NEW x, StepOK(x)
    PROVE  StepOK(x)'
<1>1. /\ Len(vaas) \in Nat /\ Len(vaas') \in Nat /\ Len(vaas) <= Len(vaas')
      /\ \A v \in DOMAIN vaas : v \in DOMAIN vaas' /\ vaas'[v] = vaas[v]
      /\ bns' = NFTBridge /\ bns # NFTBridge => Len(vaas) < Len(vaas')
  BY TransfersGrow
<1>2. \A chain : OwnTo(x.vaa, x.user, chain) => OwnTo(x.vaa, x.user, chain)'
  BY <1>1 DEF OwnTo, Redeemable, Own
<1>3. OwnTo(x.vaa, x.user, "ethereum") => x.vaa \in Nat /\ x.vaa <= Len(vaas)
  BY DEF OwnTo, Redeemable, ChainTyped
<1> QED
  BY <1>1, <1>2, <1>3 DEF StepOK

LEMMA StepInvStep ==
    ASSUME TypeOK, FirstInv, StepInv, [Next]_vars
    PROVE  StepInv'
<1>1. ChainTyped /\ TabTyped /\ ChainMoves
  BY NextMoves DEF TypeOK, ChainTyped, TabTyped
<1>2. \A x \in InPlay : StepOK(x)'
  BY <1>1, StepStays DEF StepInv
<1>3. ASSUME NEW t \in Tabs, \A s \in Tabs \ {t} : tab'[s] = tab[s],
             left' \subseteq left \cup {tab[t]}, StepOK(tab[t])'
      PROVE  StepInv'
  BY <1>2, <1>3 DEF StepInv, InPlay, StepOK
<1>4. ASSUME NEW t \in Tabs, Clicks(t) PROVE StepInv'
  <2>1. /\ UNCHANGED <<chainVars, left>>
        /\ \A s \in Tabs \ {t} : tab'[s] = tab[s]
        /\ tab'[t].at = "complete" => OwnTo(tab'[t].vaa, tab'[t].user, "solana")
        /\ tab'[t].at \in {"redeemOnEth", "unwrapNFT"} =>
              /\ OwnTo(tab'[t].vaa, tab'[t].user, "ethereum")
              /\ tab'[t].at = "unwrapNFT" => bns # NFTBridge
    BY <1>1, <1>4, ClicksMoves
  <2>2. UNCHANGED <<vaas, ownerOf>>
    BY <2>1 DEF chainVars, ethVars, whVars
  <2>3. StepOK(tab[t])'
    BY <2>1, <2>2 DEF StepOK, OwnTo, Redeemable, Own, bns
  <2> QED
    BY <1>3, <2>1, <2>3
<1>5. ASSUME NEW t \in Tabs, Handler(t) PROVE StepInv'
  <2>1. /\ \A s \in Tabs \ {t} : tab'[s] = tab[s]
        /\ left' \in {left, left \cup {tab[t]}}
        /\ \/ tab'[t].at \notin {"complete", "redeemOnEth", "unwrapNFT"}
           \/ /\ tab[t].at = "redeemOnEth" /\ tab'[t].at = "unwrapNFT"
              /\ tab'[t].user = tab[t].user /\ tab'[t].vaa = tab[t].vaa
              /\ CompleteTransfer(tab[t].vaa)
    BY <1>1, <1>5, HandlerMoves
  <2>2. StepOK(tab[t])'
    <3>1. CASE tab'[t].at \notin {"complete", "redeemOnEth", "unwrapNFT"}
      BY <3>1 DEF StepOK
    <3>2. CASE /\ tab[t].at = "redeemOnEth" /\ tab'[t].at = "unwrapNFT"
               /\ tab'[t].user = tab[t].user /\ tab'[t].vaa = tab[t].vaa
               /\ CompleteTransfer(tab[t].vaa)
      <4>1. OwnTo(tab[t].vaa, tab[t].user, "ethereum")
        BY <3>2 DEF StepInv, InPlay, StepOK
      <4>2. vaas' = vaas /\ bns' # NFTBridge
        BY <1>1, <3>2, CompleteTransferEffect, BridgeAssumption
      <4> QED
        BY <3>2, <4>1, <4>2 DEF StepOK, OwnTo, Redeemable, Own
    <3> QED
      BY <2>1, <3>1, <3>2
  <2> QED
    BY <1>3, <2>1, <2>2
<1>6. ASSUME tab' = tab, left' \subseteq left PROVE StepInv'
  BY <1>2, <1>6 DEF StepInv, InPlay, StepOK
<1>7. CASE \E x \in left : LandsLater(x) \/ Drops(x)
  BY <1>6, <1>7 DEF LandsLater, Drops
<1>8. CASE \E u, v \in Users : GiveOnSolana(u, v) \/ \E t \in {ENS, BNSToken} : GiveOnEth(u, v, t)
  BY <1>6, <1>8 DEF GiveOnSolana, GiveOnEth
<1>9. CASE UNCHANGED vars
  BY <1>6, <1>9 DEF vars
<1> QED
  BY <1>4, <1>5, <1>7, <1>8, <1>9 DEF Next

\* The only transaction that crosses is an unwrapping.
LEMMA CrossesUnwraps ==
    ASSUME ChainTyped, Crosses
    PROVE  /\ bns = NFTBridge /\ ~UNCHANGED chainVars
           /\ \A x \in Step : Lands(x) => x.at = "unwrapNFT"
           /\ \A u, v \in Users : ~GiveOnSolana(u, v) /\ \A t \in {ENS, BNSToken} : ~GiveOnEth(u, v, t)
<1>1. bns = NFTBridge /\ bns' = NoOne /\ NFTBridge # NoOne /\ NoOne \notin Users
  BY BridgeAssumption DEF Crosses, bns
<1>2. ASSUME NEW x \in Step, Lands(x) PROVE x.at = "unwrapNFT"
  <2>1. x.user \in Users
    BY DEF Step
  <2>2. ~(ApproveENS(x.user) \/ ApproveBNS(x.user))
    BY <1>1, <2>1, ApproveEffect DEF bns
  <2>3. ~WrapNFT(x.user) /\ ~TransferNFT(x.user)
    BY <1>1, <2>1, WrapNFTEffect, TransferNFTEffect
  <2>4. ~CompleteTransfer(x.vaa) /\ ~CompleteWrapped(x.vaa)
    BY <1>1, CompleteTransferEffect, CompleteWrappedEffect DEF ethVars, bns
  <2>5. ~WrapDomain(x.user) /\ ~CreateNft(x.user) /\ ~RedeemNft(x.user) /\ ~TransferWrapped(x.user)
    BY <1>1 DEF WrapDomain, CreateNft, RedeemNft, TransferWrapped, ethVars, bns
  <2> QED
    BY <1>2, <2>2, <2>3, <2>4, <2>5 DEF Lands
<1>3. ~UNCHANGED chainVars
  BY <1>1 DEF chainVars, ethVars, bns
<1>4. \A u, v \in Users : ~GiveOnSolana(u, v) /\ \A t \in {ENS, BNSToken} : ~GiveOnEth(u, v, t)
  BY <1>1, GiveOnSolanaEffect, GiveOnEthEffect DEF ethVars, bns
<1> QED
  BY <1>1, <1>2, <1>3, <1>4

\* What crosses is the one transaction that the step takes out of the pages or out of
\* those left behind, and there is a newer transfer than its own.
LEMMA CrossesStep ==
    ASSUME TypeOK, StepInv, [Next]_vars, Crosses
    PROVE  \E x \in InPlay : /\ Landed = {x} /\ x.at = "unwrapNFT"
                             /\ x.vaa \in DOMAIN vaas /\ vaas[x.vaa].to = "ethereum"
                             /\ x.vaa < Len(vaas)
<1>1. ChainTyped /\ TabTyped
  BY DEF TypeOK, ChainTyped, TabTyped
<1>2. /\ bns = NFTBridge /\ ~UNCHANGED chainVars
      /\ \A x \in Step : Lands(x) => x.at = "unwrapNFT"
      /\ \A u, v \in Users : ~GiveOnSolana(u, v) /\ \A t \in {ENS, BNSToken} : ~GiveOnEth(u, v, t)
  BY <1>1, CrossesUnwraps
<1>3. \E x \in Step : x \in InPlay /\ Lands(x) /\ Landed = {x}
  <2>1. ASSUME NEW t \in Tabs, Confirms(t) \/ ConfirmsUnseen(t)
        PROVE  \E x \in Step : x \in InPlay /\ Lands(x) /\ Landed = {x}
    <3>1. /\ tab[t].at \in Transactions /\ Lands(tab[t]) /\ left' = left
          /\ GoesOn(t) \/ Stops(t)
      BY <2>1 DEF Confirms, ConfirmsUnseen
    <3>2. tab[t] # Idle
      BY <3>1, IdleNot
    <3>3. tab[t] \in Step /\ \A s \in Tabs \ {t} : tab'[s] = tab[s]
      BY <1>1, <3>1, <3>2, PageMoves, GoesOnMoves
    <3>4. tab[t].at = "unwrapNFT"
      BY <1>2, <3>1, <3>3
    <3>5. tab'[t] # tab[t]
      <4>1. After["unwrapNFT"] = "redeemed"
        BY DEF After
      <4>2. CASE Stops(t)
        BY <1>1, <3>2, <4>2, PageMoves
      <4>3. CASE GoesOn(t)
        BY <1>1, <3>1, <3>2, <3>4, <4>1, <4>3, GoesOnMoves
      <4> QED
        BY <3>1, <4>2, <4>3
    <3>6. Landed = {tab[t]}
      BY <3>1, <3>3, <3>5 DEF Landed
    <3> QED
      BY <3>1, <3>3, <3>6 DEF InPlay
  <2>2. ASSUME NEW x \in left, LandsLater(x)
        PROVE  x \in Step /\ x \in InPlay /\ Lands(x) /\ Landed = {x}
    BY <1>1, <2>2 DEF LandsLater, Landed, InPlay, TabTyped
  <2>3. \A t \in Tabs : Clicks(t) => UNCHANGED chainVars
    BY <1>1, ClicksMoves
  <2>4. \A t \in Tabs : FailsUnnoticed(t) \/ ReadName(t) \/ ReadExpiry(t) \/ Fails(t) \/ Leaves(t)
                           => UNCHANGED chainVars
    BY DEF FailsUnnoticed, ReadName, ReadExpiry, Fails, Leaves
  <2>5. \A x \in left : Drops(x) => UNCHANGED chainVars
    BY DEF Drops
  <2>6. UNCHANGED vars => UNCHANGED chainVars
    BY DEF vars
  <2> QED
    BY <1>2, <2>1, <2>2, <2>3, <2>4, <2>5, <2>6 DEF Next, Handler
<1>4. PICK x \in Step : x \in InPlay /\ Lands(x) /\ Landed = {x}
  BY <1>3
<1>5. x.at = "unwrapNFT" /\ StepOK(x)
  BY <1>2, <1>4 DEF StepInv
<1> QED
  BY <1>2, <1>4, <1>5 DEF StepOK, OwnTo, Redeemable

----------------------------------------------------------------------------
(* What the agreement of the chains means for the domain *)

LEMMA AgreeOneHolder ==
    ASSUME ChainTyped, EthInv, Agree
    PROVE  OneHolder
<1>1. /\ name \in Users \cup {NoOne, Record} /\ nft \in Users \cup {NoOne}
      /\ bns \in Users \cup {NFTBridge, BNSContract, NoOne}
  BY DEF ChainTyped, E!TypeOK, E!Ledgers, E!Accounts, S!TypeOK, name, nft, bns
<1>2. \A u \in Users : u \in S!Bearers(Domain) <=> u \in Bridged \/ name = u \/ nft = u
  BY DEF S!Bearers, S!Wallets, Bridged, name, nft
<1>3. \A u \in Users : u \in Holders <=>
         \/ ens = u \/ bns = u
         \/ \E v \in UnderWay : vaas[v].recipient = u
         \/ u \in Bridged \/ name = u \/ nft = u
  BY <1>2 DEF Holders, ens, bns
<1>4. Holders \subseteq Users
  BY DEF Holders
<1>5. Vault \in S!Wallets /\ Vault \notin Bridged => ~(units[Vault] > 0)
  BY DEF Bridged, units
<1>6. Vault \in S!Wallets
  BY DEF S!Wallets
<1>7. Vault \notin Bridged => name = NoOne /\ nft = NoOne
  BY <1>5, <1>6, BridgeAssumption DEF Agree, SolInv
<1>8. CASE bns # NFTBridge
  <2>1. Bridged = {} /\ UnderWay = {} /\ name = NoOne /\ nft = NoOne
    BY <1>7, <1>8 DEF Agree, Backed, bns
  <2>2. CASE bns = NoOne
    <3>1. ens \in Users
      BY <2>2 DEF EthInv
    <3>2. Holders = {ens}
      BY <1>3, <1>4, <2>1, <2>2, <3>1, BridgeAssumption
    <3> QED
      BY <3>1, <3>2 DEF OneHolder
  <2>3. CASE bns \in Users
    <3>1. Holders = {bns}
      BY <1>3, <1>4, <2>1, <2>3, BridgeAssumption DEF EthInv
    <3> QED
      BY <2>3, <3>1 DEF OneHolder
  <2> QED
    BY <1>1, <1>8, <2>2, <2>3 DEF EthInv
<1>9. CASE bns = NFTBridge
  <2>1. ens \notin Users /\ bns \notin Users
    BY <1>9, BridgeAssumption DEF Agree, Backed, ens, bns
  <2>2. CASE Bridged = {} /\ \E v \in UnderWay : UnderWay = {v}
    <3>1. PICK v \in UnderWay : UnderWay = {v}
      BY <2>2
    <3>2. vaas[v].recipient \in Users
      <4>1. vaas[v] \in Vaas
        BY <3>1 DEF ChainTyped, UnderWay
      <4> QED
        BY <4>1 DEF Vaas
    <3>3. name = NoOne /\ nft = NoOne
      BY <1>7, <2>2
    <3>4. Holders = {vaas[v].recipient}
      BY <1>3, <1>4, <2>1, <2>2, <3>1, <3>2, <3>3, BridgeAssumption
    <3> QED
      BY <3>2, <3>4 DEF OneHolder
  <2>3. ASSUME UnderWay = {}, NEW w \in Bridged, Bridged = {w}
        PROVE  OneHolder
    <3>1. w \in Users \cup {Vault}
      BY <2>3 DEF Bridged, S!Wallets
    <3>2. CASE w \in Users
      <4>1. name = NoOne /\ nft = NoOne
        BY <1>7, <2>3, <3>2, BridgeAssumption
      <4>2. Holders = {w}
        BY <1>3, <1>4, <2>1, <2>3, <3>2, <4>1, BridgeAssumption
      <4> QED
        BY <3>2, <4>2 DEF OneHolder
    <3>3. CASE w = Vault
      <4>1. name # NoOne
        BY <2>3, <3>3 DEF Agree, SolInv, Bridged, units
      <4>2. CASE name \in Users
        <5>1. nft = NoOne
          BY <4>2, BridgeAssumption DEF Agree, SolInv
        <5>2. Holders = {name}
          BY <1>3, <1>4, <2>1, <2>3, <3>3, <4>2, <5>1, BridgeAssumption
        <5> QED
          BY <4>2, <5>2 DEF OneHolder
      <4>3. CASE name = Record
        <5>1. nft \in Users
          BY <1>1, <4>3 DEF Agree, SolInv
        <5>2. Holders = {nft}
          BY <1>3, <1>4, <2>1, <2>3, <3>3, <4>3, <5>1, BridgeAssumption
        <5> QED
          BY <5>1, <5>2 DEF OneHolder
      <4> QED
        BY <1>1, <4>1, <4>2, <4>3
    <3> QED
      BY <3>1, <3>2, <3>3
  <2> QED
    BY <1>9, <2>2, <2>3 DEF Agree, Backed, bns
<1> QED
  BY <1>8, <1>9

LEMMA AgreeMovable ==
    ASSUME ChainTyped, EthInv, AtaInv, Agree
    PROVE  Movable
<1>1. /\ units \in [S!Wallets -> Nat] /\ Vault \in S!Wallets /\ Users \subseteq S!Wallets
      /\ \A w \in S!Wallets : w \in Bridged <=> units[w] > 0
      /\ Bridged \subseteq S!Wallets
  BY UnitsTyped DEF S!Wallets
<1>2. NoOne \notin Users /\ NFTBridge \notin Users /\ Vault \notin Users /\ BNSContract \notin Users
  BY BridgeAssumption
<1>3. ens \in Users => ~wrapped[Domain] /\ bns = NoOne
  BY <1>2 DEF EthInv
<1>4. bns \in Users => wrapped[Domain] /\ ens = BNSContract
  BY <1>2 DEF EthInv
<1>5. \A v \in UnderWay : bns = NFTBridge /\ \A w \in S!Wallets : units[w] = 0
  <2> SUFFICES ASSUME NEW v \in UnderWay PROVE bns = NFTBridge /\ \A w \in S!Wallets : units[w] = 0
    OBVIOUS
  <2>1. bns = NFTBridge /\ Bridged = {}
    BY DEF Agree, Backed, bns
  <2> QED
    BY <1>1, <2>1
<1>6. ASSUME NEW u \in Users, units[u] > 0
      PROVE  S!Ata(u, Domain) \in atas /\ name = NoOne
  <2>1. Bridged = {u}
    BY <1>1, <1>6 DEF Agree, Backed
  <2>2. ~(units[Vault] > 0)
    BY <1>1, <1>2, <2>1
  <2> QED
    BY <1>1, <1>6, <2>2 DEF Agree, SolInv, AtaInv
<1>7. ASSUME NEW u \in Users, u \in {name, nft}
      PROVE  S!Ata(Vault, Domain) \in atas /\ units[Vault] > 0
  <2>1. units[Vault] > 0
    BY <1>2, <1>7, BridgeAssumption DEF Agree, SolInv
  <2> QED
    BY <1>1, <2>1 DEF AtaInv
<1> QED
  BY <1>3, <1>4, <1>5, <1>6, <1>7
     DEF Movable, E!Minted, E!CanRelease, S!NoneMinted, ens, bns, name, nft, units

----------------------------------------------------------------------------
(* The theorems *)

BridgeInv == ChainInv /\ FirstInv /\ StepInv

LEMMA InitCorrect ==
    ASSUME Init
    PROVE  TypeOK /\ BridgeInv /\ Agree /\ left = {} /\ \A t \in Tabs : tab[t] = Idle
<1>1. E!TypeOK /\ bns = NoOne /\ ens \in Users /\ wrapped[Domain] = FALSE /\ calls = <<>>
  BY BridgeAssumption DEF Init, E!Init, E!TypeOK, E!Ledgers, E!Accounts, bns, ens
<1>2. S!TypeOK /\ (\A w \in S!Wallets : units[w] = 0) /\ name = NoOne /\ nft = NoOne
  BY DEF Init, S!Init, S!TypeOK, S!Atas, S!Wallets, units, name, nft
<1>3. /\ vaas \in Seq(Vaas) /\ vaas = <<>> /\ Len(vaas) = 0 /\ DOMAIN vaas = {}
      /\ claimed = {} /\ left = {}
  BY DEF Init
<1>4. tab \in [Tabs -> Step \cup {Idle}] /\ \A t \in Tabs : tab[t] = Idle
  BY DEF Init
<1>5. TypeOK
  BY <1>1, <1>2, <1>3, <1>4, BridgeAssumption DEF TypeOK
<1>6. Bridged = {} /\ UnderWay = {} /\ Vault \in S!Wallets /\ NFTBridge # NoOne
  BY <1>2, <1>3, BridgeAssumption DEF Bridged, units, UnderWay, S!Wallets
<1>7. EthInv /\ AtaInv /\ SolInv
  BY <1>1, <1>2, <1>6, BridgeAssumption DEF EthInv, AtaInv, SolInv
<1>8. Backed
  BY <1>1, <1>6 DEF Backed, bns
<1>9. FirstInv
  BY <1>1, <1>3, <1>6 DEF FirstInv
<1>10. StepInv
  BY <1>3, <1>4 DEF StepInv, InPlay, StepOK, Idle
<1> QED
  BY <1>3, <1>4, <1>5, <1>7, <1>8, <1>9, <1>10 DEF BridgeInv, ChainInv, Agree

LEMMA TypeOKStep ==
    ASSUME TypeOK, [Next]_vars
    PROVE  TypeOK'
<1>1. ChainTyped /\ ChainMoves /\ TabTyped'
  BY NextMoves DEF TypeOK, ChainTyped
<1>2. ChainTyped'
  BY <1>1, ChainStep
<1> QED
  BY <1>1, <1>2 DEF TypeOK, ChainTyped, TabTyped

LEMMA BridgeStep ==
    ASSUME TypeOK, BridgeInv, [Next]_vars
    PROVE  BridgeInv' /\ Keeps
<1>1. ChainTyped /\ ChainMoves
  BY NextMoves DEF TypeOK, ChainTyped
<1>2. Keeps
  BY <1>1, ChainStep DEF BridgeInv, ChainInv
<1>3. ChainInv'
  BY <1>2 DEF BridgeInv, ChainInv, Keeps
<1>4. FirstInv' /\ StepInv'
  BY <1>1, TransfersGrow, StepInvStep DEF BridgeInv
<1> QED
  BY <1>2, <1>3, <1>4 DEF BridgeInv

\* Whatever pages, lost answers and late transactions do, also after a crossing, every
\* variable of the two chains, of Wormhole and of the pages keeps its type.
THEOREM TypeCorrect == Spec => []TypeOK
<1>1. Init => TypeOK
  BY InitCorrect
<1>2. TypeOK /\ [Next]_vars => TypeOK'
  BY TypeOKStep
<1> QED
  BY <1>1, <1>2, PTL DEF Spec

\* The inductive invariant: the two chains agree or there is a surplus on the side of
\* Solana; the first transfer goes there; and what a page unwraps, it or an older
\* transfer brought back.
THEOREM BridgeCorrect == Spec => [](TypeOK /\ BridgeInv)
<1>1. Init => TypeOK /\ BridgeInv
  BY InitCorrect
<1>2. TypeOK /\ BridgeInv /\ [Next]_vars => TypeOK' /\ BridgeInv'
  BY TypeOKStep, BridgeStep
<1> QED
  BY <1>1, <1>2, PTL DEF Spec

LEMMA BackedAgrees == ASSUME BridgeInv, Backed PROVE Agree
  BY SurplusNotBacked DEF BridgeInv, ChainInv

\* As long as each BNS token with the NFT bridge stands for the domain under way or on
\* Solana, a step that Crosses ends this, and no other step does; and then there is a
\* surplus on the side of Solana, which no step takes away.
THEOREM CrossingUnbacks == Spec => BackedUntilCrossed
<1>1. TypeOK /\ BridgeInv /\ [Next]_vars => [Backed' <=> Backed /\ ~Crosses]_vars
  <2> SUFFICES ASSUME TypeOK, BridgeInv, [Next]_vars PROVE Backed' <=> Backed /\ ~Crosses
    OBVIOUS
  <2>1. Keeps
    BY BridgeStep
  <2>2. Backed /\ ~Crosses => Backed'
    BY <2>1, BackedAgrees DEF Keeps, Agree
  <2>3. Backed /\ Crosses => Surplus'
    BY <2>1, BackedAgrees DEF Keeps
  <2>4. ~Backed => Surplus'
    BY <2>1 DEF BridgeInv, ChainInv, Agree, Keeps
  <2>5. Surplus' /\ Backed' => FALSE
    BY DEF Surplus, Backed, bns, units
  <2> QED
    BY <2>2, <2>3, <2>4, <2>5
<1> QED
  BY <1>1, BridgeCorrect, PTL DEF Spec, BackedUntilCrossed

\* A behaviour in which nothing crosses keeps the chains in agreement throughout.
THEOREM BackedWithoutCrossing == Spec /\ [][~Crosses]_vars => []Backed
<1>1. Init => Backed
  BY InitCorrect DEF Agree
<1>2. Backed /\ [Backed' <=> Backed /\ ~Crosses]_vars /\ [~Crosses]_vars => Backed'
  <2>1. UNCHANGED vars => (Backed => Backed')
    BY DEF vars, chainVars, ethVars, solVars, whVars, Backed, Bridged, UnderWay
  <2> QED
    BY <2>1
<1> QED
  BY <1>1, <1>2, CrossingUnbacks, PTL DEF Spec, BackedUntilCrossed

\* While the chains agree, exactly one user has the domain, in one form.
THEOREM OneHolderWhileBacked == Spec => [](Backed => OneHolder)
<1>1. TypeOK /\ BridgeInv => (Backed => OneHolder)
  BY BackedAgrees, AgreeOneHolder DEF TypeOK, ChainTyped, BridgeInv, ChainInv
<1> QED
  BY <1>1, BridgeCorrect, PTL

\* While the chains agree, what its holder's next transaction asks for is there.
THEOREM NeverStuck == Spec => []MovableWhileBacked
<1>1. TypeOK /\ BridgeInv => MovableWhileBacked
  BY BackedAgrees, AgreeMovable DEF TypeOK, ChainTyped, BridgeInv, ChainInv, MovableWhileBacked
<1> QED
  BY <1>1, BridgeCorrect, PTL

\* The transaction that crosses is an unwrapping, and the transfer that its page redeems
\* is older than the newest one.
THEOREM CrossingNeedsNewer == Spec => CrossesOnlyNewer
<1>1. TypeOK /\ BridgeInv /\ [Next]_vars =>
         [Crosses => \E x \in Landed :
            /\ Landed = {x} /\ x.at = "unwrapNFT"
            /\ vaas[x.vaa].to = "ethereum" /\ x.vaa < Len(vaas)]_vars
  BY CrossesStep DEF BridgeInv
<1> QED
  BY <1>1, BridgeCorrect, PTL DEF Spec, CrossesOnlyNewer

\* With at most two transfers nothing crosses, however many pages are open and
\* whatever is left behind: the first goes to Solana, and the second is the newest.
THEOREM TwoTransfersNeverCross ==
    ASSUME MaxVaas <= 2
    PROVE  Spec => [][~Crosses]_vars
<1>1. TypeOK /\ BridgeInv /\ [Next]_vars => [~Crosses]_vars
  <2> SUFFICES ASSUME TypeOK, BridgeInv, [Next]_vars, Crosses PROVE FALSE
    OBVIOUS
  <2>1. PICK v \in DOMAIN vaas : vaas[v].to = "ethereum" /\ v < Len(vaas)
    BY CrossesStep DEF BridgeInv
  <2>2. vaas # <<>> /\ v = 1
    BY <2>1, BridgeAssumption DEF TypeOK
  <2> QED
    BY <2>1, <2>2 DEF BridgeInv, FirstInv
<1> QED
  BY <1>1, BridgeCorrect, PTL DEF Spec

\* So the domain is in one place, backed by its ENS token, and has one holder.
THEOREM TwoTransfers ==
    ASSUME MaxVaas <= 2
    PROVE  Spec => [](Backed /\ OneHolder)
  BY TwoTransfersNeverCross, BackedWithoutCrossing, OneHolderWhileBacked, PTL

----------------------------------------------------------------------------
(* One page, of which nothing outlives a transaction *)

OnePage == MaxLeft = 0 /\ \E t : Tabs = {t}

\* A page that is about to unwrap has seen the BNS token outside the NFT bridge, and
\* it stays outside.
PageInv == left = {} /\ \A t \in Tabs : At(t, "unwrapNFT") => bns # NFTBridge

LEMMA PageStep ==
    ASSUME OnePage, TypeOK, BridgeInv, PageInv, [Next]_vars
    PROVE  PageInv' /\ ~Crosses
<1>1. ChainTyped /\ TabTyped /\ ChainMoves /\ StepInv
  BY NextMoves DEF TypeOK, ChainTyped, TabTyped, BridgeInv
<1>2. ~Crosses
  BY <1>1, CrossesStep, CrossesUnwraps DEF PageInv, InPlay, At
<1>3. ASSUME NEW t \in Tabs, Clicks(t) PROVE PageInv'
  <2>1. /\ UNCHANGED <<chainVars, left>>
        /\ tab'[t].at = "unwrapNFT" => bns # NFTBridge
    BY <1>1, <1>3, ClicksMoves
  <2>2. bns' = bns
    BY <2>1 DEF chainVars, ethVars, bns
  <2> QED
    BY <2>1, <2>2 DEF OnePage, PageInv, At
<1>4. ASSUME NEW t \in Tabs, Handler(t) PROVE PageInv'
  <2>1. /\ left' = left
        /\ tab'[t].at = "unwrapNFT" => CompleteTransfer(tab[t].vaa)
    BY <1>1, <1>4, HandlerMoves DEF OnePage
  <2>2. tab'[t].at = "unwrapNFT" => bns' # NFTBridge
    BY <1>1, <2>1, CompleteTransferEffect, BridgeAssumption
  <2> QED
    BY <2>1, <2>2 DEF OnePage, PageInv, At
<1>5. ASSUME NEW u \in Users, NEW v \in Users,
             GiveOnSolana(u, v) \/ \E t \in {ENS, BNSToken} : GiveOnEth(u, v, t)
      PROVE  PageInv'
  <2>1. UNCHANGED <<tab, left>>
    BY <1>5 DEF GiveOnSolana, GiveOnEth
  <2>2. bns' = NFTBridge => bns = NFTBridge
    BY <1>1, <1>5, GiveOnSolanaEffect, GiveOnEthEffect, BridgeAssumption DEF ethVars, bns
  <2> QED
    BY <2>1, <2>2 DEF PageInv, At
<1>6. CASE UNCHANGED vars
  BY <1>2, <1>6 DEF vars, chainVars, ethVars, PageInv, At, bns
<1> QED
  BY <1>2, <1>3, <1>4, <1>5, <1>6 DEF Next, PageInv

\* With one page, and none left behind, nothing crosses.
THEOREM OnePageNeverCrosses ==
    ASSUME OnePage
    PROVE  Spec => [][~Crosses]_vars
<1>1. Init => PageInv
  BY InitCorrect DEF PageInv, At, Idle
<1>2. TypeOK /\ BridgeInv /\ PageInv /\ [Next]_vars => PageInv' /\ [~Crosses]_vars
  BY PageStep
<1> QED
  BY <1>1, <1>2, BridgeCorrect, PTL DEF Spec

\* So the domain is on one chain, once, and backed by its ENS token: whatever fails
\* between the transactions of both handlers, and after any number of transfers.
THEOREM BackedOnePage ==
    ASSUME OnePage
    PROVE  Spec => []Backed
  BY OnePageNeverCrosses, BackedWithoutCrossing, PTL

\* And it has exactly one holder.
THEOREM OneHolderOnePage ==
    ASSUME OnePage
    PROVE  Spec => []OneHolder
  BY BackedOnePage, OneHolderWhileBacked, PTL
=============================================================================
