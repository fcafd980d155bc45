---------------------- MODULE BridgeNameService_proofs ----------------------
(***************************************************************************)
(* Proofs about BridgeNameService, for any set of names, mints, wallets    *)
(* and top-level domains.                                                  *)
(***************************************************************************)
EXTENDS BridgeNameService, FiniteSetTheorems, TLAPS

----------------------------------------------------------------------------
(* Types *)

\* What buying or extending k.t leaves: a later expiry, which may be another owner's.
LEMMA Bought ==
    ASSUME TypeOK, NEW u \in Users, NEW t \in Tlds, NEW k \in Names, BuyOrExtendRenewable(u, t, k)
    PROVE  /\ \/ nameOwner'[t][k] = u /\ ansNft'[t][k] = NoOne
              \/ /\ nameOwner[t][k] # NoOne /\ nameOwner'[t][k] = nameOwner[t][k]
                 /\ ansNft'[t][k] \in {ansNft[t][k], NoOne}
           /\ \A s \in Tlds, x \in Names : s # t \/ x # k =>
                 nameOwner'[s][x] = nameOwner[s][x] /\ ansNft'[s][x] = ansNft[s][x]
<1> DEFINE Nothing == [ansNft EXCEPT ![t][k] = NoOne]
<1>1. /\ Nothing[t][k] = NoOne
      /\ \A s \in Tlds, x \in Names : s # t \/ x # k => Nothing[s][x] = ansNft[s][x]
  BY DEF TypeOK
<1>2. CASE nameOwner' = [nameOwner EXCEPT ![t][k] = u] /\ ansNft' = Nothing
  <2>1. /\ nameOwner'[t][k] = u
        /\ \A s \in Tlds, x \in Names : s # t \/ x # k => nameOwner'[s][x] = nameOwner[s][x]
    BY <1>2 DEF TypeOK
  <2> QED
    BY <1>1, <1>2, <2>1
<1>3. CASE nameOwner[t][k] # NoOne /\ ansNft' \in {ansNft, Nothing} /\ nameOwner' = nameOwner
  BY <1>1, <1>3
<1> QED
  BY <1>2, <1>3 DEF BuyOrExtendRenewable

LEMMA BoughtTyped ==
    ASSUME TypeOK, NEW u \in Users, NEW t \in Tlds, NEW k \in Names, BuyOrExtendRenewable(u, t, k)
    PROVE  /\ nameOwner' \in [Tlds -> [Names -> Users \cup {NoOne, Record}]]
           /\ ansNft' \in [Tlds -> [Names -> Users \cup {NoOne}]]
<1>1. /\ [nameOwner EXCEPT ![t][k] = u] \in [Tlds -> [Names -> Users \cup {NoOne, Record}]]
      /\ [ansNft EXCEPT ![t][k] = NoOne] \in [Tlds -> [Names -> Users \cup {NoOne}]]
  BY DEF TypeOK
<1> QED
  BY <1>1 DEF BuyOrExtendRenewable, TypeOK

\* Every step keeps balances natural numbers and owners wallets: a transfer
\* never takes from an empty account (wrap_domain.rs:255, redeem_domain.rs:195).
THEOREM TypeCorrect == Spec => []TypeOK
<1> USE WalletsAssumption, MintsAssumption, FiniteAssumption
<1>1. Init => TypeOK
  BY DEF Init, TypeOK, Wallets
<1>2. TypeOK /\ [Next]_vars => TypeOK'
  <2> SUFFICES ASSUME TypeOK, [Next]_vars PROVE TypeOK'
    OBVIOUS
  <2>1. ASSUME NEW u \in Users, NEW n \in Names, NEW k \in Names, NEW t \in Tlds,
               NEW m \in Mints, NEW a \in Atas, NEW b \in Atas,
               handle_domain_wrapping(u, n, k, t, m, a, b),
               loose' = loose \cup ({k} \ {n}), UNCHANGED sold
        PROVE  TypeOK'
    <3>1. amount' \in [Mints -> [Wallets -> Nat]]
      BY <2>1 DEF handle_domain_wrapping, CheckedOrCreated, assert_is_ata_enhanced,
                  MoveOne, Ata, Atas, Wallets, TypeOK
    <3>2. /\ nameOwner' \in [Tlds -> [Names -> Users \cup {NoOne, Record}]]
          /\ ansNft' \in [Tlds -> [Names -> Users \cup {NoOne}]]
      BY <2>1, BoughtTyped DEF handle_domain_wrapping
    <3> QED
      BY <2>1, <3>1, <3>2 DEF handle_domain_wrapping, CheckedOrCreated, TypeOK
  <2>2. ASSUME NEW u \in Users, NEW n \in Names, NEW k \in Names, NEW t \in Tlds,
               NEW m \in Mints, NEW a \in Atas, NEW b \in Atas,
               handle_domain_redeeming(u, n, k, t, m, a, b),
               loose' = loose \cup ({n} \ {k}), UNCHANGED sold
        PROVE  TypeOK'
    <3>1. amount' \in [Mints -> [Wallets -> Nat]]
      BY <2>2 DEF handle_domain_redeeming, CheckedOrCreated, assert_is_ata_enhanced,
                  MoveOne, Ata, Atas, Wallets, TypeOK
    <3>2. nameOwner' \in [Tlds -> [Names -> Users \cup {NoOne, Record}]]
      BY <2>2 DEF handle_domain_redeeming, DeleteRenewable, TypeOK
    <3> QED
      BY <2>2, <3>1, <3>2 DEF handle_domain_redeeming, CheckedOrCreated, TypeOK
  <2>3. ASSUME NEW u \in Users, NEW m \in Mints, CompleteWrapped(u, m),
               UNCHANGED <<loose, sold>>
        PROVE  TypeOK'
    <3>1. amount[m] \in [Wallets -> Nat] /\ u \in Wallets
      BY DEF TypeOK, Wallets
    <3>2. [amount[m] EXCEPT ![u] = @ + 1] \in [Wallets -> Nat]
      BY <3>1
    <3> QED
      BY <2>3, <3>1, <3>2 DEF CompleteWrapped, Ata, Atas, TypeOK
  <2>4. ASSUME NEW u \in Users, NEW m \in Mints, TransferWrapped(u, m),
               UNCHANGED <<loose, sold>>
        PROVE  TypeOK'
    <3>1. amount[m] \in [Wallets -> Nat] /\ u \in Wallets /\ amount[m][u] > 0
      BY <2>4 DEF TransferWrapped, TypeOK, Wallets
    <3>2. [amount[m] EXCEPT ![u] = @ - 1] \in [Wallets -> Nat]
      BY <3>1
    <3> QED
      BY <2>4, <3>2 DEF TransferWrapped, TypeOK
  <2>5. ASSUME NEW u \in Users, NEW m \in Mints, CloseAta(u, m),
               UNCHANGED <<loose, sold>>
        PROVE  TypeOK'
    BY <2>5 DEF CloseAta, TypeOK
  <2>6. ASSUME NEW u \in Users, NEW w \in Wallets, NEW m \in Mints, SplTransfer(u, w, m),
               UNCHANGED <<loose, sold>>
        PROVE  TypeOK'
    <3>1. amount' \in [Mints -> [Wallets -> Nat]]
      BY <2>6 DEF SplTransfer, MoveOne, Ata, Wallets, TypeOK
    <3>2. atas' \subseteq Atas
      BY <2>6 DEF SplTransfer, Ata, Atas, TypeOK
    <3> QED
      BY <2>6, <3>1, <3>2 DEF SplTransfer, TypeOK
  <2>7. CASE NameService
    <3> PICK u \in Users, t \in Tlds, n \in Names :
          \/ BuyName(u, t, n)
          \/ /\ \/ CreateAnsNft(u, t, n)
                \/ RedeemRenewableNft(u, t, n)
                \/ \E v \in Users : TransferName(u, v, t, n) \/ TransferAnsNft(u, v, t, n)
             /\ UNCHANGED <<loose, sold>>
      BY <2>7 DEF NameService
    <3>1. CASE BuyName(u, t, n)
      <4>1. /\ nameOwner' \in [Tlds -> [Names -> Users \cup {NoOne, Record}]]
            /\ ansNft' \in [Tlds -> [Names -> Users \cup {NoOne}]]
        BY <3>1, BoughtTyped DEF BuyName
      <4>2. sold' \in 0..MaxSold
        BY <3>1 DEF BuyName, TypeOK
      <4> QED
        BY <3>1, <4>1, <4>2 DEF BuyName, TypeOK
    <3>2. CASE CreateAnsNft(u, t, n) /\ UNCHANGED <<loose, sold>>
      BY <3>2 DEF CreateAnsNft, TypeOK
    <3>3. CASE RedeemRenewableNft(u, t, n) /\ UNCHANGED <<loose, sold>>
      BY <3>3 DEF RedeemRenewableNft, TypeOK
    <3>4. ASSUME NEW v \in Users, TransferName(u, v, t, n), UNCHANGED <<loose, sold>> PROVE TypeOK'
      BY <3>4 DEF TransferName, TypeOK
    <3>5. ASSUME NEW v \in Users, TransferAnsNft(u, v, t, n), UNCHANGED <<loose, sold>> PROVE TypeOK'
      BY <3>5 DEF TransferAnsNft, TypeOK
    <3> QED
      BY <3>1, <3>2, <3>3, <3>4, <3>5
  <2>8. CASE UNCHANGED vars
    BY <2>8 DEF vars, TypeOK
  <2> QED
    BY <2>1, <2>2, <2>3, <2>4, <2>5, <2>6, <2>7, <2>8 DEF Next, Program, Tokens
<1> QED
  BY <1>1, <1>2, PTL DEF Spec

----------------------------------------------------------------------------
(* The bridged NFT *)

\* What a transfer of the one unit of m from u to w leaves.
LEMMA Moved ==
    ASSUME TypeOK, OneUnit, NEW u \in Wallets, NEW w \in Wallets, NEW m \in Mints,
           u # w, MoveOne(Ata(u, m), Ata(w, m))
    PROVE  /\ amount[m][u] = 1
           /\ amount'[m][w] = 1
           /\ \A x \in Wallets \ {w} : amount'[m][x] = 0
           /\ \A k \in Mints \ {m} : amount'[k] = amount[k]
<1>1. amount[m][u] = 1 /\ \A x \in Wallets \ {u} : amount[m][x] = 0
  BY DEF MoveOne, Ata, OneUnit
<1>2. amount' = [amount EXCEPT ![m] =
                   [x \in Wallets |->
                      @[x] - (IF x = u THEN 1 ELSE 0) + (IF x = w THEN 1 ELSE 0)]]
  BY DEF MoveOne, Ata
<1>3. m \in DOMAIN amount
  BY DEF TypeOK
<1>4. \A x \in Wallets :
         amount'[m][x] = amount[m][x] - (IF x = u THEN 1 ELSE 0) + (IF x = w THEN 1 ELSE 0)
  BY <1>2, <1>3
<1>5. \A k \in Mints \ {m} : amount'[k] = amount[k]
  BY <1>2 DEF TypeOK
<1>6. amount'[m][w] = 1 /\ \A x \in Wallets \ {w} : amount'[m][x] = 0
  BY <1>1, <1>4
<1> QED
  BY <1>1, <1>5, <1>6

\* The accounts that the two instructions move the NFT between.
LEMMA WrapMoves ==
    ASSUME NEW u \in Users, NEW n \in Names, NEW k \in Names, NEW t \in Tlds, NEW m \in Mints,
           NEW a \in Atas, NEW b \in Atas, handle_domain_wrapping(u, n, k, t, m, a, b)
    PROVE  /\ m = MintOf[n]
           /\ MoveOne(Ata(u, m), Ata(Vault, m))
           /\ atas' = atas \cup {Ata(Vault, m)}
           /\ BuyOrExtendRenewable(u, t, k)
  BY DEF handle_domain_wrapping, check_wormhole_mint_account, CheckedOrCreated,
         assert_is_ata_enhanced

LEMMA RedeemMoves ==
    ASSUME NEW u \in Users, NEW n \in Names, NEW k \in Names, NEW t \in Tlds, NEW m \in Mints,
           NEW a \in Atas, NEW b \in Atas, handle_domain_redeeming(u, n, k, t, m, a, b)
    PROVE  /\ m = MintOf[n]
           /\ nameOwner[t][k] = u
           /\ MoveOne(Ata(Vault, m), Ata(u, m))
           /\ atas' = atas \cup {Ata(u, m)}
           /\ nameOwner' = [nameOwner EXCEPT ![t][k] = NoOne]
           /\ ansNft' = ansNft
  BY DEF handle_domain_redeeming, check_wormhole_mint_account, CheckedOrCreated,
         assert_is_ata_enhanced, DeleteRenewable

\* A transfer into an initialised account keeps the NFT in one account.
LEMMA MovedOneUnit ==
    ASSUME TypeOK, OneUnit, NEW u \in Wallets, NEW w \in Wallets, NEW m \in Mints,
           u # w, MoveOne(Ata(u, m), Ata(w, m)), atas' = atas \cup {Ata(w, m)}
    PROVE  OneUnit'
<1> SUFFICES ASSUME NEW k \in Mints, NEW x \in Wallets, amount'[k][x] > 0
             PROVE  /\ amount'[k][x] = 1
                    /\ Ata(x, k) \in atas'
                    /\ \A y \in Wallets \ {x} : amount'[k][y] = 0
  BY DEF OneUnit, Ata
<1>1. CASE k = m
  <2>1. x = w
    BY <1>1, Moved
  <2> QED
    BY <1>1, <2>1, Moved
<1>2. CASE k # m
  <2>1. amount'[k] = amount[k]
    BY <1>2, Moved
  <2> QED
    BY <2>1 DEF OneUnit
<1> QED
  BY <1>1, <1>2

\* A bridged NFT is in one initialised account, through every branch of the
\* account creation (wrap_domain.rs:227-254, redeem_domain.rs:166-192).
THEOREM OneUnitAlways == Spec => []OneUnit
<1> USE WalletsAssumption, MintsAssumption, FiniteAssumption
<1>1. Init => OneUnit
  BY DEF Init, OneUnit
<1>2. TypeOK /\ OneUnit /\ [Next]_vars => OneUnit'
  <2> SUFFICES ASSUME TypeOK, OneUnit, [Next]_vars PROVE OneUnit'
    OBVIOUS
  <2> USE DEF Wallets
  <2>1. ASSUME NEW u \in Users, NEW n \in Names, NEW k \in Names, NEW t \in Tlds,
               NEW m \in Mints, NEW a \in Atas, NEW b \in Atas,
               handle_domain_wrapping(u, n, k, t, m, a, b)
        PROVE  OneUnit'
    BY <2>1, WrapMoves, MovedOneUnit
  <2>2. ASSUME NEW u \in Users, NEW n \in Names, NEW k \in Names, NEW t \in Tlds,
               NEW m \in Mints, NEW a \in Atas, NEW b \in Atas,
               handle_domain_redeeming(u, n, k, t, m, a, b)
        PROVE  OneUnit'
    BY <2>2, RedeemMoves, MovedOneUnit
  <2>3. ASSUME NEW u \in Users, NEW m \in Mints, NoneMinted(m), CompleteWrapped(u, m)
        PROVE  OneUnit'
    BY <2>3 DEF CompleteWrapped, NoneMinted, Ata, TypeOK, OneUnit
  <2>4. ASSUME NEW u \in Users, NEW m \in Mints, TransferWrapped(u, m)
        PROVE  OneUnit'
    BY <2>4 DEF TransferWrapped, TypeOK, OneUnit
  <2>5. ASSUME NEW u \in Users, NEW m \in Mints, CloseAta(u, m)
        PROVE  OneUnit'
    BY <2>5 DEF CloseAta, Ata, TypeOK, OneUnit
  <2>6. ASSUME NEW u \in Users, NEW w \in Wallets, NEW m \in Mints, SplTransfer(u, w, m)
        PROVE  OneUnit'
    BY <2>6, MovedOneUnit DEF SplTransfer
  <2>7. CASE NameService
    BY <2>7 DEF NameService, BuyName, CreateAnsNft, RedeemRenewableNft, TransferName,
                TransferAnsNft, OneUnit
  <2>8. CASE UNCHANGED vars
    BY <2>8 DEF vars, OneUnit
  <2> QED
    BY <2>1, <2>2, <2>3, <2>4, <2>5, <2>6, <2>7, <2>8 DEF Next, Program, Tokens
<1> QED
  BY <1>1, <1>2, TypeCorrect, PTL DEF Spec

----------------------------------------------------------------------------
(* What the vault gives *)

\* A transfer between two accounts of one mint, whatever they hold.
LEMMA MovedAmounts ==
    ASSUME TypeOK, NEW u \in Wallets, NEW w \in Wallets, NEW m \in Mints,
           u # w, MoveOne(Ata(u, m), Ata(w, m))
    PROVE  /\ amount'[m][w] = amount[m][w] + 1
           /\ \A x \in Wallets \ {u, w} : amount'[m][x] = amount[m][x]
           /\ \A j \in Mints \ {m} : amount'[j] = amount[j]
<1>1. amount' = [amount EXCEPT ![m] =
                   [x \in Wallets |->
                      @[x] - (IF x = u THEN 1 ELSE 0) + (IF x = w THEN 1 ELSE 0)]]
  BY DEF MoveOne, Ata
<1>2. m \in DOMAIN amount /\ amount[m] \in [Wallets -> Nat]
  BY DEF TypeOK
<1>3. \A x \in Wallets :
         amount'[m][x] = amount[m][x] - (IF x = u THEN 1 ELSE 0) + (IF x = w THEN 1 ELSE 0)
  BY <1>1, <1>2
<1>4. \A j \in Mints \ {m} : amount'[j] = amount[j]
  BY <1>1 DEF TypeOK
<1>5. amount'[m][w] = amount[m][w] + 1
  BY <1>2, <1>3
<1>6. \A x \in Wallets \ {u, w} : amount'[m][x] = amount[m][x]
  BY <1>2, <1>3
<1> QED
  BY <1>4, <1>5, <1>6

LEMMA MovedPair ==
    ASSUME TypeOK, NEW u \in Wallets, NEW w \in Wallets, NEW m \in Mints,
           u # w, MoveOne(Ata(u, m), Ata(w, m))
    PROVE  amount' = [amount EXCEPT ![m][u] = @ - 1, ![m][w] = @ + 1]
<1> DEFINE one == [x \in Wallets |->
                     amount[m][x] - (IF x = u THEN 1 ELSE 0) + (IF x = w THEN 1 ELSE 0)]
           two == [amount[m] EXCEPT ![u] = @ - 1, ![w] = @ + 1]
<1>1. amount \in [Mints -> [Wallets -> Nat]] /\ amount[m] \in [Wallets -> Nat]
  BY DEF TypeOK
<1>2. amount' = [amount EXCEPT ![m] = one]
  BY <1>1 DEF MoveOne, Ata
<1>3. ASSUME NEW x \in Wallets PROVE one[x] = two[x]
  BY <1>1
<1>4. one = two
  BY <1>1, <1>3
<1>5. [amount EXCEPT ![m] = two] = [amount EXCEPT ![m][u] = @ - 1, ![m][w] = @ + 1]
  BY <1>1
<1> QED
  BY <1>2, <1>4, <1>5

\* The vault gives an NFT only to a wallet that deletes a name of its own for it, one name
\* for one NFT, whatever label, account and TLD it gives (redeem_domain.rs:110-211).
THEOREM NameReleasesAlways == Spec => NameReleases
<1> USE WalletsAssumption, MintsAssumption, FiniteAssumption
<1>1. ASSUME TypeOK, [Next]_vars, NEW v \in Mints, amount'[v][Vault] < amount[v][Vault]
      PROVE  \E u \in Users, t \in Tlds, k \in Names : ReleasedFor(u, v, t, k)
  <2> USE DEF Wallets
  <2>1. amount[v][Vault] \in Nat
    BY <1>1 DEF TypeOK
  <2>2. amount' # amount
    BY <1>1, <2>1
  <2>3. ASSUME NEW u \in Users, NEW n \in Names, NEW k \in Names, NEW t \in Tlds,
               NEW m \in Mints, NEW a \in Atas, NEW b \in Atas,
               handle_domain_wrapping(u, n, k, t, m, a, b)
        PROVE  FALSE
    <3>1. u # Vault /\ MoveOne(Ata(u, m), Ata(Vault, m))
      BY <2>3, WrapMoves
    <3>2. /\ amount'[m][Vault] = amount[m][Vault] + 1
          /\ \A j \in Mints \ {m} : amount'[j] = amount[j]
      BY <1>1, <3>1, MovedAmounts
    <3> QED
      BY <1>1, <2>1, <3>2
  <2>4. ASSUME NEW u \in Users, NEW n \in Names, NEW k \in Names, NEW t \in Tlds,
               NEW m \in Mints, NEW a \in Atas, NEW b \in Atas,
               handle_domain_redeeming(u, n, k, t, m, a, b)
        PROVE  ReleasedFor(u, v, t, k)
    <3>1. /\ u # Vault /\ MoveOne(Ata(Vault, m), Ata(u, m))
          /\ nameOwner[t][k] = u /\ nameOwner' = [nameOwner EXCEPT ![t][k] = NoOne]
      BY <2>4, RedeemMoves
    <3>2. amount' = [amount EXCEPT ![m][Vault] = @ - 1, ![m][u] = @ + 1]
      BY <1>1, <3>1, MovedPair
    <3>4. \A j \in Mints \ {m} : amount'[j] = amount[j]
      BY <1>1, <3>1, MovedAmounts
    <3>3. m = v
      BY <1>1, <2>1, <3>4
    <3> QED
      BY <3>1, <3>2, <3>3 DEF ReleasedFor
  <2>5. ASSUME NEW u \in Users, NEW m \in Mints, CompleteWrapped(u, m) PROVE FALSE
    BY <1>1, <2>1, <2>5 DEF CompleteWrapped, TypeOK
  <2>6. ASSUME NEW u \in Users, NEW m \in Mints, TransferWrapped(u, m) PROVE FALSE
    BY <1>1, <2>1, <2>6 DEF TransferWrapped, TypeOK
  <2>7. ASSUME NEW u \in Users, NEW m \in Mints, CloseAta(u, m) PROVE FALSE
    BY <2>2, <2>7 DEF CloseAta
  <2>8. ASSUME NEW u \in Users, NEW w \in Wallets, NEW m \in Mints, SplTransfer(u, w, m)
        PROVE  FALSE
    <3>1. w # u /\ MoveOne(Ata(u, m), Ata(w, m))
      BY <2>8 DEF SplTransfer
    <3>2. /\ amount'[m][w] = amount[m][w] + 1
          /\ \A x \in Wallets \ {u, w} : amount'[m][x] = amount[m][x]
          /\ \A j \in Mints \ {m} : amount'[j] = amount[j]
      BY <1>1, <3>1, MovedAmounts
    <3> QED
      BY <1>1, <2>1, <3>2
  <2>9. CASE NameService
    BY <2>2, <2>9 DEF NameService, BuyName, CreateAnsNft, RedeemRenewableNft,
                      TransferName, TransferAnsNft
  <2>10. CASE UNCHANGED vars
    BY <2>2, <2>10 DEF vars
  <2> QED
    BY <1>1, <2>3, <2>4, <2>5, <2>6, <2>7, <2>8, <2>9, <2>10 DEF Next, Program, Tokens
<1>2. TypeOK /\ [Next]_vars =>
        [\A m \in Mints :
           amount'[m][Vault] < amount[m][Vault] =>
             \E u \in Users, t \in Tlds, k \in Names : ReleasedFor(u, m, t, k)]_vars
  BY <1>1
<1> QED
  BY <1>2, TypeCorrect, PTL DEF Spec, NameReleases

----------------------------------------------------------------------------
(* As many NFTs as names *)

\* An ANS NFT stands only for a name that its record owns. A record may be left without
\* one: the name's expiry moved on.
HeldByRecord ==
    \A t \in Tlds, n \in Names : ansNft[t][n] # NoOne => nameOwner[t][n] = Record

LEMMA HeldStep == TypeOK /\ HeldByRecord /\ [Next]_vars => HeldByRecord'
<1> USE WalletsAssumption
<1> SUFFICES ASSUME TypeOK, HeldByRecord, [Next]_vars PROVE HeldByRecord'
  OBVIOUS
<1>1. ASSUME NEW u \in Users, NEW t \in Tlds, NEW k \in Names, BuyOrExtendRenewable(u, t, k)
      PROVE  HeldByRecord'
  <2> SUFFICES ASSUME NEW s \in Tlds, NEW x \in Names, ansNft'[s][x] # NoOne
               PROVE  nameOwner'[s][x] = Record
    BY DEF HeldByRecord
  <2>1. CASE s = t /\ x = k
    BY <1>1, <2>1, Bought DEF HeldByRecord
  <2>2. CASE s # t \/ x # k
    BY <1>1, <2>2, Bought DEF HeldByRecord
  <2> QED
    BY <2>1, <2>2
<1>2. ASSUME NEW u \in Users, NEW n \in Names, NEW k \in Names, NEW t \in Tlds,
             NEW m \in Mints, NEW a \in Atas, NEW b \in Atas,
             handle_domain_redeeming(u, n, k, t, m, a, b)
      PROVE  HeldByRecord'
  <2>1. nameOwner[t][k] = u /\ ansNft' = ansNft /\ nameOwner' = [nameOwner EXCEPT ![t][k] = NoOne]
    BY <1>2, RedeemMoves
  <2> QED
    BY <2>1 DEF HeldByRecord, TypeOK
<1>3. CASE Program
  BY <1>1, <1>2, <1>3, WrapMoves DEF Program
<1>4. CASE Tokens
  BY <1>4 DEF Tokens, CompleteWrapped, TransferWrapped, CloseAta, SplTransfer, HeldByRecord
<1>5. CASE NameService
  <2> PICK u \in Users, t \in Tlds, n \in Names :
        \/ BuyName(u, t, n)
        \/ CreateAnsNft(u, t, n)
        \/ RedeemRenewableNft(u, t, n)
        \/ \E v \in Users : TransferName(u, v, t, n) \/ TransferAnsNft(u, v, t, n)
    BY <1>5 DEF NameService
  <2>1. CASE BuyName(u, t, n)
    BY <1>1, <2>1 DEF BuyName
  <2>2. CASE CreateAnsNft(u, t, n)
    BY <2>2 DEF CreateAnsNft, HeldByRecord, TypeOK
  <2>3. CASE RedeemRenewableNft(u, t, n)
    BY <2>3 DEF RedeemRenewableNft, HeldByRecord, TypeOK
  <2>4. ASSUME NEW v \in Users, TransferName(u, v, t, n) PROVE HeldByRecord'
    BY <2>4 DEF TransferName, HeldByRecord, TypeOK
  <2>5. ASSUME NEW v \in Users, TransferAnsNft(u, v, t, n) PROVE HeldByRecord'
    BY <2>5 DEF TransferAnsNft, HeldByRecord, TypeOK
  <2> QED
    BY <2>1, <2>2, <2>3, <2>4, <2>5
<1>6. CASE UNCHANGED vars
  BY <1>6 DEF vars, HeldByRecord
<1> QED
  BY <1>3, <1>4, <1>5, <1>6 DEF Next

LEMMA Countable ==
    /\ IsFiniteSet(Existing) /\ Cardinality(Existing) \in Nat
    /\ IsFiniteSet(InVault) /\ Cardinality(InVault) \in Nat
<1>1. IsFiniteSet(Tlds \X Names)
  BY FiniteAssumption, FS_Product
<1> QED
  BY <1>1, FiniteAssumption, FS_Subset, FS_CardinalityType DEF Existing, InVault

LEMMA CountableNext ==
    /\ IsFiniteSet(Existing') /\ Cardinality(Existing') \in Nat
    /\ IsFiniteSet(InVault') /\ Cardinality(InVault') \in Nat
<1>1. IsFiniteSet(Tlds \X Names)
  BY FiniteAssumption, FS_Product
<1> QED
  BY <1>1, FiniteAssumption, FS_Subset, FS_CardinalityType DEF Existing, InVault

LEMMA AtMostOneMore ==
    ASSUME NEW A, NEW B, NEW x, IsFiniteSet(A), B \subseteq A \cup {x}
    PROVE  Cardinality(B) <= Cardinality(A) + 1
<1> DEFINE C == A \cup {x}
<1>1. Cardinality(A) \in Nat
  BY FS_CardinalityType
<1>2. IsFiniteSet(C) /\ Cardinality(C) = IF x \in A THEN Cardinality(A) ELSE Cardinality(A) + 1
  BY FS_AddElement, Zenon
<1>3. IsFiniteSet(B) /\ Cardinality(B) <= Cardinality(C)
  BY <1>2, FS_Subset
<1>4. Cardinality(B) \in Nat /\ Cardinality(C) \in Nat
  BY <1>2, <1>3, FS_CardinalityType
<1> HIDE DEF C
<1> QED
  BY <1>1, <1>2, <1>3, <1>4

\* The two instructions of the program change both counts alike.
LEMMA ProgramCovers ==
    ASSUME TypeOK, OneUnit, Covered, Program
    PROVE  Covered'
<1> USE WalletsAssumption, MintsAssumption, FiniteAssumption DEF Wallets
<1>1. ASSUME NEW u \in Users, NEW n \in Names, NEW k \in Names, NEW t \in Tlds,
             NEW m \in Mints, NEW a \in Atas, NEW b \in Atas,
             handle_domain_wrapping(u, n, k, t, m, a, b), sold' = sold
      PROVE  Covered'
  <2>1. /\ amount[m][Vault] = 0 /\ amount'[m][Vault] = 1
        /\ \A j \in Mints \ {m} : amount'[j] = amount[j]
    <3>1. u # Vault /\ MoveOne(Ata(u, m), Ata(Vault, m))
      BY <1>1, WrapMoves
    <3>2. amount[m][u] = 1
      BY <3>1, Moved
    <3> QED
      BY <3>1, <3>2, Moved DEF OneUnit
  <2>2. InVault' = InVault \cup {m} /\ m \notin InVault
    BY <2>1 DEF InVault
  <2>3. Existing' \subseteq Existing \cup {<<t, k>>}
    BY <1>1, WrapMoves, Bought DEF Existing
  <2>4. Cardinality(Existing') <= Cardinality(Existing) + 1
    BY <2>3, Countable, AtMostOneMore
  <2>5. Cardinality(InVault') = Cardinality(InVault) + 1
    BY <2>2, Countable, FS_AddElement
  <2> QED
    BY <1>1, <2>4, <2>5, Countable, CountableNext DEF Covered, TypeOK
<1>2. ASSUME NEW u \in Users, NEW n \in Names, NEW k \in Names, NEW t \in Tlds,
             NEW m \in Mints, NEW a \in Atas, NEW b \in Atas,
             handle_domain_redeeming(u, n, k, t, m, a, b), sold' = sold
      PROVE  Covered'
  <2>1. /\ amount[m][Vault] = 1 /\ amount'[m][Vault] = 0
        /\ \A j \in Mints \ {m} : amount'[j] = amount[j]
    <3>1. u # Vault /\ MoveOne(Ata(Vault, m), Ata(u, m))
      BY <1>2, RedeemMoves
    <3> QED
      BY <3>1, Moved
  <2>2. InVault' = InVault \ {m} /\ m \in InVault
    BY <2>1 DEF InVault
  <2>3. Existing' = Existing \ {<<t, k>>} /\ <<t, k>> \in Existing
    <3>1. nameOwner[t][k] = u /\ nameOwner' = [nameOwner EXCEPT ![t][k] = NoOne]
      BY <1>2, RedeemMoves
    <3>2. \A s \in Tlds, x \in Names :
             nameOwner'[s][x] = IF s = t /\ x = k THEN NoOne ELSE nameOwner[s][x]
      BY <3>1 DEF TypeOK
    <3> QED
      BY <3>1, <3>2 DEF Existing
  <2>4. Cardinality(Existing') = Cardinality(Existing) - 1
    BY <2>3, Countable, FS_RemoveElement
  <2>5. Cardinality(InVault') = Cardinality(InVault) - 1
    BY <2>2, Countable, FS_RemoveElement
  <2> QED
    BY <1>2, <2>4, <2>5, Countable, CountableNext DEF Covered, TypeOK
<1> QED
  BY <1>1, <1>2 DEF Program

\* What leaves both sets no smaller on the one side and no larger on the other.
LEMMA CoversMore ==
    ASSUME TypeOK, Covered, Existing' \subseteq Existing, InVault \subseteq InVault', sold' = sold
    PROVE  Covered'
<1>1. Cardinality(Existing') <= Cardinality(Existing)
  BY Countable, FS_Subset
<1>2. Cardinality(InVault) <= Cardinality(InVault')
  BY CountableNext, FS_Subset
<1> QED
  BY <1>1, <1>2, Countable, CountableNext, FiniteAssumption DEF Covered, TypeOK

LEMMA TokensCover ==
    ASSUME TypeOK, OneUnit, Covered, Tokens
    PROVE  Covered'
<1> USE WalletsAssumption DEF Wallets
<1>1. Existing' = Existing /\ sold' = sold
  BY DEF Tokens, CompleteWrapped, TransferWrapped, CloseAta, SplTransfer, Existing
<1>2. ASSUME NEW m \in Mints, amount[m][Vault] > 0 PROVE amount'[m][Vault] > 0
  <2>1. amount[m][Vault] = 1 /\ \A u \in Users : amount[m][u] = 0
    BY <1>2 DEF OneUnit
  <2>2. ASSUME NEW u \in Users, NEW j \in Mints, CompleteWrapped(u, j) PROVE amount'[m][Vault] > 0
    BY <1>2, <2>2 DEF CompleteWrapped, TypeOK
  <2>3. ASSUME NEW u \in Users, NEW j \in Mints, TransferWrapped(u, j) PROVE amount'[m][Vault] > 0
    BY <1>2, <2>3 DEF TransferWrapped, TypeOK
  <2>4. ASSUME NEW u \in Users, NEW j \in Mints, CloseAta(u, j) PROVE amount'[m][Vault] > 0
    BY <1>2, <2>4 DEF CloseAta
  <2>5. ASSUME NEW u \in Users, NEW w \in Wallets, NEW j \in Mints, SplTransfer(u, w, j)
        PROVE  amount'[m][Vault] > 0
    <3>1. w # u /\ MoveOne(Ata(u, j), Ata(w, j)) /\ amount[j][u] > 0
      BY <2>5 DEF SplTransfer, MoveOne, Ata
    <3>2. j # m
      BY <2>1, <3>1
    <3> QED
      BY <1>2, <3>1, <3>2, MovedAmounts
  <2> QED
    BY <2>2, <2>3, <2>4, <2>5 DEF Tokens
<1>3. InVault \subseteq InVault'
  BY <1>2 DEF InVault
<1> QED
  BY <1>1, <1>3, CoversMore

LEMMA NameServiceCovers ==
    ASSUME TypeOK, HeldByRecord, Covered, NameService
    PROVE  Covered'
<1> USE WalletsAssumption
<1>1. amount' = amount /\ InVault' = InVault
  BY DEF NameService, BuyName, CreateAnsNft, RedeemRenewableNft, TransferName, TransferAnsNft, InVault
<1> PICK u \in Users, t \in Tlds, n \in Names :
      \/ BuyName(u, t, n)
      \/ /\ \/ CreateAnsNft(u, t, n)
            \/ RedeemRenewableNft(u, t, n)
            \/ \E v \in Users : TransferName(u, v, t, n) \/ TransferAnsNft(u, v, t, n)
         /\ UNCHANGED <<loose, sold>>
  BY DEF NameService
<1>2. CASE BuyName(u, t, n) /\ nameOwner[t][n] = NoOne
  <2>1. Existing' \subseteq Existing \cup {<<t, n>>}
    BY <1>2, Bought DEF BuyName, Existing
  <2>2. Cardinality(Existing') <= Cardinality(Existing) + 1
    BY <2>1, Countable, AtMostOneMore
  <2>3. sold' = sold + 1
    BY <1>2 DEF BuyName
  <2> QED
    BY <1>1, <2>2, <2>3, Countable, CountableNext, FiniteAssumption DEF Covered, TypeOK
<1>3. CASE BuyName(u, t, n) /\ nameOwner[t][n] # NoOne
  <2>1. Existing' \subseteq Existing
    BY <1>3, Bought DEF BuyName, Existing
  <2> QED
    BY <1>1, <1>3, <2>1, CoversMore DEF BuyName
<1>4. ASSUME nameOwner[t][n] # NoOne,
             \A s \in Tlds, x \in Names : s # t \/ x # n => nameOwner'[s][x] = nameOwner[s][x],
             sold' = sold
      PROVE  Covered'
  <2>1. Existing' \subseteq Existing
    BY <1>4 DEF Existing
  <2> QED
    BY <1>1, <1>4, <2>1, CoversMore
<1>5. ASSUME CreateAnsNft(u, t, n) \/ RedeemRenewableNft(u, t, n)
      PROVE  /\ nameOwner[t][n] # NoOne
             /\ \A s \in Tlds, x \in Names : s # t \/ x # n => nameOwner'[s][x] = nameOwner[s][x]
  BY <1>5 DEF CreateAnsNft, RedeemRenewableNft, HeldByRecord, TypeOK
<1>6. ASSUME NEW v \in Users, TransferName(u, v, t, n) \/ TransferAnsNft(u, v, t, n)
      PROVE  /\ nameOwner[t][n] # NoOne
             /\ \A s \in Tlds, x \in Names : s # t \/ x # n => nameOwner'[s][x] = nameOwner[s][x]
  BY <1>6 DEF TransferName, TransferAnsNft, HeldByRecord, TypeOK
<1> QED
  BY <1>2, <1>3, <1>4, <1>5, <1>6

\* The vault holds an NFT for every name that exists, but for as many as TLD houses made,
\* whatever the callers combine (wrap_domain.rs:196-278; redeem_domain.rs:140-211).
THEOREM CoveredAlways == Spec => []Covered
<1>1. Init => HeldByRecord /\ Covered
  <2> SUFFICES ASSUME Init PROVE HeldByRecord /\ Covered
    OBVIOUS
  <2>1. Existing = {} /\ InVault = {} /\ HeldByRecord
    BY DEF Init, Existing, InVault, HeldByRecord, Wallets
  <2> QED
    BY <2>1, FS_EmptySet DEF Init, Covered
<1>2. TypeOK /\ OneUnit /\ HeldByRecord /\ Covered /\ [Next]_vars => Covered'
  <2> SUFFICES ASSUME TypeOK, OneUnit, HeldByRecord, Covered, [Next]_vars PROVE Covered'
    OBVIOUS
  <2>1. CASE UNCHANGED vars
    <3>1. Existing' = Existing /\ InVault' = InVault /\ sold' = sold
      BY <2>1 DEF vars, Existing, InVault
    <3> QED
      BY <3>1 DEF Covered
  <2> QED
    BY <2>1, ProgramCovers, TokensCover, NameServiceCovers DEF Next
<1> QED
  BY <1>1, <1>2, HeldStep, TypeCorrect, OneUnitAlways, PTL DEF Spec

----------------------------------------------------------------------------
(* Names against bridged NFTs *)

\* The invariant that is inductive: a name is created from a wallet's NFT, so
\* that there is none yet, only because the NFT is in one account.
IInv == TypeOK /\ OneUnit /\ NamesBacked

\* While a wallet has the bridged NFT of n, n has no name and no ANS NFT.
LEMMA NoNameYet ==
    ASSUME IInv, NEW n \in Names \ loose, NEW u \in Users, amount[MintOf[n]][u] > 0
    PROVE  \A t \in Tlds : nameOwner[t][n] = NoOne /\ ansNft[t][n] = NoOne
<1> USE WalletsAssumption, MintsAssumption
<1>1. amount[MintOf[n]][Vault] = 0
  <2>1. MintOf[n] \in Mints /\ u \in Wallets /\ Vault \in Wallets \ {u}
    BY DEF Wallets
  <2> QED
    BY <2>1 DEF IInv, OneUnit
<1>2. Backed(n)
  BY DEF IInv, NamesBacked
<1> QED
  BY <1>1, <1>2 DEF Backed

\* What leaves a name, its ANS NFT and its bridged NFT in the vault as they are.
LEMMA BackedSame ==
    ASSUME NEW n \in Names, Backed(n),
           \A s \in Tlds : nameOwner'[s][n] = nameOwner[s][n] /\ ansNft'[s][n] = ansNft[s][n],
           amount[MintOf[n]][Vault] = 1 => amount'[MintOf[n]][Vault] = 1
    PROVE  Backed(n)'
  BY DEF Backed

\* A backed name has one owner at most: n.t passes to w and its ANS NFT to h.
LEMMA BackedPasses ==
    ASSUME NEW n \in Names, NEW t \in Tlds, Backed(n), nameOwner[t][n] # NoOne,
           amount' = amount,
           \A s \in Tlds \ {t} :
              nameOwner'[s][n] = nameOwner[s][n] /\ ansNft'[s][n] = ansNft[s][n],
           (ansNft'[t][n] # NoOne) <=> (nameOwner'[t][n] = Record)
    PROVE  Backed(n)'
  BY DEF Backed

LEMMA WrapBacks ==
    ASSUME IInv, NEW u \in Users, NEW n \in Names, NEW k \in Names, NEW t \in Tlds,
           NEW m \in Mints, NEW a \in Atas, NEW b \in Atas,
           handle_domain_wrapping(u, n, k, t, m, a, b)
    PROVE  /\ m = MintOf[n] /\ amount[m][u] = 1 /\ amount'[m][Vault] = 1
           /\ \A x \in Users : amount'[m][x] = 0
           /\ \A j \in Mints \ {m} : amount'[j] = amount[j]
           /\ n = k /\ n \notin loose => nameOwner'[t][n] = u /\ ansNft'[t][n] = NoOne
           /\ \A s \in Tlds, x \in Names : s # t \/ x # k =>
                 nameOwner'[s][x] = nameOwner[s][x] /\ ansNft'[s][x] = ansNft[s][x]
<1> USE WalletsAssumption, MintsAssumption
<1>1. /\ m = MintOf[n]
      /\ MoveOne(Ata(u, m), Ata(Vault, m))
      /\ BuyOrExtendRenewable(u, t, k)
  BY WrapMoves
<1>2. /\ amount[m][u] = 1 /\ amount'[m][Vault] = 1
      /\ \A x \in Users : amount'[m][x] = 0
      /\ \A j \in Mints \ {m} : amount'[j] = amount[j]
  <2>1. u \in Wallets /\ Vault \in Wallets /\ u # Vault /\ \A x \in Users : x \in Wallets \ {Vault}
    BY DEF Wallets
  <2> QED
    BY <1>1, <2>1, Moved DEF IInv
<1>3. n \notin loose => nameOwner[t][n] = NoOne
  BY <1>1, <1>2, NoNameYet
<1> QED
  BY <1>1, <1>2, <1>3, Bought DEF IInv

LEMMA RedeemBacks ==
    ASSUME IInv, NEW u \in Users, NEW n \in Names, NEW k \in Names, NEW t \in Tlds,
           NEW m \in Mints, NEW a \in Atas, NEW b \in Atas,
           handle_domain_redeeming(u, n, k, t, m, a, b)
    PROVE  /\ m = MintOf[n] /\ amount'[m][u] = 1 /\ nameOwner[t][k] = u
           /\ \A j \in Mints \ {m} : amount'[j] = amount[j]
           /\ ansNft' = ansNft
           /\ k \notin loose =>
                 \A s \in Tlds : nameOwner'[s][k] = NoOne /\ ansNft'[s][k] = NoOne
           /\ \A s \in Tlds, x \in Names : x # k => nameOwner'[s][x] = nameOwner[s][x]
<1> USE WalletsAssumption, MintsAssumption
<1>1. /\ m = MintOf[n]
      /\ nameOwner[t][k] = u
      /\ MoveOne(Ata(Vault, m), Ata(u, m))
      /\ nameOwner' = [nameOwner EXCEPT ![t][k] = NoOne]
      /\ ansNft' = ansNft
  BY RedeemMoves
<1>2. /\ amount'[m][u] = 1
      /\ \A j \in Mints \ {m} : amount'[j] = amount[j]
  <2>1. u \in Wallets /\ Vault \in Wallets /\ u # Vault
    BY DEF Wallets
  <2> QED
    BY <1>1, <2>1, Moved DEF IInv
<1>3. ASSUME k \notin loose, NEW s \in Tlds
      PROVE  nameOwner'[s][k] = NoOne /\ ansNft'[s][k] = NoOne
  <2>1. Backed(k)
    BY <1>3 DEF IInv, NamesBacked
  <2>2. \A r \in Tlds \ {t} : nameOwner[r][k] = NoOne
    BY <1>1, <2>1 DEF Backed
  <2>3. nameOwner'[s][k] = NoOne
    BY <1>1, <2>2 DEF IInv, TypeOK
  <2>4. nameOwner[s][k] # Record
    BY <1>1, <2>2
  <2> QED
    BY <1>1, <2>1, <2>3, <2>4 DEF Backed
<1>4. \A s \in Tlds, x \in Names : x # k => nameOwner'[s][x] = nameOwner[s][x]
  BY <1>1 DEF IInv, TypeOK
<1> QED
  BY <1>1, <1>2, <1>3, <1>4

LEMMA TokensLeaveVault ==
    ASSUME IInv, Tokens
    PROVE  \A n \in Names : amount[MintOf[n]][Vault] = 1 => amount'[MintOf[n]][Vault] = 1
<1> USE WalletsAssumption, MintsAssumption
<1> SUFFICES ASSUME NEW n \in Names, amount[MintOf[n]][Vault] = 1
             PROVE  amount'[MintOf[n]][Vault] = 1
  OBVIOUS
<1>1. MintOf[n] \in Mints /\ Vault \in Wallets
  BY DEF Wallets
<1>2. \A x \in Users : amount[MintOf[n]][x] = 0
  BY <1>1 DEF IInv, OneUnit, Wallets
<1>3. ASSUME NEW u \in Users, NEW m \in Mints, NoneMinted(m), CompleteWrapped(u, m)
      PROVE  amount'[MintOf[n]][Vault] = 1
  BY <1>1, <1>3 DEF NoneMinted, CompleteWrapped, IInv, TypeOK
<1>4. ASSUME NEW u \in Users, NEW m \in Mints, TransferWrapped(u, m)
      PROVE  amount'[MintOf[n]][Vault] = 1
  BY <1>1, <1>4 DEF TransferWrapped, IInv, TypeOK
<1>5. ASSUME NEW u \in Users, NEW m \in Mints, CloseAta(u, m)
      PROVE  amount'[MintOf[n]][Vault] = 1
  BY <1>5 DEF CloseAta
<1>6. ASSUME NEW u \in Users, NEW w \in Wallets, NEW m \in Mints, SplTransfer(u, w, m)
      PROVE  amount'[MintOf[n]][Vault] = 1
  <2>1. u \in Wallets /\ w # u /\ MoveOne(Ata(u, m), Ata(w, m)) /\ amount[m][u] > 0
    BY <1>6 DEF SplTransfer, MoveOne, Ata, Wallets
  <2>2. m # MintOf[n]
    BY <1>2, <2>1
  <2> QED
    BY <1>1, <2>1, <2>2, Moved DEF IInv
<1> QED
  BY <1>3, <1>4, <1>5, <1>6 DEF Tokens

\* The instructions of the name service on a backed name, as transfers of a name that
\* exists: n.t passes from u to v, bare or as its ANS NFT.
Passes(n, t, u, v) ==
    /\ nameOwner[t][n] = u \/ ansNft[t][n] = u
    /\ nameOwner[t][n] # NoOne
    /\ \/ nameOwner'[t][n] = Record /\ ansNft'[t][n] = v
       \/ nameOwner'[t][n] = v /\ ansNft'[t][n] = NoOne
    /\ amount' = amount

LEMMA NameServicePasses ==
    ASSUME IInv, NameService
    PROVE  \E n \in Names, t \in Tlds :
              /\ \A s \in Tlds, x \in Names : s # t \/ x # n =>
                    nameOwner'[s][x] = nameOwner[s][x] /\ ansNft'[s][x] = ansNft[s][x]
              /\ amount' = amount
              /\ \/ loose' = loose \cup {n}
                 \/ loose' = loose /\ (n \notin loose => \E u, v \in Users : Passes(n, t, u, v))
<1> USE WalletsAssumption
<1> PICK u \in Users, t \in Tlds, n \in Names :
      \/ BuyName(u, t, n)
      \/ /\ \/ CreateAnsNft(u, t, n)
            \/ RedeemRenewableNft(u, t, n)
            \/ \E v \in Users : TransferName(u, v, t, n) \/ TransferAnsNft(u, v, t, n)
         /\ UNCHANGED <<loose, sold>>
  BY DEF NameService
<1> DEFINE Elsewhere == \A s \in Tlds, x \in Names : s # t \/ x # n =>
                          nameOwner'[s][x] = nameOwner[s][x] /\ ansNft'[s][x] = ansNft[s][x]
<1>1. n \notin loose => ((ansNft[t][n] # NoOne) <=> (nameOwner[t][n] = Record))
  BY DEF IInv, NamesBacked, Backed
<1>2. CASE BuyName(u, t, n)
  BY <1>2, Bought DEF BuyName, IInv
<1>3. CASE CreateAnsNft(u, t, n) /\ loose' = loose
  <2>1. Elsewhere /\ amount' = amount /\ Passes(n, t, u, u)
    BY <1>3 DEF CreateAnsNft, Passes, IInv, TypeOK
  <2> QED
    BY <1>3, <2>1
<1>4. CASE RedeemRenewableNft(u, t, n) /\ loose' = loose
  <2>1. Elsewhere /\ amount' = amount
    BY <1>4 DEF RedeemRenewableNft, IInv, TypeOK
  <2>2. n \notin loose => Passes(n, t, u, u)
    BY <1>1, <1>4 DEF RedeemRenewableNft, Passes, IInv, TypeOK
  <2> QED
    BY <1>4, <2>1, <2>2
<1>5. ASSUME NEW v \in Users, TransferName(u, v, t, n), loose' = loose
      PROVE  Elsewhere /\ amount' = amount /\ (n \notin loose => Passes(n, t, u, v))
  BY <1>1, <1>5 DEF TransferName, Passes, IInv, TypeOK
<1>6. ASSUME NEW v \in Users, TransferAnsNft(u, v, t, n), loose' = loose
      PROVE  Elsewhere /\ amount' = amount /\ (n \notin loose => Passes(n, t, u, v))
  BY <1>1, <1>6 DEF TransferAnsNft, Passes, IInv, TypeOK
<1> QED
  BY <1>2, <1>3, <1>4, <1>5, <1>6

LEMMA BackedStep ==
    ASSUME IInv, [Next]_vars
    PROVE  NamesBacked'
<1> USE WalletsAssumption, MintsAssumption
<1> SUFFICES ASSUME NEW x \in Names, x \notin loose' PROVE Backed(x)'
  BY DEF NamesBacked
<1>1. x \notin loose
  BY DEF Next, Program, Tokens, NameService, BuyName, vars
<1>2. Backed(x) /\ MintOf[x] \in Mints
  BY <1>1 DEF IInv, NamesBacked
<1>3. ASSUME NEW u \in Users, NEW n \in Names, NEW k \in Names, NEW t \in Tlds,
             NEW m \in Mints, NEW a \in Atas, NEW b \in Atas,
             handle_domain_wrapping(u, n, k, t, m, a, b), loose' = loose \cup ({k} \ {n})
      PROVE  Backed(x)'
  <2>1. CASE x # k
    BY <1>2, <1>3, <2>1, WrapBacks, BackedSame
  <2>2. CASE x = k
    <3>1. x = n
      BY <1>3, <2>2
    <3>2. \A s \in Tlds : nameOwner[s][x] = NoOne /\ ansNft[s][x] = NoOne
      BY <1>1, <1>3, <3>1, WrapBacks, NoNameYet
    <3>3. /\ amount'[MintOf[x]][Vault] = 1 /\ nameOwner'[t][x] = u /\ ansNft'[t][x] = NoOne
          /\ \A s \in Tlds \ {t} : nameOwner'[s][x] = NoOne /\ ansNft'[s][x] = NoOne
      BY <1>1, <1>3, <2>2, <3>1, <3>2, WrapBacks
    <3> QED
      BY <3>3 DEF Backed
  <2> QED
    BY <2>1, <2>2
<1>4. ASSUME NEW u \in Users, NEW n \in Names, NEW k \in Names, NEW t \in Tlds,
             NEW m \in Mints, NEW a \in Atas, NEW b \in Atas,
             handle_domain_redeeming(u, n, k, t, m, a, b), loose' = loose \cup ({n} \ {k})
      PROVE  Backed(x)'
  <2>1. CASE x # k
    <3>1. MintOf[x] # MintOf[n]
      BY <1>4, <2>1
    <3>2. /\ amount'[MintOf[x]] = amount[MintOf[x]] /\ ansNft' = ansNft
          /\ \A s \in Tlds : nameOwner'[s][x] = nameOwner[s][x]
      BY <1>2, <1>4, <2>1, <3>1, RedeemBacks
    <3> QED
      BY <1>2, <3>2, BackedSame
  <2>2. CASE x = k
    <3>1. \A s \in Tlds : nameOwner'[s][x] = NoOne /\ ansNft'[s][x] = NoOne
      BY <1>1, <1>4, <2>2, RedeemBacks
    <3> QED
      BY <3>1 DEF Backed
  <2> QED
    BY <2>1, <2>2
<1>5. CASE Program
  BY <1>3, <1>4, <1>5 DEF Program
<1>6. CASE Tokens
  <2>1. nameOwner' = nameOwner /\ ansNft' = ansNft
    BY <1>6 DEF Tokens, CompleteWrapped, TransferWrapped, CloseAta, SplTransfer
  <2> QED
    BY <1>2, <1>6, <2>1, TokensLeaveVault, BackedSame
<1>7. CASE NameService
  <2> PICK n \in Names, t \in Tlds :
        /\ \A s \in Tlds, y \in Names : s # t \/ y # n =>
              nameOwner'[s][y] = nameOwner[s][y] /\ ansNft'[s][y] = ansNft[s][y]
        /\ amount' = amount
        /\ \/ loose' = loose \cup {n}
           \/ loose' = loose /\ (n \notin loose => \E u, v \in Users : Passes(n, t, u, v))
    BY <1>7, NameServicePasses
  <2>1. CASE x # n
    BY <1>2, <2>1, BackedSame
  <2>2. CASE x = n
    <3>1. \E u, v \in Users : Passes(x, t, u, v)
      BY <1>1, <2>2
    <3>2. /\ nameOwner[t][x] # NoOne
          /\ (ansNft'[t][x] # NoOne) <=> (nameOwner'[t][x] = Record)
      BY <3>1 DEF Passes
    <3> QED
      BY <1>2, <2>2, <3>2, BackedPasses
  <2> QED
    BY <2>1, <2>2
<1>8. CASE UNCHANGED vars
  BY <1>2, <1>8, BackedSame DEF vars
<1> QED
  BY <1>5, <1>6, <1>7, <1>8 DEF Next

THEOREM Invariance == Spec => []IInv
<1>1. Init => NamesBacked
  BY WalletsAssumption DEF Init, NamesBacked, Backed
<1>2. TypeOK /\ OneUnit /\ NamesBacked /\ [Next]_vars => NamesBacked'
  BY BackedStep DEF IInv
<1>3. TypeOK /\ OneUnit /\ NamesBacked => IInv
  BY DEF IInv
<1> QED
  BY <1>1, <1>2, <1>3, TypeCorrect, OneUnitAlways, PTL DEF Spec

\* A name exists only against its bridged NFT in the vault, in one TLD at a time, until a
\* TLD house sells or extends it or an instruction mixes it up with another one
\* (wrap_domain.rs:134, 171-173, 255; redeem_domain.rs:54-59, 110, 195).
THEOREM NamesBackedAlways == Spec => []NamesBacked
<1>1. IInv => NamesBacked
  BY DEF IInv
<1> QED
  BY <1>1, Invariance, PTL

----------------------------------------------------------------------------
(* One bearer per domain *)

\* Whoever has the bridged NFT, the name or the ANS NFT is the only bearer.
OnlyBearer ==
    \A n \in Names \ loose :
        /\ \A u \in Users : amount[MintOf[n]][u] > 0 => Bearers(n) = {u}
        /\ \A t \in Tlds, u \in Users :
              nameOwner[t][n] = u \/ ansNft[t][n] = u => Bearers(n) = {u}
        /\ (/\ \A u \in Users : amount[MintOf[n]][u] = 0
            /\ \A t \in Tlds : nameOwner[t][n] = NoOne) => Bearers(n) = {}

LEMMA OnlyBearerHolds == IInv => OnlyBearer
<1> USE WalletsAssumption, MintsAssumption
<1> SUFFICES ASSUME IInv, NEW n \in Names \ loose
             PROVE  /\ \A u \in Users : amount[MintOf[n]][u] > 0 => Bearers(n) = {u}
                    /\ \A t \in Tlds, u \in Users :
                          nameOwner[t][n] = u \/ ansNft[t][n] = u => Bearers(n) = {u}
                    /\ (/\ \A u \in Users : amount[MintOf[n]][u] = 0
                        /\ \A t \in Tlds : nameOwner[t][n] = NoOne) => Bearers(n) = {}
  BY DEF OnlyBearer
<1>1. MintOf[n] \in Mints /\ \A u \in Users : u \in Wallets /\ u # Vault /\ Vault \in Wallets
  BY DEF Wallets
<1> Backed(n)
  BY DEF IInv, NamesBacked
<1>2. ASSUME NEW u \in Users, amount[MintOf[n]][u] > 0
      PROVE  Bearers(n) = {u}
  <2>1. \A t \in Tlds : nameOwner[t][n] = NoOne /\ ansNft[t][n] = NoOne
    BY <1>2, NoNameYet
  <2>2. \A x \in Users \ {u} : amount[MintOf[n]][x] = 0
    BY <1>1, <1>2 DEF IInv, OneUnit
  <2> QED
    BY <1>2, <2>1, <2>2 DEF Bearers
<1>3. ASSUME NEW t \in Tlds, NEW u \in Users, nameOwner[t][n] = u \/ ansNft[t][n] = u
      PROVE  Bearers(n) = {u}
  <2>1. nameOwner[t][n] # NoOne /\ (ansNft[t][n] # NoOne <=> nameOwner[t][n] = Record)
    BY <1>3 DEF Backed
  <2>2. amount[MintOf[n]][Vault] = 1 /\ \A s \in Tlds \ {t} : nameOwner[s][n] = NoOne
    BY <2>1 DEF Backed
  <2>3. \A x \in Users : amount[MintOf[n]][x] = 0
    BY <1>1, <2>2 DEF IInv, OneUnit
  <2>4. \A s \in Tlds \ {t} : ansNft[s][n] = NoOne
    BY <2>2 DEF Backed
  <2> QED
    BY <1>3, <2>1, <2>2, <2>3, <2>4 DEF Bearers
<1>4. ASSUME \A u \in Users : amount[MintOf[n]][u] = 0,
             \A t \in Tlds : nameOwner[t][n] = NoOne
      PROVE  Bearers(n) = {}
  <2>1. \A t \in Tlds : ansNft[t][n] = NoOne
    BY <1>4 DEF Backed
  <2> QED
    BY <1>4, <2>1 DEF Bearers
<1> QED
  BY <1>2, <1>3, <1>4

\* The bearers of n as the abstract specification sees them.
Seen(n) == IF n \in loose THEN {} ELSE Bearers(n)

\* A step of one domain, seen from the abstract specification.
LEMMA BearerChanges ==
    ASSUME NEW n \in Names, \A k \in Names \ {n} : Seen(k)' = Seen(k),
           \E u, v \in Users :
              \/ Seen(n) = {} /\ Seen(n)' = {u}
              \/ Seen(n) = {u} /\ Seen(n)' = {v}
    PROVE  Bearer!Next
<1> DEFINE bearer == [k \in Names |-> Seen(k)]
<1>1. PICK u \in Users, v \in Users :
        \/ Seen(n) = {} /\ Seen(n)' = {u}
        \/ Seen(n) = {u} /\ Seen(n)' = {v}
  OBVIOUS
<1>2. bearer[n] = Seen(n) /\ bearer' = [bearer EXCEPT ![n] = Seen(n)']
  OBVIOUS
<1>3. bearer = [k \in Names |-> IF k \in loose THEN {} ELSE Bearers(k)]
  BY DEF Seen
<1>4. CASE Seen(n) = {} /\ Seen(n)' = {u}
  <2>1. Bearer!Arrive(n, u)
    BY <1>2, <1>4 DEF Bearer!Arrive, Seen
  <2> QED
    BY <2>1 DEF Bearer!Next
<1>5. CASE Seen(n) = {u} /\ Seen(n)' = {v}
  <2>1. Bearer!Give(n, u, v)
    BY <1>2, <1>5 DEF Bearer!Give, Seen
  <2> QED
    BY <2>1 DEF Bearer!Next
<1> QED
  BY <1>1, <1>4, <1>5

\* Domains depart, some of which may not have been here.
LEMMA BearersDepart ==
    ASSUME NEW S \in SUBSET Names, \A k \in Names : Seen(k)' = IF k \in S THEN {} ELSE Seen(k)
    PROVE  Bearer!Next
<1>1. PICK D \in SUBSET Names : D = {k \in S : Seen(k) # {}}
  OBVIOUS
<1>2. \A k \in Names : Seen(k)' = IF k \in D THEN {} ELSE Seen(k)
  BY <1>1
<1>3. Bearer!Depart(D)
  <2>1. \A k \in D : [j \in Names |-> Seen(j)][k] # {}
    BY <1>1
  <2>2. [k \in Names |-> Seen(k)'] = [k \in Names |-> IF k \in D THEN {} ELSE Seen(k)]
    BY <1>2
  <2> QED
    BY <2>1, <2>2 DEF Bearer!Depart, Seen
<1> QED
  BY <1>3 DEF Bearer!Next

\* The bearer of a domain depends on its NFT and its names only.
LEMMA BearersSame ==
    ASSUME NEW k \in Names, (k \in loose)' = (k \in loose),
           \A x \in Users : amount'[MintOf[k]][x] = amount[MintOf[k]][x],
           \A s \in Tlds : nameOwner'[s][k] = nameOwner[s][k] /\ ansNft'[s][k] = ansNft[s][k]
    PROVE  Seen(k)' = Seen(k)
  BY DEF Bearers, Seen

\* An instruction on one name is a stutter of the abstract specification, and one that
\* mixes up two names makes both depart.
LEMMA WrapKeepsBearers ==
    ASSUME IInv, OnlyBearer, OnlyBearer', IInv',
           NEW u \in Users, NEW n \in Names, NEW k \in Names, NEW t \in Tlds,
           NEW m \in Mints, NEW a \in Atas, NEW b \in Atas,
           handle_domain_wrapping(u, n, k, t, m, a, b), loose' = loose \cup ({k} \ {n})
    PROVE  Bearer!Next \/ \A x \in Names : Seen(x)' = Seen(x)
<1> USE WalletsAssumption, MintsAssumption
<1>1. /\ m = MintOf[n] /\ amount[m][u] = 1
      /\ \A x \in Users : amount'[m][x] = 0
      /\ \A j \in Mints \ {m} : amount'[j] = amount[j]
      /\ n = k /\ n \notin loose => nameOwner'[t][n] = u
      /\ \A s \in Tlds, x \in Names : s # t \/ x # k =>
            nameOwner'[s][x] = nameOwner[s][x] /\ ansNft'[s][x] = ansNft[s][x]
  BY WrapBacks
<1>2. ASSUME NEW x \in Names, x # n, x # k PROVE Seen(x)' = Seen(x)
  <2>1. amount'[MintOf[x]] = amount[MintOf[x]]
    BY <1>1, <1>2
  <2> QED
    BY <1>1, <1>2, <2>1, BearersSame
<1>3. CASE n = k
  <2>1. loose' = loose
    BY <1>3
  <2>2. n \notin loose => Seen(n) = {u}
    BY <1>1 DEF OnlyBearer, Seen
  <2>3. n \notin loose => Seen(n)' = {u}
    BY <1>1, <1>3, <2>1 DEF OnlyBearer, Seen
  <2>4. n \in loose => Seen(n) = {} /\ Seen(n)' = {}
    BY <2>1 DEF Seen
  <2> QED
    BY <1>2, <1>3, <2>2, <2>3, <2>4
<1>4. CASE n # k
  <2>1. Seen(k)' = {}
    BY <1>4 DEF Seen
  <2>2. Seen(n)' = {}
    <3>1. n \in loose => n \in loose'
      OBVIOUS
    <3>2. CASE n \notin loose'
      <4>1. \A s \in Tlds : nameOwner[s][n] = NoOne
        BY <1>1, <3>1, <3>2, NoNameYet
      <4>2. \A s \in Tlds : nameOwner'[s][n] = NoOne
        BY <1>1, <1>4, <4>1
      <4> QED
        BY <1>1, <3>2, <4>2 DEF OnlyBearer, Seen
    <3> QED
      BY <3>2 DEF Seen
  <2> DEFINE S == {n, k}
  <2>3. S \in SUBSET Names
    OBVIOUS
  <2>4. \A x \in Names : Seen(x)' = IF x \in S THEN {} ELSE Seen(x)
    BY <1>2, <2>1, <2>2
  <2> HIDE DEF S
  <2> QED
    BY <2>3, <2>4, BearersDepart
<1> QED
  BY <1>3, <1>4

LEMMA RedeemKeepsBearers ==
    ASSUME IInv, OnlyBearer, OnlyBearer', IInv',
           NEW u \in Users, NEW n \in Names, NEW k \in Names, NEW t \in Tlds,
           NEW m \in Mints, NEW a \in Atas, NEW b \in Atas,
           handle_domain_redeeming(u, n, k, t, m, a, b), loose' = loose \cup ({n} \ {k})
    PROVE  Bearer!Next \/ \A x \in Names : Seen(x)' = Seen(x)
<1> USE WalletsAssumption, MintsAssumption
<1>1. /\ m = MintOf[n] /\ amount'[m][u] = 1 /\ nameOwner[t][k] = u /\ ansNft' = ansNft
      /\ \A j \in Mints \ {m} : amount'[j] = amount[j]
      /\ k \notin loose => \A s \in Tlds : nameOwner'[s][k] = NoOne
      /\ \A s \in Tlds, x \in Names : x # k => nameOwner'[s][x] = nameOwner[s][x]
  BY RedeemBacks
<1>2. ASSUME NEW x \in Names, x # n, x # k PROVE Seen(x)' = Seen(x)
  <2>1. amount'[MintOf[x]] = amount[MintOf[x]]
    BY <1>1, <1>2
  <2> QED
    BY <1>1, <1>2, <2>1, BearersSame
<1>3. CASE n = k
  <2>1. loose' = loose
    BY <1>3
  <2>2. n \notin loose => Seen(n) = {u}
    BY <1>1, <1>3 DEF OnlyBearer, Seen
  <2>3. n \notin loose => Seen(n)' = {u}
    BY <1>1, <2>1 DEF OnlyBearer, Seen
  <2>4. n \in loose => Seen(n) = {} /\ Seen(n)' = {}
    BY <2>1 DEF Seen
  <2> QED
    BY <1>2, <1>3, <2>2, <2>3, <2>4
<1>4. CASE n # k
  <2>1. Seen(n)' = {}
    BY <1>4 DEF Seen
  <2>2. Seen(k)' = {}
    <3>1. CASE k \notin loose'
      <4>1. k \notin loose /\ amount[MintOf[k]][Vault] = 1
        BY <1>1, <3>1 DEF IInv, NamesBacked, Backed
      <4>2. amount'[MintOf[k]] = amount[MintOf[k]]
        BY <1>1, <1>4
      <4>3. \A x \in Users : amount[MintOf[k]][x] = 0
        BY <4>1 DEF IInv, OneUnit, Wallets
      <4> QED
        BY <1>1, <3>1, <4>1, <4>2, <4>3 DEF OnlyBearer, Seen
    <3> QED
      BY <3>1 DEF Seen
  <2> DEFINE S == {n, k}
  <2>3. S \in SUBSET Names
    OBVIOUS
  <2>4. \A x \in Names : Seen(x)' = IF x \in S THEN {} ELSE Seen(x)
    BY <1>2, <2>1, <2>2
  <2> HIDE DEF S
  <2> QED
    BY <2>3, <2>4, BearersDepart
<1> QED
  BY <1>3, <1>4

\* A wallet disposes of the bridged NFT: the domain goes to another wallet, or it
\* is given up.
LEMMA TokensStep ==
    ASSUME IInv, IInv', OnlyBearer, OnlyBearer', Tokens
    PROVE  Bearer!Next \/ \A k \in Names : Seen(k)' = Seen(k)
<1> USE WalletsAssumption, MintsAssumption
<1>1. nameOwner' = nameOwner /\ ansNft' = ansNft /\ loose' = loose
  BY DEF Tokens, CompleteWrapped, TransferWrapped, CloseAta, SplTransfer
<1>2. PICK m \in Mints :
        /\ \A j \in Mints \ {m} : amount'[j] = amount[j]
        /\ \/ amount'[m] = amount[m]
           \/ \E u, v \in Users :
                \/ /\ \A x \in Wallets : amount[m][x] = 0
                   /\ amount'[m][u] > 0
                \/ /\ amount[m][u] > 0
                   /\ \/ amount'[m][v] > 0
                      \/ \A x \in Users : amount'[m][x] = 0
  <2>1. ASSUME NEW u \in Users, NEW m \in Mints, NoneMinted(m), CompleteWrapped(u, m)
        PROVE  /\ \A j \in Mints \ {m} : amount'[j] = amount[j]
               /\ \A x \in Wallets : amount[m][x] = 0
               /\ amount'[m][u] > 0
    BY <2>1 DEF NoneMinted, CompleteWrapped, IInv, TypeOK, Wallets
  <2>2. ASSUME NEW u \in Users, NEW m \in Mints, TransferWrapped(u, m)
        PROVE  /\ \A j \in Mints \ {m} : amount'[j] = amount[j]
               /\ amount[m][u] > 0
               /\ \A x \in Users : amount'[m][x] = 0
    <3>1. amount[m][u] = 1 /\ \A x \in Users \ {u} : amount[m][x] = 0
      BY <2>2 DEF TransferWrapped, IInv, OneUnit, Wallets
    <3> QED
      BY <2>2, <3>1 DEF TransferWrapped, IInv, TypeOK, Wallets
  <2>3. ASSUME NEW u \in Users, NEW w \in Wallets, NEW m \in Mints, SplTransfer(u, w, m)
        PROVE  /\ \A j \in Mints \ {m} : amount'[j] = amount[j]
               /\ amount[m][u] > 0
               /\ (w \in Users /\ amount'[m][w] > 0) \/ \A x \in Users : amount'[m][x] = 0
    <3>1. u \in Wallets /\ w # u /\ MoveOne(Ata(u, m), Ata(w, m)) /\ amount[m][u] > 0
      BY <2>3 DEF SplTransfer, MoveOne, Ata, Wallets
    <3>2. /\ amount'[m][w] = 1
          /\ \A x \in Wallets \ {w} : amount'[m][x] = 0
          /\ \A j \in Mints \ {m} : amount'[j] = amount[j]
      BY <3>1, Moved DEF IInv
    <3> QED
      BY <3>1, <3>2 DEF Wallets
  <2>4. ASSUME NEW u \in Users, NEW m \in Mints, CloseAta(u, m) PROVE amount' = amount
    BY <2>4 DEF CloseAta
  <2>5. PICK u \in Users, m \in Mints :
          \/ NoneMinted(m) /\ CompleteWrapped(u, m)
          \/ TransferWrapped(u, m)
          \/ CloseAta(u, m)
          \/ \E w \in Wallets : SplTransfer(u, w, m)
    BY DEF Tokens
  <2> WITNESS m \in Mints
  <2>6. CASE NoneMinted(m) /\ CompleteWrapped(u, m)
    BY <2>1, <2>6
  <2>7. CASE TransferWrapped(u, m)
    BY <2>2, <2>7
  <2>8. CASE CloseAta(u, m)
    BY <2>4, <2>8
  <2>9. CASE \E w \in Wallets : SplTransfer(u, w, m)
    BY <2>3, <2>9
  <2> QED
    BY <2>5, <2>6, <2>7, <2>8, <2>9
<1>3. \A k \in Names : amount'[MintOf[k]] = amount[MintOf[k]] => Seen(k)' = Seen(k)
  BY <1>1, BearersSame
<1>4. CASE amount'[m] = amount[m]
  BY <1>2, <1>3, <1>4
<1>5. CASE \A k \in Names : MintOf[k] # m
  BY <1>2, <1>3, <1>5
<1>6. ASSUME NEW n \in Names, MintOf[n] = m, n \in loose
      PROVE  \A k \in Names : Seen(k)' = Seen(k)
  BY <1>1, <1>2, <1>3, <1>6 DEF Seen
<1>7. ASSUME NEW n \in Names, n \notin loose, MintOf[n] = m, amount'[m] # amount[m]
      PROVE  Bearer!Next
  <2>1. \A k \in Names \ {n} : Seen(k)' = Seen(k)
    BY <1>2, <1>3, <1>7
  <2>2. ASSUME \A x \in Wallets : amount[m][x] = 0 PROVE Seen(n) = {}
    <3>1. \A t \in Tlds : nameOwner[t][n] = NoOne
      BY <1>7, <2>2 DEF IInv, NamesBacked, Backed, Wallets
    <3> QED
      BY <1>7, <2>2, <3>1 DEF OnlyBearer, Seen, Wallets
  <2>3. ASSUME NEW u \in Users, amount[m][u] > 0 PROVE Seen(n) = {u}
    BY <1>7, <2>3 DEF OnlyBearer, Seen
  <2>4. ASSUME NEW u \in Users, amount'[m][u] > 0 PROVE Seen(n)' = {u}
    BY <1>1, <1>7, <2>4 DEF OnlyBearer, Seen
  <2>5. ASSUME NEW u \in Users, amount[m][u] > 0, \A x \in Users : amount'[m][x] = 0
        PROVE  Seen(n)' = {}
    <3>1. \A t \in Tlds : nameOwner'[t][n] = NoOne
      BY <1>1, <1>7, <2>5, NoNameYet
    <3> QED
      BY <1>1, <1>7, <2>5, <3>1 DEF OnlyBearer, Seen
  <2>6. CASE \E u, v \in Users :
               \/ Seen(n) = {} /\ Seen(n)' = {u}
               \/ Seen(n) = {u} /\ Seen(n)' = {v}
    BY <2>1, <2>6, BearerChanges
  <2>7. CASE Seen(n)' = {}
    <3> DEFINE S == {n}
    <3>1. S \in SUBSET Names /\ \A k \in Names : Seen(k)' = IF k \in S THEN {} ELSE Seen(k)
      BY <2>1, <2>7
    <3> HIDE DEF S
    <3> QED
      BY <3>1, BearersDepart
  <2> QED
    BY <1>2, <1>7, <2>2, <2>3, <2>4, <2>5, <2>6, <2>7
<1> QED
  BY <1>4, <1>5, <1>6, <1>7

LEMMA NameServiceStep ==
    ASSUME IInv, OnlyBearer, OnlyBearer', NameService
    PROVE  Bearer!Next \/ \A k \in Names : Seen(k)' = Seen(k)
<1> USE WalletsAssumption
<1> PICK n \in Names, t \in Tlds :
      /\ \A s \in Tlds, x \in Names : s # t \/ x # n =>
            nameOwner'[s][x] = nameOwner[s][x] /\ ansNft'[s][x] = ansNft[s][x]
      /\ amount' = amount
      /\ \/ loose' = loose \cup {n}
         \/ loose' = loose /\ (n \notin loose => \E u, v \in Users : Passes(n, t, u, v))
  BY NameServicePasses
<1>1. ASSUME NEW k \in Names \ {n} PROVE Seen(k)' = Seen(k)
  BY BearersSame
<1>2. CASE n \in loose'
  <2> DEFINE S == {n}
  <2>1. S \in SUBSET Names /\ \A k \in Names : Seen(k)' = IF k \in S THEN {} ELSE Seen(k)
    BY <1>1, <1>2 DEF Seen
  <2> HIDE DEF S
  <2> QED
    BY <2>1, BearersDepart
<1>3. CASE n \notin loose'
  <2>1. PICK u \in Users, v \in Users : Passes(n, t, u, v)
    BY <1>3
  <2>2. n \notin loose /\ Seen(n) = {u}
    BY <1>3, <2>1 DEF Passes, OnlyBearer, Seen
  <2>3. Seen(n)' = {v}
    BY <1>3, <2>1 DEF Passes, OnlyBearer, Seen
  <2> QED
    BY <1>1, <2>2, <2>3, BearerChanges
<1> QED
  BY <1>2, <1>3

\* The program, with the name service and the NFT's ledger, implements one
\* bearer per domain: each of its steps is a step of DomainBearer or none, and
\* an instruction on one name is none (wrap_domain.rs:134-278, redeem_domain.rs:110-211).
THEOREM BearerRefinement == Spec => OneBearer
<1>1. Init => Bearer!Init
  BY WalletsAssumption, MintsAssumption DEF Init, Bearer!Init, Bearers, Wallets
<1>2. IInv' => OnlyBearer'
  BY OnlyBearerHolds, PTL
<1>3. IInv /\ IInv' /\ [Next]_vars
        => [Bearer!Next]_([n \in Names |-> IF n \in loose THEN {} ELSE Bearers(n)])
  <2> SUFFICES ASSUME IInv, IInv', [Next]_vars
               PROVE  Bearer!Next \/ \A k \in Names : Seen(k)' = Seen(k)
    BY DEF Seen
  <2>1. OnlyBearer /\ OnlyBearer'
    BY <1>2, OnlyBearerHolds
  <2>2. CASE Program
    BY <2>1, <2>2, WrapKeepsBearers, RedeemKeepsBearers DEF Program
  <2>3. CASE Tokens
    BY <2>1, <2>3, TokensStep
  <2>4. CASE NameService
    BY <2>1, <2>4, NameServiceStep
  <2>5. CASE UNCHANGED vars
    BY <2>5 DEF vars, Bearers, Seen
  <2> QED
    BY <2>2, <2>3, <2>4, <2>5 DEF Next
<1> QED
  BY <1>1, <1>3, Invariance, PTL DEF Spec, OneBearer, Bearer!Spec
=============================================================================
