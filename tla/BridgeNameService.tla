-------------------------- MODULE BridgeNameService --------------------------
(***************************************************************************)
(* The Solana side of the bridge: the program bridge_name_service, which   *)
(* takes a bridged 1/1 NFT into the token account of its vault and has a   *)
(* name created for it, and gives it back when the name is deleted. The    *)
(* programs it works with (SPL token, TLD House, Name House, the Wormhole  *)
(* NFT bridge) are modelled as far as it and its clients use them.         *)
(*                                                                         *)
(* An instruction is one step: a failing check or a failing inner call     *)
(* undoes all of it.                                                       *)
(***************************************************************************)
EXTENDS Naturals, FiniteSets

CONSTANTS
    Users,     \* wallets
    Vault,     \* the PDA bns_vault, which owns the vault's token accounts
    Names,     \* domain names, without the TLD
    Mints,     \* mints of bridged NFTs
    MintOf,    \* the PDA derived from the keccak hash of a name
    Tlds,      \* top-level domains with a TLD house
    NoOne,     \* the owner of what does not exist
    Record,    \* a Name House record: it owns a name that an ANS NFT stands for
    MaxSold    \* bound: names that TLD houses create without the program

Wallets == Users \cup {Vault}

ASSUME WalletsAssumption ==
    /\ Vault \notin Users
    /\ NoOne \notin Users
    /\ Record \notin Users
    /\ NoOne # Record

ASSUME MintsAssumption ==
    /\ MintOf \in [Names -> Mints]
    /\ \A n, k \in Names : MintOf[n] = MintOf[k] => n = k

ASSUME FiniteAssumption ==
    /\ IsFiniteSet(Names) /\ IsFiniteSet(Tlds) /\ IsFiniteSet(Mints)
    /\ MaxSold \in Nat

VARIABLES
    atas,       \* the initialised associated token accounts
    amount,     \* amount[m][w]: what w's account of mint m holds
    nameOwner,  \* nameOwner[t][n]: the owner of the name account n.t
    ansNft,     \* ansNft[t][n]: the holder of the ANS NFT of n.t, the one whose
                \* mint is derived from the name's present expiry
    \* Two history variables, which no action but BuyName's bound reads:
    loose,      \* names sold or extended by a TLD house, or wrapped or redeemed
                \* against another name's NFT
    sold        \* how many names TLD houses created without the program

vars == <<atas, amount, nameOwner, ansNft, loose, sold>>

\* The address of an associated token account is derived from these two.
Ata(w, m) == [wallet |-> w, mint |-> m]

Atas == [wallet : Wallets, mint : Mints]

TypeOK ==
    /\ atas \subseteq Atas
    /\ amount \in [Mints -> [Wallets -> Nat]]
    /\ nameOwner \in [Tlds -> [Names -> Users \cup {NoOne, Record}]]
    /\ ansNft \in [Tlds -> [Names -> Users \cup {NoOne}]]
    /\ loose \subseteq Names
    /\ sold \in 0..MaxSold

Init ==
    /\ atas = {}
    /\ amount = [m \in Mints |-> [w \in Wallets |-> 0]]
    /\ nameOwner = [t \in Tlds |-> [n \in Names |-> NoOne]]
    /\ ansNft = [t \in Tlds |-> [n \in Names |-> NoOne]]
    /\ loose = {}
    /\ sold = 0

----------------------------------------------------------------------------
(* The SPL token program and the Wormhole NFT bridge *)

\* Faulty variant of MoveOne: the balance is not checked.
MoveOneUnchecked(from, to) ==
    /\ from.mint = to.mint
    /\ amount' = [amount EXCEPT ![from.mint] =
                    [w \in Wallets |->
                        @[w] - (IF w = from.wallet THEN 1 ELSE 0) + (IF w = to.wallet THEN 1 ELSE 0)]]

\* spl_token transfer of 1 from account "from" to account "to".
MoveOne(from, to) ==
    /\ amount[from.mint][from.wallet] > 0
    /\ from.mint = to.mint
    /\ amount' = [amount EXCEPT ![from.mint] =
                    [w \in Wallets |->
                        @[w] - (IF w = from.wallet THEN 1 ELSE 0) + (IF w = to.wallet THEN 1 ELSE 0)]]

\* A wallet sends an NFT to another, or to the vault with no name for it.
SplTransfer(u, w, m) ==
    /\ w # u
    /\ MoveOne(Ata(u, m), Ata(w, m))
    /\ atas' = atas \cup {Ata(w, m)}
    /\ UNCHANGED <<nameOwner, ansNft>>

\* A wallet closes a token account that holds nothing.
CloseAta(u, m) ==
    /\ Ata(u, m) \in atas
    /\ amount[m][u] = 0
    /\ atas' = atas \ {Ata(u, m)}
    /\ UNCHANGED <<amount, nameOwner, ansNft>>

\* complete_wrapped: the NFT is minted for the recipient of the transfer.
CompleteWrapped(u, m) ==
    /\ atas' = atas \cup {Ata(u, m)}
    /\ amount' = [amount EXCEPT ![m][u] = @ + 1]
    /\ UNCHANGED <<nameOwner, ansNft>>

\* transfer_wrapped: the NFT is burned to be released on Ethereum.
TransferWrapped(u, m) ==
    /\ amount[m][u] > 0
    /\ amount' = [amount EXCEPT ![m][u] = @ - 1]
    /\ UNCHANGED <<atas, nameOwner, ansNft>>

\* The bridge holds one BNS token for a mint, so it mints the NFT only while
\* there is none.
NoneMinted(m) == \A w \in Wallets : amount[m][w] = 0

----------------------------------------------------------------------------
(* TLD House and Name House *)

\* BuyOrExtendRenewable: a name that does not exist or has lapsed goes to u. One that
\* exists is extended: it keeps its owner, but a later expiry has another mint, and so
\* no ANS NFT.
BuyOrExtendRenewable(u, t, n) ==
    LET Nothing == [ansNft EXCEPT ![t][n] = NoOne] IN
    \/ /\ nameOwner' = [nameOwner EXCEPT ![t][n] = u]
       /\ ansNft' = Nothing
    \/ /\ nameOwner[t][n] # NoOne
       /\ ansNft' \in {ansNft, Nothing}
       /\ UNCHANGED nameOwner

\* DeleteRenewable: only the owner deletes a name.
DeleteRenewable(u, t, n) ==
    /\ nameOwner[t][n] = u
    /\ nameOwner' = [nameOwner EXCEPT ![t][n] = NoOne]

\* Whatever TLD it is in, a name is bought or extended from its TLD house directly.
BuyName(u, t, n) ==
    /\ BuyOrExtendRenewable(u, t, n)
    /\ loose' = loose \cup {n}
    /\ IF nameOwner[t][n] = NoOne
         THEN sold < MaxSold /\ sold' = sold + 1
         ELSE UNCHANGED sold
    /\ UNCHANGED <<atas, amount>>

TransferName(u, v, t, n) ==
    /\ nameOwner[t][n] = u
    /\ v # u
    /\ nameOwner' = [nameOwner EXCEPT ![t][n] = v]
    /\ UNCHANGED <<atas, amount, ansNft>>

\* CreateRenewableMint and CreateRenewableNft (mintAnsNft): the name passes to
\* the record and its owner gets the NFT that stands for it.
CreateAnsNft(u, t, n) ==
    /\ nameOwner[t][n] = u
    /\ nameOwner' = [nameOwner EXCEPT ![t][n] = Record]
    /\ ansNft' = [ansNft EXCEPT ![t][n] = u]
    /\ UNCHANGED <<atas, amount>>

\* RedeemRenewableNft: the holder burns the NFT and gets the name.
RedeemRenewableNft(u, t, n) ==
    /\ ansNft[t][n] = u
    /\ ansNft' = [ansNft EXCEPT ![t][n] = NoOne]
    /\ nameOwner' = [nameOwner EXCEPT ![t][n] = u]
    /\ UNCHANGED <<atas, amount>>

TransferAnsNft(u, v, t, n) ==
    /\ ansNft[t][n] = u
    /\ v # u
    /\ ansNft' = [ansNft EXCEPT ![t][n] = v]
    /\ UNCHANGED <<atas, amount, nameOwner>>

----------------------------------------------------------------------------
(* The program *)

\* Faulty variant of the mint check: any bridged mint is accepted.
AnyMint(n, m) == m \in Mints

check_wormhole_mint_account(n, m) == m = MintOf[n]

\* assert_is_ata_enhanced: a is the associated token account of wallet and mint,
\* and, if it has to be initialised, it exists and is of that mint. Its is_token
\* argument skips the account's owner field, which only spl_token's
\* set_authority could make differ from the wallet of the address.
assert_is_ata_enhanced(a, wallet, mint, initialized) ==
    /\ initialized => a \in atas /\ a.mint = mint
    /\ a = Ata(wallet, mint)

\* Faulty variant of CheckedOrCreated: the account is not created.
CheckedOnly(a, wallet, mint) ==
    /\ assert_is_ata_enhanced(a, wallet, mint, FALSE)
    /\ UNCHANGED atas

\* An instruction's account a: it exists and is checked, or it is created.
CheckedOrCreated(a, wallet, mint) ==
    /\ assert_is_ata_enhanced(a, wallet, mint, a \in atas)
    /\ atas' = atas \cup {a}

\* Faulty variant of handle_domain_wrapping: the NFT stays with its owner.
WrapWithoutTransfer(u, n, k, t, m, userAta, vaultAta) ==
    /\ check_wormhole_mint_account(n, m)
    /\ assert_is_ata_enhanced(userAta, u, m, TRUE)
    /\ BuyOrExtendRenewable(u, t, k)
    /\ CheckedOrCreated(vaultAta, Vault, m)
    /\ UNCHANGED amount

\* wrap_domain: a name for the caller against the bridged NFT of n. The caller gives the
\* label n, the hash that the name account k.t is derived from, and the TLD; the program
\* compares the label with the mint, and with neither of the others. That k is n would
\* be for the TLD house to check, which gets both.
handle_domain_wrapping(u, n, k, t, m, userAta, vaultAta) ==
    /\ check_wormhole_mint_account(n, m)
    /\ assert_is_ata_enhanced(userAta, u, m, TRUE)
    /\ BuyOrExtendRenewable(u, t, k)
    /\ CheckedOrCreated(vaultAta, Vault, m)
    /\ MoveOne(userAta, vaultAta)

\* Faulty variant of handle_domain_redeeming: the name is not deleted.
RedeemWithoutDelete(u, n, k, t, m, userAta, vaultAta) ==
    /\ check_wormhole_mint_account(n, m)
    /\ nameOwner[t][k] = u
    /\ assert_is_ata_enhanced(vaultAta, Vault, m, TRUE)
    /\ CheckedOrCreated(userAta, u, m)
    /\ MoveOne(vaultAta, userAta)
    /\ UNCHANGED <<nameOwner, ansNft>>

\* redeem_nft: the bridged NFT of n against the deletion of the caller's name k.t, which
\* the program does not compare with n either.
handle_domain_redeeming(u, n, k, t, m, userAta, vaultAta) ==
    /\ check_wormhole_mint_account(n, m)
    /\ DeleteRenewable(u, t, k)
    /\ assert_is_ata_enhanced(vaultAta, Vault, m, TRUE)
    /\ CheckedOrCreated(userAta, u, m)
    /\ MoveOne(vaultAta, userAta)
    /\ UNCHANGED ansNft

----------------------------------------------------------------------------

\* A wrap with another name's NFT loosens the name account, a redemption against
\* another name's account the name of the NFT.
Program ==
    \E u \in Users, n, k \in Names, t \in Tlds, m \in Mints, a, b \in Atas :
        /\ \/ handle_domain_wrapping(u, n, k, t, m, a, b) /\ loose' = loose \cup ({k} \ {n})
           \/ handle_domain_redeeming(u, n, k, t, m, a, b) /\ loose' = loose \cup ({n} \ {k})
        /\ UNCHANGED sold

Tokens ==
    /\ \E u \in Users, m \in Mints :
          \/ NoneMinted(m) /\ CompleteWrapped(u, m)
          \/ TransferWrapped(u, m)
          \/ CloseAta(u, m)
          \/ \E w \in Wallets : SplTransfer(u, w, m)
    /\ UNCHANGED <<loose, sold>>

NameService ==
    \E u \in Users, t \in Tlds, n \in Names :
        \/ BuyName(u, t, n)
        \/ /\ \/ CreateAnsNft(u, t, n)
              \/ RedeemRenewableNft(u, t, n)
              \/ \E v \in Users : TransferName(u, v, t, n) \/ TransferAnsNft(u, v, t, n)
           /\ UNCHANGED <<loose, sold>>

Next == Program \/ Tokens \/ NameService

Spec == Init /\ [][Next]_vars

----------------------------------------------------------------------------
(* Safety *)

\* A bridged NFT is in one account, and an account that holds it is initialised.
OneUnit ==
    \A m \in Mints : \A w \in Wallets :
        amount[m][w] > 0 =>
            /\ amount[m][w] = 1
            /\ Ata(w, m) \in atas
            /\ \A x \in Wallets \ {w} : amount[m][x] = 0

\* n exists only against its bridged NFT in the vault, in one TLD at a time, and is
\* a record's exactly while its ANS NFT is held.
Backed(n) ==
    \A t \in Tlds :
        /\ nameOwner[t][n] # NoOne =>
              /\ amount[MintOf[n]][Vault] = 1
              /\ \A s \in Tlds \ {t} : nameOwner[s][n] = NoOne
        /\ (ansNft[t][n] # NoOne) <=> (nameOwner[t][n] = Record)

\* However wrap_domain, redeem_nft and the instructions of the NFT and of the name
\* interleave, only two things end a name's backing: a sale or an extension by a TLD
\* house, and an instruction whose name account and NFT are not of one name. Those of
\* other names, whatever they mix up, do not (wrap_domain.rs:134, 171-173, 255;
\* redeem_domain.rs:54-59, 110, 195).
NamesBacked == \A n \in Names \ loose : Backed(n)

Existing == {x \in Tlds \X Names : nameOwner[x[1]][x[2]] # NoOne}

InVault == {m \in Mints : amount[m][Vault] > 0}

\* Whichever label, name account and TLD the callers combine, and whatever TLD houses
\* sell, extend or resell in between: the vault holds an NFT for every name that exists,
\* but for as many as TLD houses made. No wrap makes two names or leaves its NFT
\* behind, no redemption frees an NFT and leaves its name (wrap_domain.rs:196-278;
\* redeem_domain.rs:140-211).
Covered == Cardinality(Existing) <= Cardinality(InVault) + sold

\* u gets the vault's unit of m for the deletion of the name k.t of its own.
ReleasedFor(u, m, t, k) ==
    /\ nameOwner[t][k] = u
    /\ nameOwner' = [nameOwner EXCEPT ![t][k] = NoOne]
    /\ amount' = [amount EXCEPT ![m][Vault] = @ - 1, ![m][u] = @ + 1]

\* The vault gives an NFT only to a wallet that deletes a name of its own for it, one
\* name for one NFT: which name, the program leaves open, but never an NFT for nothing,
\* for a name of somebody else, for a name that its record owns, or two for one
\* (redeem_domain.rs:110-211).
NameReleases ==
    [][\A m \in Mints :
         amount'[m][Vault] < amount[m][Vault] =>
             \E u \in Users, t \in Tlds, k \in Names : ReleasedFor(u, m, t, k)]_vars

\* The wallets that can dispose of the domain n: with its bridged NFT, with a
\* name account, or with the ANS NFT of one.
Bearers(n) ==
    {u \in Users : \/ amount[MintOf[n]][u] > 0
                   \/ \E t \in Tlds : nameOwner[t][n] = u \/ ansNft[t][n] = u}

\* The program, the name service and the bridge together keep one bearer per
\* domain until it departs, and no instruction of the program on one name changes who
\* it is. A domain whose name is loose has departed for good.
Bearer == INSTANCE DomainBearer
            WITH bearer <- [n \in Names |-> IF n \in loose THEN {} ELSE Bearers(n)]

OneBearer == Bearer!Spec
=============================================================================
