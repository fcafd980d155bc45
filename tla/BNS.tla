-------------------------------- MODULE BNS --------------------------------
(***************************************************************************)
(* The Ethereum side of the bridge: the contract BNS, which takes an ENS   *)
(* token into custody and mints a token of its own with the same id, and   *)
(* the ERC-721 ledgers it moves tokens in.                                 *)
(*                                                                         *)
(* An account with code is called back (onERC721Received) in the middle of *)
(* unwrapNFT, after the transfer and before the contract's own updates.    *)
(* Such a call is a frame of the variable calls: it is opened by           *)
(* unwrapNFTCall, what the receiver does next runs on top of it, and it    *)
(* ends with unwrapNFTReturn or is undone by unwrapNFTRevert.              *)
(***************************************************************************)
EXTENDS Naturals, Sequences

CONSTANTS
    Users,        \* accounts that send transactions, and the Wormhole NFT bridge
    Contracts,    \* the accounts among them that run code when they receive a token
    BNSContract,  \* the address of the contract itself
    NoOne,        \* the owner of a token that does not exist, and "no approval"
    Tokens,       \* the ERC-721 contracts in play
    ENS,          \* the ENS base registrar, the address wrapNFT insists on
    BNSToken,     \* the ledger of BNS tokens, the contract seen as an ERC-721
    CallTokens,   \* values callers give to the argument "token"
    Operators,    \* accounts an owner approves: the contract, the NFT bridge
    TokenIds,     \* uint256 token ids: keccak256 of a label
    Keys,         \* values of bytes32(uint256(uint160(id)))
    Key160,       \* the truncation itself: the key of an id
    MaxDepth      \* bound: nested unwrapNFT calls

Accounts == Users \cup {BNSContract}

ASSUME AccountsAssumption ==
    /\ Contracts \subseteq Users
    /\ BNSContract \notin Users
    /\ NoOne \notin Accounts
    /\ Operators \subseteq Accounts

ASSUME TokensAssumption ==
    /\ ENS \in Tokens
    /\ BNSToken \in Tokens
    /\ ENS # BNSToken
    /\ CallTokens \subseteq Tokens

ASSUME KeysAssumption == Key160 \in [TokenIds -> Keys]

ASSUME DepthAssumption == MaxDepth \in Nat

VARIABLES
    ownerOf,      \* ownerOf[t][id]: the owner of a token, by contract
    getApproved,  \* getApproved[t][id]: the account approved for a token
    wrapped,      \* wrappedTokens, by key
    calls         \* the unwrapNFT calls waiting for a receiver's callback

vars == <<ownerOf, getApproved, wrapped, calls>>

Ledgers == [Tokens -> [TokenIds -> Accounts \cup {NoOne}]]

\* What a revert restores: everything the contracts store.
Storage == [ownerOf : Ledgers, getApproved : Ledgers, wrapped : [Keys -> BOOLEAN]]

Frames == [caller : Contracts, token : CallTokens, id : TokenIds, saved : Storage]

TypeOK ==
    /\ ownerOf \in Ledgers
    /\ getApproved \in Ledgers
    /\ wrapped \in [Keys -> BOOLEAN]
    /\ calls \in Seq(Frames)

Minted(id) == ownerOf[BNSToken][id] # NoOne

\* A faulty variant of Store, for the properties to reject: the revert forgets
\* one of the mappings.
StoreWithoutWrapped == [ownerOf |-> ownerOf, getApproved |-> getApproved]

Store == [ownerOf |-> ownerOf, getApproved |-> getApproved, wrapped |-> wrapped]

\* The contract is deployed with no token wrapped; every other token has an
\* owner, who has approved no one.
Init ==
    /\ ownerOf \in {o \in [Tokens -> [TokenIds -> Users \cup {NoOne}]] :
                      \A t \in Tokens, id \in TokenIds :
                          (o[t][id] = NoOne) <=> (t = BNSToken)}
    /\ getApproved = [t \in Tokens |-> [id \in TokenIds |-> NoOne]]
    /\ wrapped = [k \in Keys |-> FALSE]
    /\ calls = <<>>

----------------------------------------------------------------------------
(* ERC-721 *)

\* The contracts run one transaction at a time: while a callback is pending
\* only code runs.
Running(u) == calls # <<>> => u \in Contracts

\* _transfer: the token changes hands and its approval is cleared.
Transferred(ledger, t, id, to) == [ledger EXCEPT ![t][id] = to]

Cleared(t, id) == [getApproved EXCEPT ![t][id] = NoOne]

\* approve(to, id) by the owner.
Approve(u, t, id, to) ==
    /\ Running(u)
    /\ ownerOf[t][id] = u
    /\ getApproved' = [getApproved EXCEPT ![t][id] = to]
    /\ UNCHANGED <<ownerOf, wrapped, calls>>

\* transferFrom(owner, to, id) by the owner or the approved account. The
\* contract is an ERC721Holder: it accepts a token that anyone sends to it.
TransferFrom(u, t, id, to) ==
    /\ Running(u)
    /\ ownerOf[t][id] # NoOne
    /\ u \in {ownerOf[t][id], getApproved[t][id]}
    /\ ownerOf[t][id] # to
    /\ ownerOf' = Transferred(ownerOf, t, id, to)
    /\ getApproved' = Cleared(t, id)
    /\ UNCHANGED <<wrapped, calls>>

----------------------------------------------------------------------------
(* wrapNFT *)

\* safeTransferFrom(msg.sender, address(this), id) inside wrapNFT: the sender
\* owns the token and has approved the contract.
CanDeposit(u, t, id) ==
    /\ ownerOf[t][id] = u
    /\ getApproved[t][id] = BNSContract

wrapNFT(u, token, id) ==
    /\ Running(u)
    /\ token = ENS
    /\ ~wrapped[Key160[id]]
    /\ CanDeposit(u, token, id)
    /\ ~Minted(id)
    /\ ownerOf' = Transferred(Transferred(ownerOf, token, id, BNSContract), BNSToken, id, u)
    /\ getApproved' = Cleared(token, id)
    /\ wrapped' = [wrapped EXCEPT ![Key160[id]] = TRUE]
    /\ UNCHANGED calls

----------------------------------------------------------------------------
(* unwrapNFT *)

\* The require of unwrapNFT and the transfer it starts with. No argument of
\* the transfer depends on who calls: it is from the contract, which owns the
\* token, to msg.sender.
CanRelease(token, id) ==
    /\ wrapped[Key160[id]]
    /\ ownerOf[token][id] = BNSContract

\* Faulty variants of Released: the entry is not reset; the token is not
\* burned; a missing token is burned all the same.
ReleasedWithoutReset(owners, approvals, id) ==
    /\ owners[BNSToken][id] # NoOne
    /\ ownerOf' = [owners EXCEPT ![BNSToken][id] = NoOne]
    /\ getApproved' = [approvals EXCEPT ![BNSToken][id] = NoOne]
    /\ UNCHANGED wrapped

ReleasedWithoutBurn(owners, approvals, id) ==
    /\ owners[BNSToken][id] # NoOne
    /\ wrapped' = [wrapped EXCEPT ![Key160[id]] = FALSE]
    /\ ownerOf' = owners
    /\ getApproved' = approvals

ReleasedUnchecked(owners, approvals, id) ==
    /\ wrapped' = [wrapped EXCEPT ![Key160[id]] = FALSE]
    /\ ownerOf' = [owners EXCEPT ![BNSToken][id] = NoOne]
    /\ getApproved' = [approvals EXCEPT ![BNSToken][id] = NoOne]

\* The two updates after the transfer, on the ledgers the transfer left:
\* wrappedTokens[...] = false, then _burn, which reverts if the id does not exist.
Released(owners, approvals, id) ==
    /\ owners[BNSToken][id] # NoOne
    /\ wrapped' = [wrapped EXCEPT ![Key160[id]] = FALSE]
    /\ ownerOf' = [owners EXCEPT ![BNSToken][id] = NoOne]
    /\ getApproved' = [approvals EXCEPT ![BNSToken][id] = NoOne]

\* The caller has no code: nothing runs between the transfer and the updates.
unwrapNFT(u, token, id) ==
    /\ calls = <<>>
    /\ u \notin Contracts
    /\ CanRelease(token, id)
    /\ Released(Transferred(ownerOf, token, id, u), Cleared(token, id), id)
    /\ UNCHANGED calls

\* The caller has code: the transfer is done and its onERC721Received runs.
unwrapNFTCall(u, token, id) ==
    /\ u \in Contracts
    /\ Len(calls) < MaxDepth
    /\ CanRelease(token, id)
    /\ calls' = Append(calls, [caller |-> u, token |-> token, id |-> id, saved |-> Store])
    /\ ownerOf' = Transferred(ownerOf, token, id, u)
    /\ getApproved' = Cleared(token, id)
    /\ UNCHANGED wrapped

Top == calls[Len(calls)]

Popped == SubSeq(calls, 1, Len(calls) - 1)

\* The callback has returned; the call completes on the state it finds now.
unwrapNFTReturn ==
    /\ calls # <<>>
    /\ Released(ownerOf, getApproved, Top.id)
    /\ calls' = Popped

\* The callback, or the _burn, reverts: the call has no effect.
unwrapNFTRevert ==
    /\ calls # <<>>
    /\ ownerOf' = Top.saved.ownerOf
    /\ getApproved' = Top.saved.getApproved
    /\ wrapped' = Top.saved.wrapped
    /\ calls' = Popped

----------------------------------------------------------------------------

Next ==
    \/ \E u \in Users, t \in Tokens, id \in TokenIds, to \in Operators : Approve(u, t, id, to)
    \/ \E u \in Users, t \in Tokens, id \in TokenIds, to \in Accounts : TransferFrom(u, t, id, to)
    \/ \E u \in Users, t \in CallTokens, id \in TokenIds : wrapNFT(u, t, id)
    \/ \E u \in Users, t \in CallTokens, id \in TokenIds : unwrapNFT(u, t, id)
    \/ \E u \in Users, t \in CallTokens, id \in TokenIds : unwrapNFTCall(u, t, id)
    \/ unwrapNFTReturn
    \/ unwrapNFTRevert

Spec == Init /\ [][Next]_vars

----------------------------------------------------------------------------
(* Safety *)

\* In a storage: an entry of wrappedTokens is set exactly while an id with
\* that key is minted, and no two ids with the same key are minted.
OneMinted(store) ==
    LET minted == {id \in TokenIds : store.ownerOf[BNSToken][id] # NoOne}
    IN  /\ \A k \in Keys : store.wrapped[k] => \E id \in minted : Key160[id] = k
        /\ \A id \in minted : store.wrapped[Key160[id]]
        /\ \A i, j \in minted : Key160[i] = Key160[j] => i = j

\* In a storage: the contract holds the ENS token of every minted id, those
\* in out excepted.
Held(store, out) ==
    \A id \in TokenIds \ out :
        store.ownerOf[BNSToken][id] # NoOne => store.ownerOf[ENS][id] = BNSContract

\* In a storage: no account is approved to take an ENS token from the contract.
Unapproved(store) ==
    \A id \in TokenIds :
        store.ownerOf[ENS][id] = BNSContract => store.getApproved[ENS][id] = NoOne

\* The ENS tokens that the first n pending unwrapNFT calls have handed out.
HandedOut(n) == {calls[m].id : m \in {k \in 1..n : calls[k].token = ENS}}

\* Two ids with the same low 160 bits share one entry of wrappedTokens, which
\* wrapNFT tests and unwrapNFT resets (BNS.sol:19-28, 33-41): the entry is set
\* exactly while one of them is minted, and never are two minted at once. So it
\* is in every storage that a pending call may revert to.
WrappedMeansOneMinted ==
    /\ OneMinted(Store)
    /\ \A n \in 1..Len(calls) : OneMinted(calls[n].saved)

\* A BNS token stands for an ENS token in the contract's custody, which no one
\* is approved to take, whatever a receiver's callback does between the transfer
\* and the burn (BNS.sol:38-41); only a token that a pending call has handed out
\* is missing. So it is in every storage that a pending call may revert to.
Custody ==
    /\ Held(Store, HandedOut(Len(calls)))
    /\ Unapproved(Store)
    /\ \A n \in 1..Len(calls) :
          Held(calls[n].saved, HandedOut(n - 1)) /\ Unapproved(calls[n].saved)

\* The storage at the start of the transaction that is running.
Before == IF calls = <<>> THEN Store ELSE calls[1].saved

\* A transaction takes an ENS token out of the contract only by burning the BNS
\* token that stood for it: no other id's entry in wrappedTokens (BNS.sol:34)
\* and no callback releases a token that was sent to the contract unwrapped.
ReleaseBurns ==
    [][calls' = <<>> =>
         \A id \in TokenIds :
             Before.ownerOf[ENS][id] = BNSContract /\ ownerOf'[ENS][id] # BNSContract =>
                 /\ Before.ownerOf[BNSToken][id] # NoOne
                 /\ ownerOf'[BNSToken][id] = NoOne]_vars
=============================================================================
