---------------------------- MODULE WormholeMint ----------------------------
(***************************************************************************)
(* The address of the Wormhole mint of a domain. It is derived from the    *)
(* token id, which is the hash of the label: the program computes it from  *)
(* the label and refuses another mint. The client names the mint of a      *)
(* domain that it unwraps by the hash of the label, and that of a domain   *)
(* that it wraps by the hexadecimal digits of the number in the VAA.       *)
(***************************************************************************)
EXTENDS Naturals, SequencesExt

CONSTANTS
    Width,  \* bytes of a token id; 32 in the code
    Base    \* values of a byte; 256 in the code

VARIABLES
    hash,   \* the hash of the label, as bytes
    mint,   \* the mint that the client names, by the token id in its seeds; <<>>: none yet
    checked \* "no", or whether the program took the mint: "passed" or "failed"

vars == <<hash, mint, checked>>

Bytes == 0..Base - 1

\* The number that bytes stand for (the VAA carries it, and U256 is parsed from digits).
Value(bytes) == FoldLeft(LAMBDA n, b : Base * n + b, 0, bytes)

\* Its last w bytes.
Digits(n, w) == [i \in 1..w |-> (n \div Base ^ (w - i)) % Base]

\* U256.to_big_endian: all of them.
to_big_endian(n) == Digits(n, Width)

\* BigNumber.toHexString: as few as it takes, and at least one.
toHexString(n) == Digits(n, CHOOSE w \in 1..Width : n < Base ^ w /\ (w = 1 \/ n >= Base ^ (w - 1)))

\* keccak_256 of a label, and the mint with it among its seeds.
getWormholeMintAccount(label) == label

\* The mint with the given digits among its seeds.
getWormholeMintAccountFromTokenId(tokenId) == tokenId

Init ==
    /\ hash \in [1..Width -> Bytes]
    /\ mint = <<>>
    /\ checked = "no"

\* redeemOnSolana passes on the number in the VAA.
wrapDomain ==
    /\ mint = <<>>
    /\ mint' = getWormholeMintAccountFromTokenId(toHexString(Value(hash)))
    /\ UNCHANGED <<hash, checked>>

unwrapDomain ==
    /\ mint = <<>>
    /\ mint' = getWormholeMintAccount(hash)
    /\ UNCHANGED <<hash, checked>>

check_wormhole_mint_account ==
    /\ mint # <<>>
    /\ checked = "no"
    /\ checked' = IF mint = to_big_endian(Value(hash)) THEN "passed" ELSE "failed"
    /\ UNCHANGED <<hash, mint>>

Next == wrapDomain \/ unwrapDomain \/ check_wormhole_mint_account

Spec == Init /\ [][Next]_vars

\* The program takes the mint that the client names for a domain, on the way to Solana
\* and on the way back (programs/bridge-name-service/src/utils.rs:50).
ClientMintPassesCheck == checked # "failed"
=============================================================================
