----------------------------- MODULE BNS_proofs -----------------------------
(***************************************************************************)
(* Proofs about the contract BNS, for any sets of accounts, token ids and  *)
(* keys, any truncation of ids to keys and any nesting of callbacks.       *)
(***************************************************************************)
EXTENDS BNS, SequenceTheorems, TLAPS

\* A token of a ledger changes hands: the result is a ledger, the token has its
\* new owner and every other token keeps its owner.
LEMMA TransferredLedger ==
    ASSUME NEW L \in Ledgers, NEW t \in Tokens, NEW id \in TokenIds,
           NEW to \in Accounts \cup {NoOne}
    PROVE  /\ Transferred(L, t, id, to) \in Ledgers
           /\ Transferred(L, t, id, to)[t][id] = to
           /\ \A t2 \in Tokens, i2 \in TokenIds :
                 t2 # t \/ i2 # id => Transferred(L, t, id, to)[t2][i2] = L[t2][i2]
BY DEF Transferred, Ledgers

\* Storage stays well typed and every pending call keeps a well-typed copy of
\* the storage it would revert to.
THEOREM TypeCorrect == Spec => []TypeOK
<1>1. Init => TypeOK
  BY DEF Init, TypeOK, Ledgers, Accounts, Frames
<1>2. TypeOK /\ [Next]_vars => TypeOK'
  <2> SUFFICES ASSUME TypeOK, [Next]_vars PROVE TypeOK'
    OBVIOUS
  <2> USE AccountsAssumption, TokensAssumption, KeysAssumption
  <2>1. CASE \E u \in Users, t \in Tokens, id \in TokenIds, to \in Operators : Approve(u, t, id, to)
    BY <2>1 DEF TypeOK, Ledgers, Approve, Accounts
  <2>2. CASE \E u \in Users, t \in Tokens, id \in TokenIds, to \in Accounts : TransferFrom(u, t, id, to)
    BY <2>2 DEF TypeOK, Ledgers, TransferFrom, Transferred, Cleared, Accounts
  <2>3. CASE \E u \in Users, t \in CallTokens, id \in TokenIds : wrapNFT(u, t, id)
    <3> PICK u \in Users, t \in CallTokens, id \in TokenIds : wrapNFT(u, t, id)
      BY <2>3
    <3>1. ownerOf' \in Ledgers
      BY TransferredLedger DEF TypeOK, wrapNFT, Accounts
    <3>2. getApproved' \in Ledgers
      BY TransferredLedger DEF TypeOK, wrapNFT, Cleared, Transferred
    <3> QED
      BY <3>1, <3>2 DEF TypeOK, wrapNFT
  <2>4. CASE \E u \in Users, t \in CallTokens, id \in TokenIds : unwrapNFT(u, t, id)
    <3> PICK u \in Users, t \in CallTokens, id \in TokenIds : unwrapNFT(u, t, id)
      BY <2>4
    <3>1. Transferred(ownerOf, t, id, u) \in Ledgers /\ Cleared(t, id) \in Ledgers
      BY TransferredLedger DEF TypeOK, Accounts, Cleared, Transferred
    <3>2. ownerOf' \in Ledgers /\ getApproved' \in Ledgers
      BY <3>1, TransferredLedger DEF unwrapNFT, Released, Transferred
    <3> QED
      BY <3>2 DEF TypeOK, unwrapNFT, Released
  <2>5. CASE \E u \in Users, t \in CallTokens, id \in TokenIds : unwrapNFTCall(u, t, id)
    <3> PICK u \in Users, t \in CallTokens, id \in TokenIds : unwrapNFTCall(u, t, id)
      BY <2>5
    <3>1. ownerOf' \in Ledgers /\ getApproved' \in Ledgers /\ wrapped' \in [Keys -> BOOLEAN]
      BY DEF TypeOK, Ledgers, unwrapNFTCall, Transferred, Cleared, Accounts
    <3>2. [caller |-> u, token |-> t, id |-> id, saved |-> Store] \in Frames
      BY DEF Frames, Store, Storage, TypeOK, unwrapNFTCall
    <3>3. calls' \in Seq(Frames)
      BY <3>2 DEF TypeOK, unwrapNFTCall
    <3> QED
      BY <3>1, <3>3 DEF TypeOK
  <2>6. CASE unwrapNFTReturn
    <3>1. Len(calls) \in 1..Len(calls) /\ Top \in Frames /\ Popped \in Seq(Frames)
      BY <2>6, SubSeqProperties DEF TypeOK, unwrapNFTReturn, Top, Popped
    <3> QED
      BY <2>6, <3>1 DEF TypeOK, Ledgers, unwrapNFTReturn, Released, Accounts, Frames
  <2>7. CASE unwrapNFTRevert
    <3>1. Len(calls) \in 1..Len(calls) /\ Top \in Frames /\ Popped \in Seq(Frames)
      BY <2>7, SubSeqProperties DEF TypeOK, unwrapNFTRevert, Top, Popped
    <3> QED
      BY <2>7, <3>1 DEF TypeOK, unwrapNFTRevert, Frames, Storage
  <2>8. CASE UNCHANGED vars
    BY <2>8 DEF TypeOK, vars
  <2> QED
    BY <2>1, <2>2, <2>3, <2>4, <2>5, <2>6, <2>7, <2>8 DEF Next
<1> QED
  BY <1>1, <1>2, PTL DEF Spec
-----------------------------------------------------------------------------

\* What wrapNFT, unwrapNFT and a revert preserve, of a storage.
Sound(store, out) == OneMinted(store) /\ Held(store, out) /\ Unapproved(store)

\* The inductive invariant: the current storage is sound but for the tokens the
\* pending calls have handed out, and the storage that call n would revert to is
\* sound but for those of the calls below it.
IInv ==
    /\ TypeOK
    /\ Sound(Store, HandedOut(Len(calls)))
    /\ \A n \in 1..Len(calls) : Sound(calls[n].saved, HandedOut(n - 1))

\* No token is minted at deployment and no one is approved.
LEMMA InitSound == Init => IInv
<1> SUFFICES ASSUME Init PROVE IInv
  OBVIOUS
<1> USE TokensAssumption, KeysAssumption
<1>1. TypeOK
  BY DEF Init, TypeOK, Ledgers, Accounts, Frames
<1>2. \A id \in TokenIds : ownerOf[BNSToken][id] = NoOne /\ getApproved[ENS][id] = NoOne
  BY DEF Init
<1>3. Sound(Store, HandedOut(Len(calls)))
  BY <1>2 DEF Sound, OneMinted, Held, Unapproved, Store, Init
<1> QED
  BY <1>1, <1>3 DEF IInv, Init

\* A step that leaves the pending calls alone only has to keep storage sound.
LEMMA SameCalls ==
    ASSUME IInv, UNCHANGED calls, TypeOK', Sound(Store, HandedOut(Len(calls)))'
    PROVE  IInv'
<1>1. ASSUME NEW n PROVE HandedOut(n)' = HandedOut(n)
  BY DEF HandedOut
<1>2. ASSUME NEW n \in 1..Len(calls') PROVE Sound(calls[n].saved, HandedOut(n - 1))'
  <2>1. Sound(calls[n].saved, HandedOut(n - 1)) /\ calls' = calls
    BY DEF IInv
  <2>2. HandedOut(n - 1)' = HandedOut(n - 1)
    BY <1>1
  <2> QED
    BY <2>1, <2>2 DEF Sound, OneMinted, Held, Unapproved
<1> QED
  BY <1>2 DEF IInv

LEMMA ApproveSound ==
    ASSUME IInv, NEW u \in Users, NEW t \in Tokens, NEW id \in TokenIds, NEW to \in Operators,
           Approve(u, t, id, to), TypeOK'
    PROVE  IInv'
<1> USE AccountsAssumption, TokensAssumption
<1>1. Unapproved(Store)'
  <2> SUFFICES ASSUME NEW i \in TokenIds, ownerOf[ENS][i] = BNSContract
               PROVE  getApproved'[ENS][i] = NoOne
    BY DEF Unapproved, Store, Approve
  <2>1. getApproved[ENS][i] = NoOne
    BY DEF IInv, Sound, Unapproved, Store
  <2>2. t # ENS \/ id # i
    BY DEF Approve
  <2> QED
    BY <2>1, <2>2 DEF Approve, IInv, TypeOK, Ledgers
<1>2. Sound(Store, HandedOut(Len(calls)))'
  BY <1>1 DEF IInv, Sound, OneMinted, Held, Store, HandedOut, Approve
<1> QED
  BY <1>2, SameCalls DEF Approve

\* A token that changes hands stays minted, and no one may move an ENS token
\* that the contract owns.
LEMMA TransferSound ==
    ASSUME IInv, NEW u \in Users, NEW t \in Tokens, NEW id \in TokenIds, NEW to \in Accounts,
           TransferFrom(u, t, id, to), TypeOK'
    PROVE  IInv'
<1> USE AccountsAssumption, TokensAssumption
<1>1. /\ \A t2 \in Tokens, i2 \in TokenIds :
            t2 # t \/ i2 # id => /\ ownerOf'[t2][i2] = ownerOf[t2][i2]
                                /\ getApproved'[t2][i2] = getApproved[t2][i2]
      /\ ownerOf'[t][id] = to
      /\ getApproved'[t][id] = NoOne
  <2>1. /\ ownerOf' = Transferred(ownerOf, t, id, to)
        /\ getApproved' = Transferred(getApproved, t, id, NoOne)
    BY DEF TransferFrom, Cleared, Transferred
  <2>2. ownerOf \in Ledgers /\ getApproved \in Ledgers
    BY DEF IInv, TypeOK
  <2>3. NoOne \in Accounts \cup {NoOne} /\ to \in Accounts \cup {NoOne}
    OBVIOUS
  <2>4. /\ Transferred(ownerOf, t, id, to)[t][id] = to
        /\ \A t2 \in Tokens, i2 \in TokenIds :
              t2 # t \/ i2 # id => Transferred(ownerOf, t, id, to)[t2][i2] = ownerOf[t2][i2]
    BY <2>2, <2>3, TransferredLedger
  <2>5. /\ Transferred(getApproved, t, id, NoOne)[t][id] = NoOne
        /\ \A t2 \in Tokens, i2 \in TokenIds :
              t2 # t \/ i2 # id => Transferred(getApproved, t, id, NoOne)[t2][i2] = getApproved[t2][i2]
    BY <2>2, <2>3, TransferredLedger
  <2> QED
    BY <2>1, <2>4, <2>5
<1>2. \A i \in TokenIds : Minted(i)' <=> Minted(i)
  BY <1>1 DEF Minted, TransferFrom, Accounts
<1>3. \A i \in TokenIds : ownerOf[ENS][i] = BNSContract => ownerOf'[ENS][i] = BNSContract
  <2> SUFFICES ASSUME NEW i \in TokenIds, ownerOf[ENS][i] = BNSContract
               PROVE  t # ENS \/ id # i
    BY <1>1
  <2>1. getApproved[ENS][i] = NoOne
    BY DEF IInv, Sound, Unapproved, Store
  <2> QED
    BY <2>1 DEF TransferFrom, Accounts
<1>4. Unapproved(Store)'
  BY <1>1 DEF IInv, Sound, Unapproved, Store
<1>5. OneMinted(Store)'
  BY <1>2 DEF IInv, Sound, OneMinted, Store, Minted, TransferFrom
<1>6. Held(Store, HandedOut(Len(calls)))'
  BY <1>2, <1>3 DEF IInv, Sound, Held, Store, Minted, TransferFrom, HandedOut
<1> QED
  <2>1. Sound(Store, HandedOut(Len(calls)))'
    BY <1>4, <1>5, <1>6 DEF Sound
  <2> QED
    BY <2>1, SameCalls DEF TransferFrom

\* wrapNFT mints an id whose key is free, with the ENS token in custody.
LEMMA WrapSound ==
    ASSUME IInv, NEW u \in Users, NEW t \in CallTokens, NEW id \in TokenIds,
           wrapNFT(u, t, id), TypeOK'
    PROVE  IInv'
<1> USE AccountsAssumption, TokensAssumption, KeysAssumption
<1>1. /\ ownerOf'[ENS][id] = BNSContract
      /\ ownerOf'[BNSToken][id] = u
      /\ getApproved'[ENS][id] = NoOne
      /\ \A i \in TokenIds \ {id} : /\ ownerOf'[ENS][i] = ownerOf[ENS][i]
                                    /\ ownerOf'[BNSToken][i] = ownerOf[BNSToken][i]
                                    /\ getApproved'[ENS][i] = getApproved[ENS][i]
  <2> DEFINE L == Transferred(ownerOf, ENS, id, BNSContract)
  <2>1. L \in Ledgers /\ L[ENS][id] = BNSContract
    BY TransferredLedger DEF IInv, TypeOK, Accounts
  <2>2. \A t2 \in Tokens, i2 \in TokenIds : t2 # ENS \/ i2 # id => L[t2][i2] = ownerOf[t2][i2]
    BY TransferredLedger DEF IInv, TypeOK, Accounts
  <2>3. ownerOf' = Transferred(L, BNSToken, id, u)
    BY DEF wrapNFT
  <2>4. /\ ownerOf'[BNSToken][id] = u
        /\ \A t2 \in Tokens, i2 \in TokenIds :
              t2 # BNSToken \/ i2 # id => ownerOf'[t2][i2] = L[t2][i2]
    <3> HIDE DEF L
    <3>1. u \in Accounts \cup {NoOne}
      BY DEF Accounts
    <3> QED
      BY <2>1, <2>3, <3>1, TransferredLedger
  <2>5. getApproved' = Transferred(getApproved, ENS, id, NoOne)
    BY DEF wrapNFT, Cleared, Transferred
  <2>6. /\ getApproved'[ENS][id] = NoOne
        /\ \A i \in TokenIds \ {id} : getApproved'[ENS][i] = getApproved[ENS][i]
    BY <2>5, TransferredLedger DEF IInv, TypeOK
  <2> QED
    BY <2>1, <2>2, <2>4, <2>6
<1>2. Unapproved(Store)'
  BY <1>1 DEF IInv, Sound, Unapproved, Store
<1>3. \A i \in TokenIds : Minted(i)' <=> Minted(i) \/ i = id
  BY <1>1 DEF Minted, Accounts
<1>4. \A i \in TokenIds : Minted(i) => Key160[i] # Key160[id]
  BY DEF IInv, Sound, OneMinted, Store, Minted, wrapNFT
<1>5. \A k \in Keys : wrapped'[k] <=> wrapped[k] \/ k = Key160[id]
  BY DEF wrapNFT, IInv, TypeOK
<1>6. OneMinted(Store)'
  BY <1>3, <1>4, <1>5 DEF IInv, Sound, OneMinted, Store, Minted
<1>7. Held(Store, HandedOut(Len(calls)))'
  BY <1>1, <1>3 DEF IInv, Sound, Held, Store, Minted, wrapNFT, HandedOut
<1> QED
  <2>1. Sound(Store, HandedOut(Len(calls)))'
    BY <1>2, <1>6, <1>7 DEF Sound
  <2> QED
    BY <2>1, SameCalls DEF wrapNFT

\* The updates that end unwrapNFT, on ledgers that differ from a sound storage
\* at most in who owns the ENS token of id: burning id makes storage sound
\* without it.
LEMMA ReleasedSound ==
    ASSUME NEW owners \in Ledgers, NEW approvals \in Ledgers, wrapped \in [Keys -> BOOLEAN],
           NEW id \in TokenIds, NEW out,
           Sound([ownerOf |-> owners, getApproved |-> approvals, wrapped |-> wrapped], out \cup {id}),
           Released(owners, approvals, id)
    PROVE  Sound(Store, out)'
<1> USE AccountsAssumption, TokensAssumption, KeysAssumption
<1>1. /\ ownerOf'[BNSToken][id] = NoOne
      /\ \A i \in TokenIds : ownerOf'[ENS][i] = owners[ENS][i]
      /\ \A i \in TokenIds \ {id} : ownerOf'[BNSToken][i] = owners[BNSToken][i]
      /\ \A i \in TokenIds : getApproved'[ENS][i] = approvals[ENS][i]
  BY DEF Released, Ledgers
<1>2. \A k \in Keys : wrapped'[k] <=> wrapped[k] /\ k # Key160[id]
  BY DEF Released
<1>3. \A i \in TokenIds \ {id} : owners[BNSToken][i] # NoOne => Key160[i] # Key160[id]
  BY DEF Released, Sound, OneMinted
<1>4. OneMinted(Store)'
  BY <1>1, <1>2, <1>3 DEF Sound, OneMinted, Store
<1>5. Held(Store, out)'
  BY <1>1 DEF Sound, Held, Store
<1>6. Unapproved(Store)'
  BY <1>1 DEF Sound, Unapproved, Store
<1> QED
  BY <1>4, <1>5, <1>6 DEF Sound

\* The transfer that starts unwrapNFT: what it leaves is sound but for the ENS
\* token it hands out.
LEMMA TransferOutSound ==
    ASSUME IInv, NEW u \in Users, NEW t \in CallTokens, NEW id \in TokenIds, CanRelease(t, id)
    PROVE  Sound([ownerOf |-> Transferred(ownerOf, t, id, u), getApproved |-> Cleared(t, id),
                  wrapped |-> wrapped],
                 HandedOut(Len(calls)) \cup (IF t = ENS THEN {id} ELSE {}))
<1> USE AccountsAssumption, TokensAssumption
<1> DEFINE owners == Transferred(ownerOf, t, id, u)
           approvals == Cleared(t, id)
           out == HandedOut(Len(calls))
           s == [ownerOf |-> owners, getApproved |-> approvals, wrapped |-> wrapped]
<1>1. /\ owners[t][id] = u
      /\ \A t2 \in Tokens, i2 \in TokenIds : t2 # t \/ i2 # id => owners[t2][i2] = ownerOf[t2][i2]
  <2>1. ownerOf \in Ledgers /\ t \in Tokens /\ u \in Accounts \cup {NoOne}
    BY DEF IInv, TypeOK, Accounts
  <2> QED
    BY <2>1, TransferredLedger
<1>2. /\ approvals[t][id] = NoOne
      /\ \A t2 \in Tokens, i2 \in TokenIds : t2 # t \/ i2 # id => approvals[t2][i2] = getApproved[t2][i2]
  <2>1. getApproved \in Ledgers /\ t \in Tokens /\ NoOne \in Accounts \cup {NoOne}
    BY DEF IInv, TypeOK
  <2>2. approvals = Transferred(getApproved, t, id, NoOne)
    BY DEF Cleared, Transferred
  <2> QED
    BY <2>1, <2>2, TransferredLedger
<1>3. ownerOf[t][id] = BNSContract
  BY DEF CanRelease
<1>4. Sound(Store, out)
  BY DEF IInv
<1>5. \A i \in TokenIds : owners[BNSToken][i] # NoOne <=> ownerOf[BNSToken][i] # NoOne
  BY <1>1, <1>3 DEF Accounts
<1> HIDE DEF owners, approvals, out
<1>6. OneMinted(s)
  BY <1>4, <1>5 DEF Sound, OneMinted, Store
<1>7. Held(s, out \cup (IF t = ENS THEN {id} ELSE {}))
  BY <1>1, <1>4, <1>5 DEF Sound, Held, Store
<1>8. Unapproved(s)
  BY <1>1, <1>2, <1>4 DEF Sound, Unapproved, Store
<1> QED
  BY <1>6, <1>7, <1>8 DEF Sound, owners, approvals, out

LEMMA UnwrapSound ==
    ASSUME IInv, NEW u \in Users, NEW t \in CallTokens, NEW id \in TokenIds,
           unwrapNFT(u, t, id), TypeOK'
    PROVE  IInv'
<1> USE TokensAssumption
<1> DEFINE owners == Transferred(ownerOf, t, id, u)
           approvals == Cleared(t, id)
           out == HandedOut(Len(calls))
           s == [ownerOf |-> owners, getApproved |-> approvals, wrapped |-> wrapped]
<1>1. Sound(s, out \cup {id})
  <2>1. Sound(s, out \cup (IF t = ENS THEN {id} ELSE {}))
    BY TransferOutSound DEF unwrapNFT
  <2> QED
    BY <2>1 DEF Sound, Held
<1>2. owners \in Ledgers /\ approvals \in Ledgers /\ wrapped \in [Keys -> BOOLEAN]
  <2>1. ownerOf \in Ledgers /\ getApproved \in Ledgers /\ wrapped \in [Keys -> BOOLEAN] /\ t \in Tokens
    BY DEF IInv, TypeOK
  <2>2. approvals = Transferred(getApproved, t, id, NoOne)
    BY DEF Cleared, Transferred
  <2>3. u \in Accounts \cup {NoOne} /\ NoOne \in Accounts \cup {NoOne}
    BY DEF Accounts
  <2>4. owners \in Ledgers
    BY <2>1, <2>3, TransferredLedger
  <2>5. approvals \in Ledgers
    BY <2>1, <2>2, <2>3, TransferredLedger
  <2> QED
    BY <2>1, <2>4, <2>5
<1>3. Released(owners, approvals, id)
  BY DEF unwrapNFT
<1>4. calls' = calls
  BY DEF unwrapNFT
<1> HIDE DEF owners, approvals
<1>5. Sound(Store, out)'
  <2> HIDE DEF out
  <2>1. \A i : i \in out' <=> i \in out
    BY <1>4 DEF out, HandedOut
  <2>2. Sound(Store', out)
    BY <1>1, <1>2, <1>3, ReleasedSound
  <2> QED
    BY <2>1, <2>2 DEF Sound, OneMinted, Held, Unapproved
<1> QED
  BY <1>4, <1>5, SameCalls

\* The receiver's callback starts: the new frame keeps the sound storage from
\* before the transfer.
LEMMA CallSound ==
    ASSUME IInv, NEW u \in Users, NEW t \in CallTokens, NEW id \in TokenIds,
           unwrapNFTCall(u, t, id), TypeOK'
    PROVE  IInv'
<1> USE TokensAssumption
<1> DEFINE f == [caller |-> u, token |-> t, id |-> id, saved |-> Store]
           out == HandedOut(Len(calls))
<1>1. /\ Len(calls) \in Nat
      /\ Len(calls') = Len(calls) + 1
      /\ calls'[Len(calls) + 1] = f
      /\ \A n \in 1..Len(calls) : calls'[n] = calls[n]
  <2>1. calls \in Seq(Frames) /\ calls' \in Seq(Frames) /\ calls' = Append(calls, f)
    BY DEF IInv, TypeOK, unwrapNFTCall
  <2> QED
    BY <2>1
<1>2. ASSUME NEW n \in 0..Len(calls) PROVE HandedOut(n)' = HandedOut(n)
  BY <1>1 DEF HandedOut
<1>3. HandedOut(Len(calls))' = out \cup (IF t = ENS THEN {id} ELSE {})
  <2> HIDE DEF f
  <2>1. f.token = t /\ f.id = id
    BY DEF f
  <2>2. \A x : x \in HandedOut(Len(calls))' <=> x \in out \/ (t = ENS /\ x = id)
    BY <1>1, <2>1 DEF HandedOut
  <2> QED
    BY <2>2
<1>4. Sound(Store, HandedOut(Len(calls)))'
  <2>1. Store' = [ownerOf |-> Transferred(ownerOf, t, id, u), getApproved |-> Cleared(t, id),
                  wrapped |-> wrapped]
    BY DEF Store, unwrapNFTCall
  <2>2. Sound(Store', out \cup (IF t = ENS THEN {id} ELSE {}))
    BY <2>1, TransferOutSound DEF unwrapNFTCall
  <2> QED
    BY <1>3, <2>2 DEF Sound, OneMinted, Held, Unapproved
<1>5. ASSUME NEW n \in 1..Len(calls') PROVE Sound(calls[n].saved, HandedOut(n - 1))'
  <2>1. HandedOut(n - 1)' = HandedOut(n - 1)
    BY <1>1, <1>2
  <2>2. CASE n \in 1..Len(calls)
    <3>1. Sound(calls[n].saved, HandedOut(n - 1)) /\ calls'[n] = calls[n]
      BY <1>1, <2>2 DEF IInv
    <3> QED
      BY <2>1, <3>1 DEF Sound, OneMinted, Held, Unapproved
  <2>3. CASE n = Len(calls) + 1
    <3>1. calls'[n].saved = Store /\ n - 1 = Len(calls)
      BY <1>1, <2>3
    <3>2. Sound(Store, out)
      BY DEF IInv
    <3> QED
      BY <2>1, <3>1, <3>2 DEF Sound, OneMinted, Held, Unapproved
  <2> QED
    BY <1>1, <2>2, <2>3
<1> QED
  BY <1>4, <1>5 DEF IInv

\* The call on top ends: those below it, and what they saved, are as they were.
LEMMA PoppedCalls ==
    ASSUME TypeOK, calls # <<>>, calls' = Popped
    PROVE  /\ Len(calls) \in Nat \ {0}
           /\ Len(calls') = Len(calls) - 1
           /\ \A n \in 1..Len(calls') : calls'[n] = calls[n]
           /\ \A n \in 0..Len(calls') : HandedOut(n)' = HandedOut(n)
<1>1. /\ Len(calls) \in Nat \ {0}
      /\ Len(calls') = Len(calls) - 1
      /\ \A n \in 1..Len(calls') : calls'[n] = calls[n]
  <2>1. calls \in Seq(Frames) /\ Len(calls) \in Nat \ {0}
    BY DEF TypeOK
  <2> DEFINE N == Len(calls) - 1
  <2>2. N \in Nat /\ \A i \in 1..N : calls[i] \in Frames
    BY <2>1
  <2>3. /\ Len(SubSeq(calls, 1, N)) = IF 1 <= N THEN N - 1 + 1 ELSE 0
        /\ \A i \in 1..(N - 1 + 1) : SubSeq(calls, 1, N)[i] = calls[1 + i - 1]
    <3> HIDE DEF N
    <3> QED
      BY <2>2, SubSeqProperties
  <2>4. calls' = SubSeq(calls, 1, N)
    BY DEF Popped
  <2> HIDE DEF N
  <2>5. Len(calls') = N /\ \A n \in 1..N : calls'[n] = calls[n]
    BY <2>2, <2>3, <2>4
  <2> QED
    BY <2>1, <2>5 DEF N
<1>2. ASSUME NEW n \in 0..Len(calls') PROVE HandedOut(n)' = HandedOut(n)
  BY <1>1 DEF HandedOut
<1> QED
  BY <1>1, <1>2

\* What is left to show when a call ends: the storage it ends with is sound but
\* for the tokens of the calls below it.
LEMMA EndedCall ==
    ASSUME IInv, TypeOK', calls # <<>>, calls' = Popped, Sound(Store', HandedOut(Len(calls) - 1))
    PROVE  IInv'
<1>1. /\ Len(calls) \in Nat \ {0}
      /\ Len(calls') = Len(calls) - 1
      /\ \A n \in 1..Len(calls') : calls'[n] = calls[n]
      /\ \A n \in 0..Len(calls') : HandedOut(n)' = HandedOut(n)
  BY PoppedCalls DEF IInv
<1>2. Sound(Store, HandedOut(Len(calls)))'
  <2>1. HandedOut(Len(calls))' = HandedOut(Len(calls) - 1)
    BY <1>1
  <2> QED
    BY <2>1 DEF Sound, OneMinted, Held, Unapproved
<1>3. ASSUME NEW n \in 1..Len(calls') PROVE Sound(calls[n].saved, HandedOut(n - 1))'
  <2>1. Sound(calls[n].saved, HandedOut(n - 1)) /\ calls'[n] = calls[n]
    BY <1>1 DEF IInv
  <2>2. HandedOut(n - 1)' = HandedOut(n - 1)
    BY <1>1
  <2> QED
    BY <2>1, <2>2 DEF Sound, OneMinted, Held, Unapproved
<1> QED
  BY <1>2, <1>3 DEF IInv

LEMMA ReturnSound == ASSUME IInv, unwrapNFTReturn, TypeOK' PROVE IInv'
<1> DEFINE below == HandedOut(Len(calls) - 1)
<1>1. Len(calls) \in Nat \ {0} /\ Top.id \in TokenIds
  <2>1. calls \in Seq(Frames) /\ calls # <<>>
    BY DEF IInv, TypeOK, unwrapNFTReturn
  <2>2. Len(calls) \in Nat \ {0} /\ Len(calls) \in 1..Len(calls)
    BY <2>1
  <2>3. Top \in Frames
    BY <2>1, <2>2 DEF Top
  <2> QED
    BY <2>2, <2>3 DEF Frames
<1>2. HandedOut(Len(calls)) \subseteq below \cup {Top.id}
  BY <1>1 DEF HandedOut, Top
<1> HIDE DEF below
<1>3. Sound(Store, below \cup {Top.id})
  <2>1. Sound(Store, HandedOut(Len(calls)))
    BY DEF IInv
  <2> QED
    BY <1>2, <2>1 DEF Sound, Held
<1>4. Sound(Store', below)
  BY <1>1, <1>3, ReleasedSound DEF unwrapNFTReturn, Store, IInv, TypeOK
<1> QED
  BY <1>4, EndedCall DEF unwrapNFTReturn, below

LEMMA RevertSound == ASSUME IInv, unwrapNFTRevert, TypeOK' PROVE IInv'
<1>1. Len(calls) \in Nat \ {0} /\ Top.saved \in Storage
  <2>1. calls \in Seq(Frames) /\ calls # <<>>
    BY DEF IInv, TypeOK, unwrapNFTRevert
  <2>2. Len(calls) \in Nat \ {0} /\ Len(calls) \in 1..Len(calls)
    BY <2>1
  <2>3. Top \in Frames
    BY <2>1, <2>2 DEF Top
  <2> QED
    BY <2>2, <2>3 DEF Frames
<1>2. Sound(Top.saved, HandedOut(Len(calls) - 1))
  BY <1>1 DEF IInv, Top
<1>3. Store' = Top.saved
  BY <1>1 DEF Store, Storage, unwrapNFTRevert
<1> QED
  BY <1>2, <1>3, EndedCall DEF unwrapNFTRevert

\* The invariant holds in every reachable state.
THEOREM Invariance == Spec => []IInv
<1>1. IInv /\ TypeOK' /\ [Next]_vars => IInv'
  <2> SUFFICES ASSUME IInv, TypeOK', [Next]_vars PROVE IInv'
    OBVIOUS
  <2>1. CASE \E u \in Users, t \in Tokens, id \in TokenIds, to \in Operators : Approve(u, t, id, to)
    BY <2>1, ApproveSound
  <2>2. CASE \E u \in Users, t \in Tokens, id \in TokenIds, to \in Accounts : TransferFrom(u, t, id, to)
    BY <2>2, TransferSound
  <2>3. CASE \E u \in Users, t \in CallTokens, id \in TokenIds : wrapNFT(u, t, id)
    BY <2>3, WrapSound
  <2>4. CASE \E u \in Users, t \in CallTokens, id \in TokenIds : unwrapNFT(u, t, id)
    BY <2>4, UnwrapSound
  <2>5. CASE \E u \in Users, t \in CallTokens, id \in TokenIds : unwrapNFTCall(u, t, id)
    BY <2>5, CallSound
  <2>6. CASE unwrapNFTReturn
    BY <2>6, ReturnSound
  <2>7. CASE unwrapNFTRevert
    BY <2>7, RevertSound
  <2>8. CASE UNCHANGED vars
    <3>1. calls' = calls /\ Store' = Store /\ HandedOut(Len(calls))' = HandedOut(Len(calls))
      BY <2>8 DEF vars, Store, HandedOut
    <3>2. Sound(Store, HandedOut(Len(calls)))'
      BY <3>1 DEF IInv, Sound, OneMinted, Held, Unapproved
    <3> QED
      BY <3>1, <3>2, SameCalls
  <2> QED
    BY <2>1, <2>2, <2>3, <2>4, <2>5, <2>6, <2>7, <2>8 DEF Next
<1> QED
  BY <1>1, InitSound, TypeCorrect, PTL DEF Spec

\* For any truncation of ids to keys, wrappedTokens[k] is set exactly while one
\* id with key k is minted, and no two are.
THEOREM WrappedMeansOneMintedAlways == Spec => []WrappedMeansOneMinted
<1>1. IInv => WrappedMeansOneMinted
  BY DEF IInv, Sound, WrappedMeansOneMinted
<1> QED
  BY <1>1, Invariance, PTL

\* The contract holds the ENS token of every minted id that no pending call has
\* handed out, however deep the callbacks nest.
THEOREM CustodyAlways == Spec => []Custody
<1>1. IInv => Custody
  BY DEF IInv, Sound, Custody
<1> QED
  BY <1>1, Invariance, PTL
-----------------------------------------------------------------------------
(* ReleaseBurns: transactions compared with their beginning. *)

\* What an id may lose before a token is missing: its ENS token in custody counts
\* as one, and so does a BNS token that does not exist.
Surplus(store, id) ==
    (IF store.ownerOf[ENS][id] = BNSContract THEN 1 ELSE 0)
    + (IF store.ownerOf[BNSToken][id] = NoOne THEN 1 ELSE 0)

\* What the pending call n has handed out and will burn.
Owes(n, id) == IF calls[n].token = ENS /\ calls[n].id = id THEN 1 ELSE 0

\* The storage that the code above call n started with.
Above(n) == IF n < Len(calls) THEN calls[n + 1].saved ELSE Store

\* From the start of each pending call to that of the next, or to now, an id has
\* lost no more than the call owes.
SurplusInv ==
    \A n \in 1..Len(calls), id \in TokenIds :
        Surplus(Above(n), id) + Owes(n, id) >= Surplus(calls[n].saved, id)

\* A step that leaves the pending calls alone takes no ENS token out of custody
\* but with the BNS token that is burned for it.
LEMMA SteadySurplus ==
    ASSUME IInv, Next, calls' = calls, NEW i \in TokenIds
    PROVE  Surplus(Store', i) >= Surplus(Store, i)
<1> USE AccountsAssumption, TokensAssumption
<1>1. CASE \E u \in Users, t \in Tokens, id \in TokenIds, to \in Operators : Approve(u, t, id, to)
  BY <1>1 DEF Approve, Surplus, Store
<1>2. CASE \E u \in Users, t \in Tokens, id \in TokenIds, to \in Accounts : TransferFrom(u, t, id, to)
  <2> PICK u \in Users, t \in Tokens, id \in TokenIds, to \in Accounts : TransferFrom(u, t, id, to)
    BY <1>2
  <2>1. ownerOf \in Ledgers /\ to \in Accounts \cup {NoOne}
    BY DEF IInv, TypeOK
  <2>2. /\ ownerOf'[t][id] = to
        /\ \A t2 \in Tokens, i2 \in TokenIds : t2 # t \/ i2 # id => ownerOf'[t2][i2] = ownerOf[t2][i2]
    <3>1. /\ Transferred(ownerOf, t, id, to)[t][id] = to
          /\ \A t2 \in Tokens, i2 \in TokenIds :
                t2 # t \/ i2 # id => Transferred(ownerOf, t, id, to)[t2][i2] = ownerOf[t2][i2]
      BY <2>1, TransferredLedger
    <3> QED
      BY <3>1 DEF TransferFrom
  <2>3. ownerOf[ENS][i] = BNSContract => ownerOf'[ENS][i] = BNSContract
    <3>1. ownerOf[ENS][i] = BNSContract => getApproved[ENS][i] = NoOne
      BY DEF IInv, Sound, Unapproved, Store
    <3> QED
      BY <2>2, <3>1 DEF TransferFrom, Accounts
  <2>4. ownerOf[BNSToken][i] = NoOne => ownerOf'[BNSToken][i] = NoOne
    BY <2>2 DEF TransferFrom
  <2> QED
    BY <2>3, <2>4 DEF Surplus, Store
<1>3. CASE \E u \in Users, t \in CallTokens, id \in TokenIds : wrapNFT(u, t, id)
  <2> PICK u \in Users, t \in CallTokens, id \in TokenIds : wrapNFT(u, t, id)
    BY <1>3
  <2> DEFINE L == Transferred(ownerOf, ENS, id, BNSContract)
  <2>1. L \in Ledgers /\ L[ENS][id] = BNSContract
    BY TransferredLedger DEF IInv, TypeOK, Accounts
  <2>2. \A t2 \in Tokens, i2 \in TokenIds : t2 # ENS \/ i2 # id => L[t2][i2] = ownerOf[t2][i2]
    BY TransferredLedger DEF IInv, TypeOK, Accounts
  <2>3. ownerOf' = Transferred(L, BNSToken, id, u)
    BY DEF wrapNFT
  <2> HIDE DEF L
  <2>4. /\ ownerOf'[BNSToken][id] = u
        /\ \A t2 \in Tokens, i2 \in TokenIds :
              t2 # BNSToken \/ i2 # id => ownerOf'[t2][i2] = L[t2][i2]
    <3>1. /\ Transferred(L, BNSToken, id, u)[BNSToken][id] = u
          /\ \A t2 \in Tokens, i2 \in TokenIds :
                t2 # BNSToken \/ i2 # id => Transferred(L, BNSToken, id, u)[t2][i2] = L[t2][i2]
      <4>1. u \in Accounts \cup {NoOne}
        BY DEF Accounts
      <4> QED
        BY <2>1, <4>1, TransferredLedger
    <3> QED
      BY <2>3, <3>1
  <2>5. CASE i = id
    <3>1. ownerOf[ENS][i] # BNSContract /\ ownerOf'[ENS][i] = BNSContract
      BY <2>1, <2>4, <2>5 DEF wrapNFT, CanDeposit, Accounts
    <3> QED
      BY <3>1 DEF Surplus, Store
  <2>6. CASE i # id
    <3>1. ownerOf'[ENS][i] = ownerOf[ENS][i] /\ ownerOf'[BNSToken][i] = ownerOf[BNSToken][i]
      BY <2>2, <2>4, <2>6
    <3> QED
      BY <3>1 DEF Surplus, Store
  <2> QED
    BY <2>5, <2>6
<1>4. CASE \E u \in Users, t \in CallTokens, id \in TokenIds : unwrapNFT(u, t, id)
  <2> PICK u \in Users, t \in CallTokens, id \in TokenIds : unwrapNFT(u, t, id)
    BY <1>4
  <2> DEFINE L == Transferred(ownerOf, t, id, u)
  <2>1. /\ L \in Ledgers
        /\ L[t][id] = u
        /\ \A t2 \in Tokens, i2 \in TokenIds : t2 # t \/ i2 # id => L[t2][i2] = ownerOf[t2][i2]
    <3>1. ownerOf \in Ledgers /\ t \in Tokens /\ u \in Accounts \cup {NoOne}
      BY DEF IInv, TypeOK, Accounts
    <3> QED
      BY <3>1, TransferredLedger
  <2>2. L[BNSToken][id] # NoOne /\ ownerOf' = [L EXCEPT ![BNSToken][id] = NoOne]
    BY DEF unwrapNFT, Released
  <2> HIDE DEF L
  <2>3. /\ ownerOf'[BNSToken][id] = NoOne
        /\ \A t2 \in Tokens, i2 \in TokenIds :
              t2 # BNSToken \/ i2 # id => ownerOf'[t2][i2] = L[t2][i2]
    BY <2>1, <2>2 DEF Ledgers
  <2>4. CASE i = id
    <3>1. ownerOf[BNSToken][i] # NoOne
      BY <2>1, <2>2, <2>4 DEF unwrapNFT, CanRelease, Accounts
    <3>2. ownerOf'[BNSToken][i] = NoOne
      BY <2>3, <2>4
    <3> QED
      BY <3>1, <3>2 DEF Surplus, Store
  <2>5. CASE i # id
    <3>1. ownerOf'[ENS][i] = ownerOf[ENS][i] /\ ownerOf'[BNSToken][i] = ownerOf[BNSToken][i]
      BY <2>1, <2>3, <2>5
    <3> QED
      BY <3>1 DEF Surplus, Store
  <2> QED
    BY <2>4, <2>5
<1>5. CASE \E u \in Users, t \in CallTokens, id \in TokenIds : unwrapNFTCall(u, t, id)
  <2> PICK u \in Users, t \in CallTokens, id \in TokenIds : unwrapNFTCall(u, t, id)
    BY <1>5
  <2> DEFINE f == [caller |-> u, token |-> t, id |-> id, saved |-> Store]
  <2>1. Len(Append(calls, f)) = Len(calls) + 1 /\ Len(calls) \in Nat
    BY DEF IInv, TypeOK
  <2>2. calls' = Append(calls, f)
    BY DEF unwrapNFTCall
  <2> QED
    BY <2>1, <2>2
<1>6. CASE unwrapNFTReturn \/ unwrapNFTRevert
  <2>1. calls # <<>> /\ calls' = Popped
    BY <1>6 DEF unwrapNFTReturn, unwrapNFTRevert
  <2>2. Len(calls') = Len(calls) - 1 /\ Len(calls) \in Nat
    BY <2>1, PoppedCalls DEF IInv
  <2> QED
    BY <2>2
<1> QED
  BY <1>1, <1>2, <1>3, <1>4, <1>5, <1>6 DEF Next

\* A call that begins hands out at most what it will burn.
LEMMA CallSurplus ==
    ASSUME IInv, NEW u \in Users, NEW t \in CallTokens, NEW id \in TokenIds,
           unwrapNFTCall(u, t, id), NEW i \in TokenIds
    PROVE  Surplus(Store', i) + (IF t = ENS /\ id = i THEN 1 ELSE 0) >= Surplus(Store, i)
<1> USE AccountsAssumption, TokensAssumption
<1>1. /\ ownerOf'[t][id] = u
      /\ \A t2 \in Tokens, i2 \in TokenIds : t2 # t \/ i2 # id => ownerOf'[t2][i2] = ownerOf[t2][i2]
  <2>1. ownerOf \in Ledgers /\ t \in Tokens /\ u \in Accounts \cup {NoOne}
    BY DEF IInv, TypeOK, Accounts
  <2>2. /\ Transferred(ownerOf, t, id, u)[t][id] = u
        /\ \A t2 \in Tokens, i2 \in TokenIds :
              t2 # t \/ i2 # id => Transferred(ownerOf, t, id, u)[t2][i2] = ownerOf[t2][i2]
    BY <2>1, TransferredLedger
  <2> QED
    BY <2>2 DEF unwrapNFTCall
<1>2. ownerOf[t][id] = BNSContract
  BY DEF unwrapNFTCall, CanRelease
<1>3. ownerOf[BNSToken][i] = NoOne => ownerOf'[BNSToken][i] = NoOne
  BY <1>1, <1>2 DEF Accounts
<1>4. ownerOf[ENS][i] # ownerOf'[ENS][i] => t = ENS /\ id = i
  BY <1>1
<1> QED
  BY <1>3, <1>4 DEF Surplus, Store

\* A call that ends, or is undone, has lost nothing since it began.
LEMMA EndedSurplus ==
    ASSUME IInv, SurplusInv, unwrapNFTReturn \/ unwrapNFTRevert, NEW i \in TokenIds
    PROVE  Surplus(Store', i) >= Surplus(calls[Len(calls)].saved, i)
<1>1. Len(calls) \in Nat \ {0} /\ Top \in Frames
  <2>1. calls \in Seq(Frames) /\ calls # <<>>
    BY DEF IInv, TypeOK, unwrapNFTReturn, unwrapNFTRevert
  <2>2. Len(calls) \in Nat \ {0} /\ Len(calls) \in 1..Len(calls)
    BY <2>1
  <2> QED
    BY <2>1, <2>2 DEF Top
<1>2. CASE unwrapNFTReturn
  <2>1. Surplus(Store, i) + Owes(Len(calls), i) >= Surplus(calls[Len(calls)].saved, i)
    BY <1>1 DEF SurplusInv, Above
  <2>2. Surplus(Store', i) >= Surplus(Store, i) + Owes(Len(calls), i)
    <3>1. /\ ownerOf[BNSToken][Top.id] # NoOne
          /\ ownerOf'[BNSToken][Top.id] = NoOne
          /\ ownerOf'[ENS][i] = ownerOf[ENS][i]
          /\ i # Top.id => ownerOf'[BNSToken][i] = ownerOf[BNSToken][i]
      BY <1>1, <1>2, TokensAssumption DEF unwrapNFTReturn, Released, IInv, TypeOK, Ledgers, Frames
    <3>2. CASE i = Top.id
      BY <3>1, <3>2 DEF Surplus, Store, Owes
    <3>3. CASE i # Top.id
      <4>1. Owes(Len(calls), i) = 0
        BY <3>3 DEF Owes, Top
      <4> QED
        BY <3>1, <3>3, <4>1 DEF Surplus, Store
    <3> QED
      BY <3>2, <3>3
  <2>3. /\ Surplus(Store', i) \in Nat /\ Surplus(Store, i) \in Nat
        /\ Owes(Len(calls), i) \in Nat /\ Surplus(calls[Len(calls)].saved, i) \in Nat
    BY DEF Surplus, Owes
  <2> QED
    BY <2>1, <2>2, <2>3
<1>3. CASE unwrapNFTRevert
  <2>1. Store' = calls[Len(calls)].saved
    BY <1>1, <1>3 DEF Store, Storage, Frames, unwrapNFTRevert, Top
  <2>2. Surplus(Store', i) \in Nat
    BY DEF Surplus
  <2> QED
    BY <2>1, <2>2
<1> QED
  BY <1>2, <1>3

\* Each pending call keeps within what it owes.
LEMMA SurplusInvStep == IInv /\ TypeOK' /\ SurplusInv /\ [Next]_vars => SurplusInv'
<1> SUFFICES ASSUME IInv, TypeOK', SurplusInv, [Next]_vars,
                    NEW n \in 1..Len(calls'), NEW i \in TokenIds
             PROVE  Surplus(Above(n)', i) + Owes(n, i)' >= Surplus(calls'[n].saved, i)
  BY DEF SurplusInv, Surplus
<1> DEFINE N == Len(calls)
<1>1. N \in Nat
  BY DEF IInv, TypeOK
<1>2. \A s : Surplus(s, i) \in Nat
  BY DEF Surplus
<1>3. \A m : Owes(m, i) \in Nat /\ Owes(m, i)' \in Nat
  BY DEF Owes
<1>4. CASE Next /\ calls' = calls
  <2>1. n \in 1..N /\ Owes(n, i)' = Owes(n, i) /\ calls'[n].saved = calls[n].saved
    BY <1>4 DEF Owes
  <2>2. Surplus(Above(n), i) + Owes(n, i) >= Surplus(calls[n].saved, i)
    BY <2>1 DEF SurplusInv
  <2>3. Surplus(Above(n)', i) >= Surplus(Above(n), i)
    <3>1. CASE n < N
      <4>1. Above(n)' = Above(n)
        BY <1>4, <3>1 DEF Above
      <4> QED
        BY <1>2, <4>1
    <3>2. CASE ~(n < N)
      <4>1. Above(n)' = Store' /\ Above(n) = Store
        BY <1>4, <3>2 DEF Above
      <4> QED
        BY <1>4, <4>1, SteadySurplus
    <3> QED
      BY <3>1, <3>2
  <2> QED
    BY <1>2, <1>3, <2>1, <2>2, <2>3
<1>5. CASE \E u \in Users, t \in CallTokens, id \in TokenIds : unwrapNFTCall(u, t, id)
  <2> PICK u \in Users, t \in CallTokens, id \in TokenIds : unwrapNFTCall(u, t, id)
    BY <1>5
  <2> DEFINE f == [caller |-> u, token |-> t, id |-> id, saved |-> Store]
  <2>1. /\ Len(calls') = N + 1
        /\ calls'[N + 1] = f
        /\ \A m \in 1..N : calls'[m] = calls[m]
    <3>1. calls \in Seq(Frames) /\ calls' \in Seq(Frames) /\ calls' = Append(calls, f)
      BY DEF IInv, TypeOK, unwrapNFTCall
    <3> QED
      BY <3>1
  <2>2. f.token = t /\ f.id = id /\ f.saved = Store
    OBVIOUS
  <2> HIDE DEF f, N
  <2>3. CASE n = N + 1
    <3>1. Above(n)' = Store' /\ calls'[n] = f
      BY <1>1, <2>1, <2>3 DEF Above
    <3>2. Owes(n, i)' = IF t = ENS /\ id = i THEN 1 ELSE 0
      BY <2>2, <3>1 DEF Owes
    <3> QED
      BY <2>2, <3>1, <3>2, CallSurplus
  <2>4. CASE n \in 1..N
    <3>1. calls'[n] = calls[n]
      BY <2>1, <2>4
    <3>2. Owes(n, i)' = Owes(n, i)
      BY <3>1 DEF Owes
    <3>3. Above(n)' = Above(n)
      <4>1. CASE n < N
        <5>1. n + 1 \in 1..N
          BY <1>1, <2>4, <4>1
        <5>2. calls'[n + 1] = calls[n + 1]
          BY <2>1, <5>1
        <5> QED
          BY <1>1, <2>1, <2>4, <4>1, <5>2 DEF Above, N
      <4>2. CASE n = N
        BY <1>1, <2>1, <2>2, <4>2 DEF Above, N
      <4> QED
        BY <1>1, <2>4, <4>1, <4>2
    <3>4. Surplus(Above(n), i) + Owes(n, i) >= Surplus(calls[n].saved, i)
      BY <2>4 DEF SurplusInv, N
    <3> QED
      BY <3>1, <3>2, <3>3, <3>4
  <2> QED
    BY <1>1, <2>1, <2>3, <2>4
<1>6. CASE unwrapNFTReturn \/ unwrapNFTRevert
  <2>1. calls # <<>> /\ calls' = Popped
    BY <1>6 DEF unwrapNFTReturn, unwrapNFTRevert
  <2>2. N \in Nat \ {0} /\ Len(calls') = N - 1 /\ \A m \in 1..(N - 1) : calls'[m] = calls[m]
    BY <2>1, PoppedCalls DEF IInv
  <2> HIDE DEF N
  <2>3. n \in 1..N /\ n \in 1..(N - 1) /\ calls'[n] = calls[n]
    BY <2>2
  <2>4. Owes(n, i)' = Owes(n, i)
    BY <2>3 DEF Owes
  <2>5. Surplus(Above(n), i) + Owes(n, i) >= Surplus(calls[n].saved, i)
    BY <2>3 DEF SurplusInv, N
  <2>6. Surplus(Above(n)', i) >= Surplus(Above(n), i)
    <3>1. Above(n) = calls[n + 1].saved
      BY <2>2, <2>3 DEF Above, N
    <3>2. CASE n < N - 1
      <4>1. n + 1 \in 1..(N - 1)
        BY <2>2, <2>3, <3>2
      <4>2. Above(n)' = calls'[n + 1].saved /\ calls'[n + 1] = calls[n + 1]
        BY <2>2, <3>2, <4>1 DEF Above
      <4> QED
        BY <1>2, <3>1, <4>2
    <3>3. CASE n = N - 1
      <4>1. Above(n)' = Store' /\ n + 1 = N
        BY <2>2, <3>3 DEF Above
      <4>2. Surplus(Store', i) >= Surplus(calls[N].saved, i)
        BY <1>6, EndedSurplus DEF N
      <4> QED
        BY <3>1, <4>1, <4>2
    <3> QED
      BY <2>2, <2>3, <3>2, <3>3
  <2> QED
    BY <1>2, <1>3, <2>3, <2>4, <2>5, <2>6
<1>7. CASE UNCHANGED vars
  <2>1. n \in 1..N /\ Owes(n, i)' = Owes(n, i) /\ calls'[n] = calls[n] /\ Above(n)' = Above(n)
    BY <1>7 DEF vars, Owes, Above, Store
  <2> QED
    BY <2>1 DEF SurplusInv
<1>8. CASE Next
  <2>1. CASE \E u \in Users, t \in Tokens, id \in TokenIds, to \in Operators : Approve(u, t, id, to)
    BY <1>4, <1>8, <2>1 DEF Approve
  <2>2. CASE \E u \in Users, t \in Tokens, id \in TokenIds, to \in Accounts : TransferFrom(u, t, id, to)
    BY <1>4, <1>8, <2>2 DEF TransferFrom
  <2>3. CASE \E u \in Users, t \in CallTokens, id \in TokenIds : wrapNFT(u, t, id)
    BY <1>4, <1>8, <2>3 DEF wrapNFT
  <2>4. CASE \E u \in Users, t \in CallTokens, id \in TokenIds : unwrapNFT(u, t, id)
    BY <1>4, <1>8, <2>4 DEF unwrapNFT
  <2> QED
    BY <1>5, <1>6, <1>8, <2>1, <2>2, <2>3, <2>4 DEF Next
<1> QED
  BY <1>7, <1>8

\* A transaction, with all the calls in it, takes an ENS token out of the contract
\* only by burning the BNS token that stood for it, however deep the calls nest.
THEOREM ReleaseBurnsAlways == Spec => ReleaseBurns
<1> DEFINE Burns ==
      calls' = <<>> =>
         \A id \in TokenIds :
             Before.ownerOf[ENS][id] = BNSContract /\ ownerOf'[ENS][id] # BNSContract =>
                 /\ Before.ownerOf[BNSToken][id] # NoOne
                 /\ ownerOf'[BNSToken][id] = NoOne
<1>1. Init => SurplusInv
  BY DEF Init, SurplusInv
<1>2. IInv /\ SurplusInv /\ [Next]_vars => [Burns]_vars
  <2> SUFFICES ASSUME IInv, SurplusInv, Next, calls' = <<>>, NEW id \in TokenIds,
                      Before.ownerOf[ENS][id] = BNSContract, ownerOf'[ENS][id] # BNSContract
               PROVE  /\ Before.ownerOf[BNSToken][id] # NoOne
                      /\ ownerOf'[BNSToken][id] = NoOne
    OBVIOUS
  <2>1. Surplus(Store', id) >= Surplus(Before, id)
    <3>1. CASE calls = <<>>
      BY <3>1, SteadySurplus DEF Before
    <3>2. CASE calls # <<>>
      <4>1. unwrapNFTReturn \/ unwrapNFTRevert
        <5>1. ASSUME NEW u \in Users, NEW t \in CallTokens, NEW i \in TokenIds, unwrapNFTCall(u, t, i)
              PROVE  FALSE
          <6>1. Len(calls') = Len(calls) + 1 /\ Len(calls) \in Nat
            BY <5>1, AppendProperties DEF unwrapNFTCall, IInv, TypeOK
          <6> QED
            BY <6>1
        <5> QED
          BY <3>2, <5>1 DEF Next, Approve, TransferFrom, wrapNFT, unwrapNFT
      <4>2. Len(calls') = Len(calls) - 1 /\ Len(calls) \in Nat
        BY <4>1, PoppedCalls DEF IInv, unwrapNFTReturn, unwrapNFTRevert
      <4>3. Len(calls) = 1
        BY <4>2
      <4> QED
        BY <3>2, <4>1, <4>3, EndedSurplus DEF Before
    <3> QED
      BY <3>1, <3>2
  <2> QED
    BY <2>1 DEF Surplus, Store
<1>3. IInv /\ TypeOK' /\ SurplusInv /\ [Next]_vars => SurplusInv'
  BY SurplusInvStep
<1>4. Spec => [][Burns]_vars
  BY <1>1, <1>2, <1>3, Invariance, TypeCorrect, PTL DEF Spec
<1> QED
  BY <1>4 DEF ReleaseBurns
=============================================================================
