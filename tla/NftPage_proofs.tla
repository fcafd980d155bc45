--------------------------- MODULE NftPage_proofs ---------------------------
(***************************************************************************)
(* Proofs about the domain page, for any domains, any number of handlers   *)
(* and any number of guardian hosts.                                       *)
(***************************************************************************)
EXTENDS NftPage, TLAPS

\* A store with another value in one of its fields is a store.
LEMMA StoreExcept ==
    ASSUME NEW s \in Store
    PROVE  /\ \A step \in 0..3 : [s EXCEPT !.activeStep = step] \in Store
           /\ \A chain \in Chains : [s EXCEPT !.sourceChain = chain] \in Store
           /\ \A chain \in Chains : [s EXCEPT !.targetChain = chain] \in Store
           /\ \A d \in Domains \cup {None} : [s EXCEPT !.sourceParsedTokenAccount = d] \in Store
           /\ \A vaa \in Vaas \cup {None} : [s EXCEPT !.signedVAA = vaa] \in Store
           /\ \A vaa \in Vaas \cup {None} : [s EXCEPT !.redeemTx = vaa] \in Store
           /\ \A b \in BOOLEAN : [s EXCEPT !.targetAddress = b] \in Store
           /\ \A b \in BOOLEAN : [s EXCEPT !.isSending = b] \in Store
           /\ \A b \in BOOLEAN : [s EXCEPT !.isRedeeming = b] \in Store
<1>1. \A step \in 0..3 : [s EXCEPT !.activeStep = step] \in Store
  BY DEF Store
<1>2. \A chain \in Chains : [s EXCEPT !.sourceChain = chain] \in Store
  BY DEF Store
<1>3. \A chain \in Chains : [s EXCEPT !.targetChain = chain] \in Store
  BY DEF Store
<1>4. \A d \in Domains \cup {None} : [s EXCEPT !.sourceParsedTokenAccount = d] \in Store
  BY DEF Store
<1>5. \A vaa \in Vaas \cup {None} : [s EXCEPT !.signedVAA = vaa] \in Store
  BY DEF Store
<1>6. \A vaa \in Vaas \cup {None} : [s EXCEPT !.redeemTx = vaa] \in Store
  BY DEF Store
<1>7. \A b \in BOOLEAN : [s EXCEPT !.targetAddress = b] \in Store
  BY DEF Store
<1>8. \A b \in BOOLEAN : [s EXCEPT !.isSending = b] \in Store
  BY DEF Store
<1>9. \A b \in BOOLEAN : [s EXCEPT !.isRedeeming = b] \in Store
  BY DEF Store
<1> QED
  BY <1>1, <1>2, <1>3, <1>4, <1>5, <1>6, <1>7, <1>8, <1>9

\* The same for the state of the recovery page.
LEMMA RecoveryExcept ==
    ASSUME NEW s \in RecoveryState
    PROVE  /\ \A chain \in Chains : [s EXCEPT !.chain = chain] \in RecoveryState
           /\ \A vaa \in Vaas \cup {None} : [s EXCEPT !.tx = vaa] \in RecoveryState
           /\ \A vaa \in Vaas \cup {None} : [s EXCEPT !.vaa = vaa] \in RecoveryState
           /\ \A b \in BOOLEAN : [s EXCEPT !.isLoading = b] \in RecoveryState
           /\ \A n \in 0..Hosts + 1 : [s EXCEPT !.attempts = n] \in RecoveryState
<1>1. \A chain \in Chains : [s EXCEPT !.chain = chain] \in RecoveryState
  BY DEF RecoveryState
<1>2. \A vaa \in Vaas \cup {None} : [s EXCEPT !.tx = vaa] \in RecoveryState
  BY DEF RecoveryState
<1>3. \A vaa \in Vaas \cup {None} : [s EXCEPT !.vaa = vaa] \in RecoveryState
  BY DEF RecoveryState
<1>4. \A b \in BOOLEAN : [s EXCEPT !.isLoading = b] \in RecoveryState
  BY DEF RecoveryState
<1>5. \A n \in 0..Hosts + 1 : [s EXCEPT !.attempts = n] \in RecoveryState
  BY DEF RecoveryState
<1> QED
  BY <1>1, <1>2, <1>3, <1>4, <1>5

\* The effects of the recovery page that fetch leave it a state of that page.
LEMMA FetchesTyped ==
    ASSUME NEW state \in RecoveryState, NEW connected
    PROVE  Fetches(state, connected) \in RecoveryState
<1> DEFINE s == [state EXCEPT !.isLoading = TRUE]
<1>1. s \in RecoveryState
  BY RecoveryExcept
<1>2. [state EXCEPT !.isLoading = TRUE, !.attempts = 1] = [s EXCEPT !.attempts = 1]
  BY DEF RecoveryState
<1>3. 0 \in 0..Hosts + 1 /\ 1 \in 0..Hosts + 1
  BY PageAssumption
<1> HIDE DEF s
<1>4. [s EXCEPT !.attempts = 1] \in RecoveryState /\ [state EXCEPT !.attempts = 0] \in RecoveryState
  BY <1>1, <1>3, RecoveryExcept
<1> QED
  BY <1>2, <1>4 DEF Fetches

LEMMA PathTransactionTyped ==
    ASSUME NEW state \in RecoveryState, NEW connected, NEW a \in Of("redeem") \ {None}
    PROVE  PathTransaction(a, state, connected) \in RecoveryState
<1>1. a.source \in Chains \cup {None} /\ a.tx \in Vaas \cup {None}
  BY PageAssumption DEF Of, Parameters
<1> DEFINE chain == IF a.source = None THEN state.chain ELSE a.source
           tx == IF a.tx = None THEN state.tx ELSE a.tx
           named == [state EXCEPT !.chain = chain, !.tx = tx]
<1>2. chain \in Chains /\ tx \in Vaas \cup {None}
  BY <1>1 DEF RecoveryState
<1>3. named \in RecoveryState
  <2> HIDE DEF chain, tx
  <2> QED
    BY <1>2 DEF RecoveryState
<1>4. PathTransaction(a, state, connected) = IF named = state THEN state ELSE Fetches(named, connected)
  BY DEF PathTransaction
<1> HIDE DEF named
<1> QED
  BY <1>3, <1>4, FetchesTyped

\* The reducers return stores.
LEMMA ReducersTyped ==
    ASSUME nft \in Store
    PROVE  /\ initialState \in Store /\ Loaded \subseteq Store /\ reset \in Store
           /\ \A step \in 0..3 : setStep(step) \in Store
           /\ \A d \in Domains : setSourceParsedTokenAccount(d) \in Store
           /\ \A vaa \in Vaas : /\ setSignedVAAHex(vaa) \in Store
                                /\ setRedeemTx(vaa) \in Store
                                /\ setRecoveryVaa(vaa) \in Store
<1>1. initialState \in Store
  BY DEF initialState, Store, Chains
<1>2. Loaded \subseteq Store
  BY <1>1 DEF Loaded, initialState, Store, Chains
<1>3. reset \in Store
  <2>1. nft.sourceChain \in Chains /\ nft.targetChain \in Chains
    BY DEF Store
  <2> QED
    BY <1>1, <2>1 DEF reset, Store
<1>4. \A step \in 0..3 : setStep(step) \in Store
  BY DEF setStep, Store
<1>6. \A d \in Domains : setSourceParsedTokenAccount(d) \in Store
  BY DEF setSourceParsedTokenAccount, Store
<1>7. \A vaa \in Vaas : setSignedVAAHex(vaa) \in Store
  <2> TAKE vaa \in Vaas
  <2> DEFINE s == [nft EXCEPT !.signedVAA = vaa, !.isSending = FALSE]
  <2>1. s \in Store
    BY DEF Store
  <2>2. setSignedVAAHex(vaa) = [s EXCEPT !.activeStep = 3]
    BY DEF setSignedVAAHex, Store
  <2>3. 3 \in 0..3
    OBVIOUS
  <2> HIDE DEF s
  <2> QED
    BY <2>1, <2>2, <2>3, StoreExcept
<1>9. \A vaa \in Vaas : setRedeemTx(vaa) \in Store
  BY DEF setRedeemTx, Store
<1>8. \A vaa \in Vaas : setRecoveryVaa(vaa) \in Store
  <2> TAKE vaa \in Vaas
  <2> DEFINE source == IF nft.sourceChain = vaa.to THEN nft.targetChain ELSE nft.sourceChain
             s == [nft EXCEPT !.signedVAA = vaa, !.targetChain = vaa.to, !.sourceChain = source]
             t == [s EXCEPT !.sourceParsedTokenAccount = None, !.targetAddress = TRUE]
  <2>1. source \in Chains /\ vaa.to \in Chains
    BY DEF Store, Vaas
  <2>2. s \in Store
    <3> HIDE DEF source
    <3> QED
      BY <2>1 DEF Store
  <2>3. t \in Store
    <3> HIDE DEF s
    <3> QED
      BY <2>2 DEF Store
  <2>4. setRecoveryVaa(vaa) = [t EXCEPT !.activeStep = 3]
    BY DEF setRecoveryVaa, Store
  <2>5. 3 \in 0..3
    OBVIOUS
  <2> HIDE DEF t
  <2> QED
    BY <2>3, <2>4, <2>5, StoreExcept
<1> QED
  BY <1>1, <1>2, <1>3, <1>4, <1>6, <1>7, <1>8, <1>9

\* The reducers of the chains return stores, and leave the flags and the VAAs alone.
LEMMA ChainReducers ==
    ASSUME NEW s \in Store, NEW chain \in Chains, NEW t,
           t = setSourceChain(s, chain) \/ t = setTargetChain(s, chain)
    PROVE  /\ t \in Store
           /\ t.isSending = s.isSending /\ t.isRedeeming = s.isRedeeming
           /\ t.signedVAA = s.signedVAA /\ t.redeemTx = s.redeemTx
<1>1. CASE t = setSourceChain(s, chain)
  BY <1>1 DEF setSourceChain, Store
<1>2. CASE t = setTargetChain(s, chain)
  <2> DEFINE u == [s EXCEPT !.targetChain = chain, !.targetAddress = FALSE]
  <2>1. /\ u \in Store
        /\ u.isSending = s.isSending /\ u.isRedeeming = s.isRedeeming
        /\ u.signedVAA = s.signedVAA /\ u.redeemTx = s.redeemTx
    BY DEF Store
  <2> DEFINE v == [u EXCEPT !.sourceChain = s.targetChain, !.activeStep = 0,
                            !.sourceParsedTokenAccount = None]
  <2>2. t = u \/ t = v
    BY <1>2 DEF setTargetChain
  <2>3. s.targetChain \in Chains
    BY DEF Store
  <2> HIDE DEF u
  <2>4. /\ v \in Store
        /\ v.isSending = u.isSending /\ v.isRedeeming = u.isRedeeming
        /\ v.signedVAA = u.signedVAA /\ v.redeemTx = u.redeemTx
    <3> DEFINE w == [u EXCEPT !.sourceChain = s.targetChain, !.activeStep = 0]
    <3>1. w \in Store
      <4> DEFINE x == [u EXCEPT !.sourceChain = s.targetChain]
      <4>1. x \in Store
        BY <2>1, <2>3, StoreExcept
      <4>2. w = [x EXCEPT !.activeStep = 0]
        BY <2>1 DEF Store
      <4>3. 0 \in 0..3
        OBVIOUS
      <4> HIDE DEF x
      <4> QED
        BY <4>1, <4>2, <4>3, StoreExcept
    <3>2. v = [w EXCEPT !.sourceParsedTokenAccount = None]
      BY <2>1 DEF Store
    <3>3. /\ v.isSending = u.isSending /\ v.isRedeeming = u.isRedeeming
          /\ v.signedVAA = u.signedVAA /\ v.redeemTx = u.redeemTx
      BY <2>1 DEF Store
    <3> HIDE DEF w
    <3> QED
      BY <3>1, <3>2, <3>3, StoreExcept
  <2> HIDE DEF v
  <2> QED
    BY <2>1, <2>2, <2>4
<1> QED
  BY <1>1, <1>2

\* So does the domain page's effect on the parameters of its address.
LEMMA PathChainsKeeps ==
    ASSUME NEW s \in Store, NEW a \in Of("nft") \ {None}
    PROVE  /\ PathChains(a, s) \in Store
           /\ PathChains(a, s).isSending = s.isSending
           /\ PathChains(a, s).isRedeeming = s.isRedeeming
           /\ PathChains(a, s).signedVAA = s.signedVAA
           /\ PathChains(a, s).redeemTx = s.redeemTx
<1>1. a.source \in Chains \cup {None} /\ a.target \in Chains \cup {None}
  BY PageAssumption DEF Of, Parameters
<1> DEFINE t == IF a.source = None THEN s ELSE setSourceChain(s, a.source)
<1>2. /\ t \in Store
      /\ t.isSending = s.isSending /\ t.isRedeeming = s.isRedeeming
      /\ t.signedVAA = s.signedVAA /\ t.redeemTx = s.redeemTx
  BY <1>1, ChainReducers
<1>3. PathChains(a, s) \in {s, t, setTargetChain(t, a.target)}
  BY DEF PathChains
<1>4. PathChains(a, s) = setTargetChain(t, a.target) => PathChains(a, s) \in {s, t} \/ a.target \in Chains
  BY <1>1 DEF PathChains
<1> HIDE DEF t
<1> QED
  BY <1>2, <1>3, <1>4, ChainReducers

LEMMA FillTyped ==
    ASSUME TypeOK, Fill
    PROVE  TypeOK'
<1>1. nft \in Store
  BY DEF TypeOK
<1>2. nft' \in Store
  <2>1. CASE \E chain \in Chains : ChooseSourceChain(chain)
    BY <1>1, <2>1, ChainReducers DEF ChooseSourceChain, Dispatch
  <2>2. CASE \E d \in Domains : ChooseDomain(d)
    BY <1>1, <2>2, ReducersTyped DEF ChooseDomain, Dispatch
  <2>3. CASE SyncTargetAddress
    BY <1>1, <2>3 DEF SyncTargetAddress, Dispatch, Store
  <2>4. CASE ClickNext
    <3>1. nft.activeStep + 1 \in 0..3
      BY <1>1, <2>4 DEF ClickNext, OnStep, Store
    <3> QED
      BY <1>1, <2>4, <3>1, ReducersTyped DEF ClickNext, Dispatch
  <2>5. CASE \E step \in 0..3 : ClickStep(step)
    BY <1>1, <2>5, ReducersTyped DEF ClickStep, Dispatch
  <2> QED
    BY <2>1, <2>2, <2>3, <2>4, <2>5 DEF Fill
<1>3. UNCHANGED <<running, published, route, recovery, ready, address, mixed>>
  BY DEF Fill, ChooseSourceChain, ChooseDomain, SyncTargetAddress, ClickNext, ClickStep, Dispatch
<1> QED
  BY <1>2, <1>3 DEF TypeOK

LEMMA HandleTyped ==
    ASSUME TypeOK, NEW h \in Slots, Handle(h)
    PROVE  TypeOK'
<1>1. nft \in Store /\ running \in [Slots -> Handlers \cup {None}] /\ published \subseteq Vaas
  BY DEF TypeOK
<1>2. running[h] # None => running[h] \in Handlers /\ running[h].vaa \in Vaas
  BY <1>1 DEF Handlers
<1>3. nft' \in Store
  <2>1. CASE handleTransferClick(h) \/ TransferFailed(h)
    BY <1>1, <2>1, StoreExcept DEF handleTransferClick, TransferFailed, Dispatch
  <2>2. CASE handleRedeemClick(h) \/ RedeemFailed(h)
    BY <1>1, <2>2, StoreExcept DEF handleRedeemClick, RedeemFailed, Dispatch
  <2>3. CASE TransferConfirmed(h)
    BY <1>1, <2>3 DEF TransferConfirmed
  <2>4. CASE VaaFetched(h)
    BY <1>1, <1>2, <2>4, ReducersTyped DEF VaaFetched, Dispatch, In
  <2>5. CASE RedeemConfirmed(h)
    BY <1>1, <1>2, <2>5, ReducersTyped DEF RedeemConfirmed, Dispatch, In
  <2> QED
    BY <2>1, <2>2, <2>3, <2>4, <2>5 DEF Handle
<1>4. running' \in [Slots -> Handlers \cup {None}]
  <2>1. CASE handleTransferClick(h)
    <3>1. [at |-> "sending", chain |-> nft.sourceChain,
           vaa |-> [domain |-> nft.sourceParsedTokenAccount, to |-> nft.targetChain]] \in Handlers
      BY <1>1, <2>1 DEF handleTransferClick, SendDisabled, isTargetComplete, isSourceComplete, Store, Vaas, Handlers
    <3> QED
      BY <1>1, <2>1, <3>1 DEF handleTransferClick, Runs
  <2>2. CASE TransferConfirmed(h)
    <3>1. [running[h] EXCEPT !.at = "fetching"] \in Handlers
      BY <1>2, <2>2 DEF TransferConfirmed, In, Handlers
    <3> QED
      BY <1>1, <2>2, <3>1 DEF TransferConfirmed, Runs
  <2>3. CASE handleRedeemClick(h)
    <3>1. [at |-> "redeeming", chain |-> nft.targetChain, vaa |-> nft.signedVAA] \in Handlers
      BY <1>1, <2>3 DEF handleRedeemClick, Store, Handlers
    <3> QED
      BY <1>1, <2>3, <3>1 DEF handleRedeemClick, Runs
  <2>4. CASE VaaFetched(h) \/ TransferFailed(h) \/ RedeemConfirmed(h) \/ RedeemFailed(h)
    BY <1>1, <2>4 DEF VaaFetched, TransferFailed, RedeemConfirmed, RedeemFailed, Ends, Runs
  <2> QED
    BY <2>1, <2>2, <2>3, <2>4 DEF Handle
<1>5. published' \subseteq Vaas
  BY <1>1, <1>2 DEF Handle, handleTransferClick, TransferConfirmed, VaaFetched, TransferFailed, handleRedeemClick,
                    RedeemConfirmed, RedeemFailed, Dispatch, In, Sends
<1>6. UNCHANGED <<route, recovery, ready, address, mixed>>
  BY DEF Handle, handleTransferClick, TransferConfirmed, VaaFetched, TransferFailed, handleRedeemClick,
         RedeemConfirmed, RedeemFailed, Dispatch
<1> QED
  BY <1>3, <1>4, <1>5, <1>6 DEF TypeOK

LEMMA NoRecoveryTyped == NoRecovery \in RecoveryState
  BY PageAssumption DEF NoRecovery, RecoveryState, Chains

LEMMA FollowLinkTyped ==
    ASSUME TypeOK, NEW page \in {"nft", "redeem"}, FollowLink(page)
    PROVE  TypeOK'
  BY NoRecoveryTyped DEF FollowLink, TypeOK

LEMMA GoBackTyped ==
    ASSUME TypeOK, GoBack
    PROVE  TypeOK'
<1>1. nft \in Store /\ recovery \in RecoveryState /\ ready \in BOOLEAN /\ address \in Addresses
  BY DEF TypeOK, GoBack
<1>2. address.page \in {"nft", "redeem"} /\ address \in Of(address.page) \ {None}
  BY <1>1, PageAssumption DEF Parameters, Of
<1>3. nft' \in Store
  BY <1>1, <1>2, PathChainsKeeps DEF GoBack
<1>4. recovery' \in RecoveryState
  BY <1>1, <1>2, NoRecoveryTyped, PathTransactionTyped DEF GoBack
<1>5. route' = address.page /\ UNCHANGED <<running, published, ready, address, mixed>>
  BY DEF GoBack
<1> QED
  BY <1>2, <1>3, <1>4, <1>5 DEF TypeOK

LEMMA LoadTyped ==
    ASSUME TypeOK, NEW page \in {"nft", "redeem"}, NEW a \in Of(page), Load(page, a)
    PROVE  TypeOK'
<1>1. nft \in Store /\ running \in [Slots -> Handlers \cup {None}] /\ published \subseteq Vaas
  BY DEF TypeOK
<1>2. nft' \in Store
  BY <1>1, PathChainsKeeps, ReducersTyped DEF Load
<1>3. published' \subseteq Vaas
  <2>1. Sent \subseteq Vaas
    BY <1>1 DEF Sent, Handlers
  <2> QED
    BY <1>1, <2>1 DEF Load
<1>4. recovery' \in RecoveryState
  BY NoRecoveryTyped, PathTransactionTyped DEF Load
<1>5. address' \in Addresses \cup {None}
  BY DEF Load, Of
<1> QED
  BY <1>2, <1>3, <1>4, <1>5 DEF Load, TypeOK

LEMMA RecoverTyped ==
    ASSUME TypeOK, Recover
    PROVE  TypeOK'
<1> USE PageAssumption
<1>1. nft \in Store /\ recovery \in RecoveryState /\ published \subseteq Vaas
  BY DEF TypeOK
<1>2. recovery' \in RecoveryState
  <2>1. CASE \E v \in Vaas : PasteSourceTx(v) \/ PasteSignedVAA(v)
    <3> PICK v \in Vaas : PasteSourceTx(v) \/ PasteSignedVAA(v)
      BY <2>1
    <3>1. CASE PasteSourceTx(v)
      <4> DEFINE s == [recovery EXCEPT !.tx = v, !.isLoading = TRUE]
      <4>1. s \in RecoveryState
        BY <1>1 DEF RecoveryState
      <4>2. recovery' = [s EXCEPT !.attempts = 1]
        BY <1>1, <3>1 DEF PasteSourceTx, Recovers, RecoveryState
      <4>3. 1 \in 0..Hosts + 1
        OBVIOUS
      <4> HIDE DEF s
      <4> QED
        BY <4>1, <4>2, <4>3, RecoveryExcept
    <3>2. CASE PasteSignedVAA(v)
      BY <1>1, <3>2, RecoveryExcept DEF PasteSignedVAA, Recovers
    <3> QED
      BY <3>1, <3>2
  <2>2. CASE \E chain \in Chains : ChangeSourceChain(chain)
    <3> PICK chain \in Chains : ChangeSourceChain(chain)
      BY <2>2
    <3> DEFINE s == [recovery EXCEPT !.chain = chain, !.tx = None]
    <3>1. s \in RecoveryState
      BY <1>1 DEF RecoveryState
    <3>2. recovery' = [s EXCEPT !.attempts = 0]
      BY <1>1 DEF ChangeSourceChain, Recovers, RecoveryState
    <3>3. 0 \in 0..Hosts + 1
      OBVIOUS
    <3> HIDE DEF s
    <3> QED
      BY <3>1, <3>2, <3>3, RecoveryExcept
  <2>4. CASE FetchEnds
    <3>1. PICK vaa \in {recovery.vaa} \cup {v \in {recovery.tx} : Found} :
             recovery' = [recovery EXCEPT !.attempts = 0, !.isLoading = FALSE, !.vaa = vaa]
      BY <2>4 DEF FetchEnds, Recovers
    <3>2. vaa \in Vaas \cup {None}
      BY <1>1, <3>1 DEF RecoveryState
    <3> DEFINE s == [recovery EXCEPT !.isLoading = FALSE, !.vaa = vaa]
    <3>3. s \in RecoveryState
      BY <1>1, <3>2 DEF RecoveryState
    <3>4. recovery' = [s EXCEPT !.attempts = 0]
      BY <1>1, <3>1 DEF RecoveryState
    <3>5. 0 \in 0..Hosts + 1
      OBVIOUS
    <3> HIDE DEF s
    <3> QED
      BY <3>3, <3>4, <3>5, RecoveryExcept
  <2>5. CASE Retries
    BY <1>1, <2>5 DEF Retries, Recovers, RecoveryState
  <2>6. CASE WalletChanges
    BY <1>1, <2>6, FetchesTyped DEF WalletChanges
  <2>7. CASE handleRecoverClick
    BY <2>7 DEF handleRecoverClick, NoRecovery, RecoveryState, Chains
  <2> QED
    BY <2>1, <2>2, <2>4, <2>5, <2>6, <2>7 DEF Recover
<1>3. CASE handleRecoverClick
  <2>1. recovery.vaa \in Vaas
    BY <1>1, <1>3 DEF handleRecoverClick, RecoveryState
  <2>2. nft' \in Store
    BY <1>1, <1>3, <2>1, ReducersTyped DEF handleRecoverClick
  <2> QED
    BY <1>2, <1>3, <2>2 DEF handleRecoverClick, InUse, TypeOK
<1>4. CASE WalletChanges
  BY <1>2, <1>4 DEF WalletChanges, pageVars, TypeOK
<1>5. CASE UNCHANGED <<pageVars, ready>>
  BY <1>2, <1>5 DEF pageVars, TypeOK
<1> QED
  BY <1>3, <1>4, <1>5
     DEF Recover, PasteSourceTx, PasteSignedVAA, ChangeSourceChain, FetchEnds, Retries, Recovers

\* The store, the handlers and the recovery page keep their types, though what is
\* sent, published and recovered is handed from one to the other (nftSlice.ts).
THEOREM TypeCorrect == Spec => []TypeOK
<1>1. Init => TypeOK
  <2> SUFFICES ASSUME Init PROVE TypeOK
    OBVIOUS
  <2>1. nft \in Store
    <3>1. initialState \in Store
      BY DEF initialState, Store, Chains
    <3> QED
      BY <3>1, PathChainsKeeps DEF Init
  <2>2. recovery \in RecoveryState
    BY NoRecoveryTyped DEF Init
  <2> QED
    BY <2>1, <2>2 DEF Init, Of, TypeOK
<1>2. TypeOK /\ [Next]_vars => TypeOK'
  <2> SUFFICES ASSUME TypeOK, [Next]_vars PROVE TypeOK'
    OBVIOUS
  <2>1. CASE Fill
    BY <2>1, FillTyped
  <2>2. CASE \E h \in Slots : Handle(h)
    BY <2>2, HandleTyped
  <2>3. CASE handleResetClick
    <3>1. nft' \in Store
      BY <2>3, ReducersTyped DEF handleResetClick, Dispatch, TypeOK
    <3> QED
      BY <2>3, <3>1 DEF handleResetClick, Dispatch, TypeOK
  <2>4. CASE (\E page \in {"nft", "redeem"} : FollowLink(page)) \/ GoBack \/ Loads
    BY <2>4, FollowLinkTyped, GoBackTyped, LoadTyped DEF Loads
  <2>5. CASE Recover
    BY <2>5, RecoverTyped
  <2>6. CASE UNCHANGED vars
    BY <2>6 DEF vars, pageVars, TypeOK
  <2> QED
    BY <2>1, <2>2, <2>3, <2>4, <2>5, <2>6 DEF Next
<1> QED
  BY <1>1, <1>2, PTL DEF Spec

----------------------------------------------------------------------------
(* Locks *)

\* A lock that is taken has its handler, and a handler of redeeming has its lock.
LockInv ==
    /\ LockedByHandler
    /\ OneRedeem
    /\ \A h \in Slots : In(h, "redeeming") => nft.isRedeeming /\ nft.redeemTx = None

\* What the only handler works with is what the store still shows.
PageInv ==
    ~mixed =>
        /\ \A h, k \in Slots : running[h] # None /\ running[k] # None => h = k
        /\ \A h \in Slots : Sends(h) => nft.isSending /\ nft.signedVAA = None
        /\ \A h \in Slots : In(h, "redeeming") => nft.signedVAA = running[h].vaa
        /\ nft.redeemTx # None => nft.redeemTx = nft.signedVAA

\* A step of the form alone changes no lock, no handler and no VAA; it changes the
\* target chain only while the fields are not locked.
LEMMA FillKeeps ==
    ASSUME TypeOK, Fill
    PROVE  /\ running' = running /\ mixed' = mixed
           /\ nft'.isSending = nft.isSending /\ nft'.isRedeeming = nft.isRedeeming
           /\ nft'.redeemTx = nft.redeemTx /\ nft'.signedVAA = nft.signedVAA
           /\ shouldLockFields => nft'.targetChain = nft.targetChain
<1>1. nft \in Store
  BY DEF TypeOK
<1>2. CASE \E chain \in Chains : ChooseSourceChain(chain)
  BY <1>1, <1>2 DEF ChooseSourceChain, setSourceChain, Dispatch, Store
<1>3. CASE \E d \in Domains : ChooseDomain(d)
  BY <1>1, <1>3 DEF ChooseDomain, setSourceParsedTokenAccount, Dispatch, Store
<1>4. CASE SyncTargetAddress
  BY <1>1, <1>4 DEF SyncTargetAddress, Dispatch, Store
<1>5. CASE ClickNext \/ \E step \in 0..3 : ClickStep(step)
  <2>1. PICK step : nft' = setStep(step)
    BY <1>5 DEF ClickNext, ClickStep, Dispatch
  <2> QED
    BY <1>1, <1>5, <2>1 DEF ClickNext, ClickStep, setStep, Dispatch, Store
<1> QED
  BY <1>2, <1>3, <1>4, <1>5 DEF Fill

\* Recovering a transfer leaves the locks and the redeem transaction as they are.
LEMMA RecoverKeeps ==
    ASSUME TypeOK, Recover
    PROVE  /\ running' = running
           /\ \/ nft' = nft /\ mixed' = mixed
              \/ /\ recovery.vaa \in Vaas /\ mixed' = InUse
                 /\ nft'.isSending = nft.isSending /\ nft'.isRedeeming = nft.isRedeeming
                 /\ nft'.redeemTx = nft.redeemTx
                 /\ nft'.signedVAA = recovery.vaa /\ nft'.targetChain = recovery.vaa.to
<1>1. nft \in Store /\ recovery \in RecoveryState
  BY DEF TypeOK
<1>2. CASE handleRecoverClick
  <2>1. recovery.vaa \in Vaas
    BY <1>1, <1>2 DEF handleRecoverClick, RecoveryState
  <2> QED
    BY <1>1, <1>2, <2>1 DEF handleRecoverClick, setRecoveryVaa, Store
<1>3. CASE UNCHANGED pageVars
  BY <1>3 DEF pageVars
<1> QED
  BY <1>2, <1>3
     DEF Recover, PasteSourceTx, PasteSignedVAA, ChangeSourceChain, FetchEnds, Retries,
         WalletChanges, Recovers

\* Back to the address of the tab changes the chains of the store and nothing else of it.
LEMMA GoBackKeeps ==
    ASSUME TypeOK, GoBack
    PROVE  /\ running' = running /\ mixed' = mixed
           /\ nft'.isSending = nft.isSending /\ nft'.isRedeeming = nft.isRedeeming
           /\ nft'.redeemTx = nft.redeemTx /\ nft'.signedVAA = nft.signedVAA
<1>1. nft \in Store /\ address \in Of(address.page) \ {None}
  BY DEF TypeOK, GoBack, Of
<1> QED
  BY <1>1, PathChainsKeeps DEF GoBack

\* A page that was just loaded holds no lock, no VAA and no redeem transaction.
LEMMA LoadedFresh ==
    \A s \in Loaded : ~s.isSending /\ ~s.isRedeeming /\ s.signedVAA = None /\ s.redeemTx = None
<1>1. /\ ~initialState.isSending /\ ~initialState.isRedeeming
      /\ initialState.signedVAA = None /\ initialState.redeemTx = None
  BY DEF initialState
<1>2. initialState \in Store
  BY DEF initialState, Store, Chains
<1> QED
  BY <1>1, <1>2 DEF Loaded, Store

\* Loading the page leaves no lock and no handler.
LEMMA LoadClears ==
    ASSUME Loads
    PROVE  /\ \A h \in Slots : running'[h] = None
           /\ ~nft'.isSending /\ ~nft'.isRedeeming
           /\ nft'.signedVAA = None /\ nft'.redeemTx = None
<1>4. PICK page \in {"nft", "redeem"} : \E a \in Of(page) : Load(page, a)
  BY DEF Loads
<1>1. PICK a \in Of(page) : Load(page, a)
  BY <1>4
<1>2. \A h \in Slots : running'[h] = None
  BY <1>1 DEF Load
<1>3. initialState \in Store /\ initialState \in Loaded
  BY DEF initialState, Store, Chains, Loaded
<1> QED
  BY <1>1, <1>2, <1>3, LoadedFresh, PathChainsKeeps DEF Load

\* So does reset, as long as nothing is being redeemed.
LEMMA ResetClears ==
    ASSUME handleResetClick
    PROVE  /\ running' = running /\ mixed' = mixed
           /\ nft.redeemTx # None
           /\ ~nft'.isSending /\ ~nft'.isRedeeming
           /\ nft'.signedVAA = None /\ nft'.redeemTx = None
  BY DEF handleResetClick, isRedeemComplete, reset, initialState, Dispatch

\* What the step of a handler does to its slot and to the store.
LEMMA HandleSteps ==
    ASSUME TypeOK, NEW h \in Slots, Handle(h)
    PROVE  /\ running' = [running EXCEPT ![h] = running'[h]]
           /\ mixed' = mixed
           /\ nft'.targetChain = nft.targetChain
           /\ \/ /\ Free(h) /\ ~nft.isSending /\ nft.signedVAA = None  \* handleTransferClick
                 /\ running'[h] \in Handlers /\ running'[h].at = "sending"
                 /\ running'[h].vaa.to = nft.targetChain
                 /\ nft'.isSending /\ nft'.isRedeeming = nft.isRedeeming
                 /\ nft'.signedVAA = nft.signedVAA /\ nft'.redeemTx = nft.redeemTx
              \/ /\ In(h, "sending")                                   \* TransferConfirmed
                 /\ running'[h] \in Handlers /\ running'[h].at = "fetching"
                 /\ running'[h].vaa = running[h].vaa
                 /\ nft' = nft
              \/ /\ In(h, "fetching") /\ running'[h] = None            \* VaaFetched
                 /\ ~nft'.isSending /\ nft'.isRedeeming = nft.isRedeeming
                 /\ nft'.signedVAA = running[h].vaa /\ nft'.redeemTx = nft.redeemTx
              \/ /\ Sends(h) /\ running'[h] = None                     \* TransferFailed
                 /\ ~nft'.isSending /\ nft'.isRedeeming = nft.isRedeeming
                 /\ nft'.signedVAA = nft.signedVAA /\ nft'.redeemTx = nft.redeemTx
              \/ /\ Free(h) /\ nft.redeemTx = None /\ ~nft.isRedeeming  \* handleRedeemClick
                 /\ nft.signedVAA # None
                 /\ running'[h] \in Handlers /\ running'[h].at = "redeeming"
                 /\ running'[h].vaa = nft.signedVAA
                 /\ nft'.isSending = nft.isSending /\ nft'.isRedeeming
                 /\ nft'.signedVAA = nft.signedVAA /\ nft'.redeemTx = nft.redeemTx
              \/ /\ In(h, "redeeming") /\ running'[h] = None           \* RedeemConfirmed
                 /\ nft'.isSending = nft.isSending /\ ~nft'.isRedeeming
                 /\ nft'.signedVAA = nft.signedVAA /\ nft'.redeemTx = running[h].vaa
              \/ /\ In(h, "redeeming") /\ running'[h] = None           \* RedeemFailed
                 /\ nft'.isSending = nft.isSending /\ ~nft'.isRedeeming
                 /\ nft'.signedVAA = nft.signedVAA /\ nft'.redeemTx = nft.redeemTx
<1>1. nft \in Store /\ running \in [Slots -> Handlers \cup {None}]
  BY DEF TypeOK
<1>2. running[h] # None => running[h] \in Handlers
  BY <1>1
<1>3. CASE handleTransferClick(h)
  <2> DEFINE handler == [at |-> "sending", chain |-> nft.sourceChain,
                         vaa |-> [domain |-> nft.sourceParsedTokenAccount, to |-> nft.targetChain]]
  <2>1. handler \in Handlers
    BY <1>1, <1>3 DEF handleTransferClick, SendDisabled, isTargetComplete, isSourceComplete, Store, Vaas, Handlers
  <2>2. handler.at = "sending" /\ handler.vaa.to = nft.targetChain
    OBVIOUS
  <2>3. running' = [running EXCEPT ![h] = handler] /\ running'[h] = handler
    BY <1>1, <1>3 DEF handleTransferClick, Runs
  <2> HIDE DEF handler
  <2> QED
    BY <1>1, <1>3, <2>1, <2>2, <2>3 DEF handleTransferClick, SendDisabled, isSendComplete, Dispatch, Store
<1>4. CASE TransferConfirmed(h)
  <2> DEFINE handler == [running[h] EXCEPT !.at = "fetching"]
  <2>1. handler \in Handlers /\ handler.at = "fetching" /\ handler.vaa = running[h].vaa
    BY <1>2, <1>4 DEF TransferConfirmed, In, Handlers
  <2>2. running' = [running EXCEPT ![h] = handler] /\ running'[h] = handler
    BY <1>1, <1>4 DEF TransferConfirmed, Runs
  <2> HIDE DEF handler
  <2> QED
    BY <1>4, <2>1, <2>2 DEF TransferConfirmed
<1>5. CASE VaaFetched(h)
  <2>1. running' = [running EXCEPT ![h] = None] /\ running'[h] = None
    BY <1>1, <1>5 DEF VaaFetched, Ends, Runs
  <2> QED
    BY <1>1, <1>5, <2>1 DEF VaaFetched, setSignedVAAHex, Dispatch, Store
<1>6. CASE TransferFailed(h)
  <2>1. running' = [running EXCEPT ![h] = None] /\ running'[h] = None
    BY <1>1, <1>6 DEF TransferFailed, Ends, Runs
  <2> QED
    BY <1>1, <1>6, <2>1 DEF TransferFailed, Sends, Store
<1>7. CASE handleRedeemClick(h)
  <2> DEFINE handler == [at |-> "redeeming", chain |-> nft.targetChain, vaa |-> nft.signedVAA]
  <2>1. handler \in Handlers
    BY <1>1, <1>7 DEF handleRedeemClick, Store, Handlers
  <2>2. handler.at = "redeeming" /\ handler.vaa = nft.signedVAA
    OBVIOUS
  <2>3. running' = [running EXCEPT ![h] = handler] /\ running'[h] = handler
    BY <1>1, <1>7 DEF handleRedeemClick, Runs
  <2> HIDE DEF handler
  <2> QED
    BY <1>1, <1>7, <2>1, <2>2, <2>3 DEF handleRedeemClick, isRedeemComplete, Dispatch, Store
<1>8. CASE RedeemConfirmed(h)
  <2>1. running' = [running EXCEPT ![h] = None] /\ running'[h] = None
    BY <1>1, <1>8 DEF RedeemConfirmed, Ends, Runs
  <2> QED
    BY <1>1, <1>8, <2>1 DEF RedeemConfirmed, setRedeemTx, Dispatch, Store
<1>9. CASE RedeemFailed(h)
  <2>1. running' = [running EXCEPT ![h] = None] /\ running'[h] = None
    BY <1>1, <1>9 DEF RedeemFailed, Ends, Runs
  <2> QED
    BY <1>1, <1>9, <2>1 DEF RedeemFailed, Dispatch, Store
<1> QED
  BY <1>3, <1>4, <1>5, <1>6, <1>7, <1>8, <1>9 DEF Handle

\* The slots beside the one that a handler's step writes stay.
LEMMA OtherSlots ==
    ASSUME TypeOK, NEW h \in Slots, running' = [running EXCEPT ![h] = running'[h]]
    PROVE  \A k \in Slots : k # h => running'[k] = running[k]
  BY DEF TypeOK

LEMMA LockInvStep ==
    ASSUME TypeOK, LockInv, [Next]_vars
    PROVE  LockInv'
<1> USE DEF LockInv, LockedByHandler, OneRedeem
<1>1. ASSUME running' = running, nft'.isSending = nft.isSending,
             nft'.isRedeeming = nft.isRedeeming, nft'.redeemTx = nft.redeemTx
      PROVE  LockInv'
  BY <1>1 DEF In, Sends
<1>2. CASE Fill
  BY <1>1, <1>2, FillKeeps
<1>3. ASSUME NEW h \in Slots, Handle(h)
      PROVE  LockInv'
  <2>1. \A k \in Slots : k # h => running'[k] = running[k]
    BY <1>3, HandleSteps, OtherSlots
  <2>2. None \notin Handlers
    BY PageAssumption
  <2> QED
    BY <1>3, <2>1, <2>2, HandleSteps DEF In, Free, Sends
<1>4. CASE handleResetClick
  BY <1>4, ResetClears DEF In
<1>5. ASSUME NEW page \in {"nft", "redeem"}, FollowLink(page)
      PROVE  LockInv'
  BY <1>1, <1>5 DEF FollowLink
<1>9. CASE GoBack
  BY <1>1, <1>9, GoBackKeeps
<1>6. CASE Loads
  BY <1>6, LoadClears DEF In
<1>7. CASE Recover
  BY <1>1, <1>7, RecoverKeeps
<1>8. CASE UNCHANGED vars
  BY <1>1, <1>8 DEF vars, pageVars
<1> QED
  BY <1>2, <1>3, <1>4, <1>5, <1>6, <1>7, <1>8, <1>9 DEF Next

LEMMA PageInvStep ==
    ASSUME TypeOK, LockInv, PageInv, [Next]_vars
    PROVE  PageInv'
<1>1. ASSUME running' = running, mixed' = mixed, nft'.isSending = nft.isSending,
             nft'.redeemTx = nft.redeemTx, nft'.signedVAA = nft.signedVAA
      PROVE  PageInv'
  BY <1>1 DEF PageInv, Sends, In
<1>2. CASE Fill
  BY <1>1, <1>2, FillKeeps
<1>3. ASSUME NEW h \in Slots, Handle(h)
      PROVE  PageInv'
  <2>1. \A k \in Slots : k # h => running'[k] = running[k]
    BY <1>3, HandleSteps, OtherSlots
  <2>2. None \notin Handlers /\ None \notin Vaas
    BY PageAssumption
  <2>3. \A k \in Slots : running[k] # None =>
           running[k].vaa \in Vaas /\ running[k].at \in {"sending", "fetching", "redeeming"}
    BY DEF TypeOK, Handlers
  <2> QED
    BY <1>3, <2>1, <2>2, <2>3, HandleSteps DEF PageInv, LockInv, Sends, In, Free
<1>4. CASE handleResetClick
  BY <1>4, ResetClears, PageAssumption DEF PageInv, LockInv, Sends, In
<1>5. ASSUME NEW page \in {"nft", "redeem"}, FollowLink(page)
      PROVE  PageInv'
  BY <1>1, <1>5 DEF FollowLink
<1>9. CASE GoBack
  BY <1>1, <1>9, GoBackKeeps
<1>6. CASE Loads
  BY <1>6, LoadClears DEF PageInv, Sends, In
<1>7. CASE Recover
  <2>1. CASE nft' = nft /\ mixed' = mixed
    BY <1>1, <1>7, <2>1, RecoverKeeps
  <2>2. CASE nft' # nft \/ mixed' # mixed
    <3>1. mixed' => PageInv'
      BY DEF PageInv
    <3>2. ASSUME ~mixed' PROVE nft \in Loaded /\ \A h \in Slots : running[h] = None
      BY <1>7, <2>2, <3>2, RecoverKeeps DEF InUse
    <3> QED
      BY <1>7, <2>2, <3>1, <3>2, LoadedFresh, RecoverKeeps DEF PageInv, Sends, In
  <2> QED
    BY <2>1, <2>2
<1>8. CASE UNCHANGED vars
  BY <1>1, <1>8 DEF vars, pageVars
<1> QED
  BY <1>2, <1>3, <1>4, <1>5, <1>6, <1>7, <1>8, <1>9 DEF Next

\* The locks, the handler and the store agree in every reachable state.
THEOREM PageCorrect == Spec => [](TypeOK /\ LockInv /\ PageInv)
<1>1. Init => LockInv /\ PageInv
  <2> SUFFICES ASSUME Init PROVE LockInv /\ PageInv
    OBVIOUS
  <2>1. initialState \in Store /\ initialState \in Loaded
    BY DEF initialState, Store, Chains, Loaded
  <2>2. ~nft.isSending /\ ~nft.isRedeeming /\ nft.signedVAA = None /\ nft.redeemTx = None
    BY <2>1, LoadedFresh, PathChainsKeeps DEF Init
  <2> QED
    BY <2>2 DEF Init, LockInv, LockedByHandler, OneRedeem, PageInv, Sends, In
<1>2. TypeOK /\ LockInv /\ PageInv /\ [Next]_vars => LockInv' /\ PageInv'
  BY LockInvStep, PageInvStep
<1> QED
  BY <1>1, <1>2, TypeCorrect, PTL DEF Spec

\* A locked page has the handler that will unlock it, whatever was recovered into it.
THEOREM LockedByHandlerAlways == Spec => []LockedByHandler
<1>1. LockInv => LockedByHandler
  BY DEF LockInv
<1> QED
  BY <1>1, PageCorrect, PTL

\* isRedeeming keeps two handlers from redeeming at once, on any page.
THEOREM OneRedeemAlways == Spec => []OneRedeem
<1>1. LockInv => OneRedeem
  BY DEF LockInv
<1> QED
  BY <1>1, PageCorrect, PTL

\* The disabled buttons keep to one handler at a time, whatever MaxRunning allows.
THEOREM OneHandlerAlways == Spec => []OneHandler
<1>1. PageInv => OneHandler
  BY DEF PageInv, OneHandler
<1> QED
  BY <1>1, PageCorrect, PTL

\* The redeem transaction belongs to the VAA that the page shows.
THEOREM ShownAsRedeemedAlways == Spec => []ShownAsRedeemed
<1>1. PageInv => ShownAsRedeemed
  BY DEF PageInv, ShownAsRedeemed, isSendComplete, isRedeemComplete
<1> QED
  BY <1>1, PageCorrect, PTL

----------------------------------------------------------------------------
(* The chain of what is redeemed *)

\* While a page is locked only Back to its address changes the target chain, and what is
\* on its chain stays so exactly as long as that does not happen.
LEMMA OnItsChainStep ==
    ASSUME TypeOK, LockInv, PageInv, PageInv', [Next]_vars, ~mixed', OnItsChain
    PROVE  OnItsChain' <=> ~Steered
<1> USE DEF isSendComplete
<1>1. ASSUME running' = running, mixed' = mixed, nft'.isSending = nft.isSending,
             nft'.signedVAA = nft.signedVAA
      PROVE  OnItsChain' <=> ~Steered
  <2>1. CASE nft'.targetChain = nft.targetChain
    BY <1>1, <2>1 DEF OnItsChain, Steered, Sends, In
  <2>2. CASE nft'.targetChain # nft.targetChain /\ ~shouldLockFields
    BY <1>1, <2>2 DEF OnItsChain, Steered, PageInv, Sends, In, shouldLockFields
  <2>3. CASE nft'.targetChain # nft.targetChain /\ shouldLockFields
    <3>1. Steered
      BY <1>1, <2>3 DEF Steered, shouldLockFields
    <3>2. CASE nft.signedVAA # None
      BY <1>1, <2>3, <3>1, <3>2 DEF OnItsChain
    <3>3. CASE nft.signedVAA = None
      <4>1. PICK h \in Slots : Sends(h)
        BY <2>3, <3>3 DEF shouldLockFields, LockInv, LockedByHandler
      <4> QED
        BY <1>1, <2>3, <3>1, <4>1 DEF OnItsChain, Sends, In
    <3> QED
      BY <3>2, <3>3
  <2> QED
    BY <2>1, <2>2, <2>3
<1>2. CASE Fill
  BY <1>1, <1>2, FillKeeps
<1>3. ASSUME NEW h \in Slots, Handle(h)
      PROVE  OnItsChain' <=> ~Steered
  <2>1. \A k \in Slots : k # h => running'[k] = running[k]
    BY <1>3, HandleSteps, OtherSlots
  <2>2. None \notin Handlers
    BY PageAssumption
  <2>3. nft'.targetChain = nft.targetChain
    BY <1>3, HandleSteps
  <2> QED
    BY <1>3, <2>1, <2>2, <2>3, HandleSteps DEF OnItsChain, Steered, Sends, In
<1>4. CASE handleResetClick
  <2>1. ~shouldLockFields'
    BY <1>4, ResetClears DEF shouldLockFields
  <2>2. \A h \in Slots : ~Sends(h)'
    BY <1>4, <2>1, ResetClears DEF PageInv, Sends, In
  <2> QED
    BY <1>4, <2>1, <2>2, ResetClears DEF OnItsChain, Steered
<1>5. CASE \E page \in {"nft", "redeem"} : FollowLink(page)
  BY <1>1, <1>5 DEF FollowLink
<1>6. CASE GoBack
  BY <1>1, <1>6, GoBackKeeps
<1>7. CASE Loads
  BY <1>7, LoadClears DEF OnItsChain, Steered, Sends, In, shouldLockFields
<1>8. CASE Recover
  <2>1. CASE nft' = nft /\ mixed' = mixed
    BY <1>1, <1>8, <2>1, RecoverKeeps
  <2>2. CASE nft' # nft \/ mixed' # mixed
    <3>1. nft \in Loaded /\ \A h \in Slots : running[h] = None
      BY <1>8, <2>2, RecoverKeeps DEF InUse
    <3>2. nft'.signedVAA.to = nft'.targetChain /\ running' = running
      BY <1>8, <2>2, RecoverKeeps
    <3> QED
      BY <3>1, <3>2, LoadedFresh DEF OnItsChain, Steered, Sends, In, shouldLockFields
  <2> QED
    BY <2>1, <2>2
<1>9. CASE UNCHANGED vars
  BY <1>1, <1>9 DEF vars, pageVars
<1> QED
  BY <1>2, <1>3, <1>4, <1>5, <1>6, <1>7, <1>8, <1>9 DEF Next

\* A transfer that is under way is redeemed on its chain until the address of the page
\* sets the chains, which always turns it away from its chain: the effect of the page
\* does not ask whether the fields are locked (NFT/index.tsx:50-74, nftSlice.ts:101-117,
\* 158-173, 187-191).
THEOREM OnItsChainUntilSteeredAlways == Spec => OnItsChainUntilSteered
<1>1. /\ TypeOK /\ LockInv /\ PageInv
      /\ (TypeOK /\ LockInv /\ PageInv)'
      /\ [Next]_vars
      => [~mixed' /\ OnItsChain => (OnItsChain' <=> ~Steered)]_vars
  BY OnItsChainStep
<1> QED
  BY <1>1, PageCorrect, PTL DEF Spec, OnItsChainUntilSteered

=============================================================================
