----------------------- MODULE SourceAccounts_proofs -----------------------
(***************************************************************************)
(* Proofs about the list of tokens and the selection from it, for any      *)
(* accounts in both wallets and any number of lists on their way.          *)
(***************************************************************************)
EXTENDS SourceAccounts, TLAPS

\* What a wallet may show.
WalletsTyped(w) ==
    /\ w \in [Chains -> Wallets \cup {None}]
    /\ w["ethereum"] \in EthAccounts \cup {None}
    /\ w["solana"] \in SolAccounts \cup {None}

LEMMA WalletTyped == TypeOK => WalletsTyped(wallet)
<1> SUFFICES ASSUME TypeOK PROVE WalletsTyped(wallet)
  OBVIOUS
<1>1. Accounts["ethereum"] = EthAccounts /\ Accounts["solana"] = SolAccounts
  BY DEF Accounts
<1> QED
  BY <1>1 DEF TypeOK, WalletsTyped, Chains

LEMMA DependenciesTyped ==
    ASSUME NEW p \in Page, NEW w, WalletsTyped(w)
    PROVE  /\ Dependencies(p, w) \in Rendered
           /\ Current(p, w) \in Wallets \cup {None}
           /\ Dependencies(p, w).wallet = <<p.sourceWallet, Current(p, w)>>
           /\ Dependencies(p, w).ethereum[1] = p.sourceChain
           /\ Dependencies(p, w).ethereum[2] = w["ethereum"]
<1>1. Current(p, w) \in Wallets \cup {None}
  BY DEF Current, Page, WalletsTyped
<1>2. Dependencies(p, w) \in Rendered
  BY <1>1 DEF Dependencies, Rendered, Page, WalletsTyped
<1> QED
  BY <1>1, <1>2 DEF Dependencies

\* What is due, by whether the selector is shown and has run.
LEMMA DueCases ==
    ASSUME NEW p \in Page, NEW w, WalletsTyped(w)
    PROVE  /\ ~Shown(p, w) => Due(p, w) = IF p.ran = None THEN {} ELSE Effects
           /\ Shown(p, w) /\ p.ran = None => Due(p, w) = Effects
           /\ Shown(p, w) /\ p.ran # None /\ "wallet" \notin Due(p, w) =>
                 p.ran.wallet = Dependencies(p, w).wallet
           /\ Shown(p, w) /\ p.ran # None /\ "ethereum" \notin Due(p, w) =>
                 p.ran.ethereum = Dependencies(p, w).ethereum
           /\ Shown(p, w) /\ Due(p, w) = {} => p.ran = Dependencies(p, w)
<1>1. Dependencies(p, w) \in Rendered
  BY DependenciesTyped
<1>2. Effects # {}
  BY DEF Effects
<1>3. ASSUME Shown(p, w), p.ran # None
      PROVE  /\ p.ran \in Rendered
             /\ "wallet" \notin Due(p, w) => p.ran["wallet"] = Dependencies(p, w)["wallet"]
             /\ "solana" \notin Due(p, w) => p.ran["solana"] = Dependencies(p, w)["solana"]
             /\ "ethereum" \notin Due(p, w) => p.ran["ethereum"] = Dependencies(p, w)["ethereum"]
  BY <1>1, <1>3 DEF Due, Effects, Page
<1>4. ASSUME Shown(p, w), Due(p, w) = {} PROVE p.ran = Dependencies(p, w)
  <2>1. p.ran # None
    BY <1>2, <1>4 DEF Due
  <2>2. p.ran \in Rendered /\ \A e \in Effects : p.ran[e] = Dependencies(p, w)[e]
    BY <1>3, <1>4, <2>1 DEF Effects
  <2> QED
    BY <1>1, <2>2 DEF Effects, Rendered
<1>5. ~Shown(p, w) => Due(p, w) = IF p.ran = None THEN {} ELSE Effects
  BY DEF Due
<1>6. Shown(p, w) /\ p.ran = None => Due(p, w) = Effects
  BY DEF Due
<1> QED
  BY <1>3, <1>4, <1>5, <1>6

\* A wallet that is not the one of the selection is noticed by the next effects.
SwitchNoticed(p, w) ==
    p.ran # None /\ p.ran.wallet = <<p.sourceWallet, Current(p, w)>> => ~Switched(p, w)

\* A selector that is not there keeps no list and waits for none.
Mounted(p) == p.ran = None => ~p.covalent /\ p.loading = None

\* The Ethereum list that is waited for is that of the account of the last effects.
LoadingRan(p) ==
    p.loading # None => p.ran.ethereum[1] = "ethereum" /\ p.ran.ethereum[2] = p.loading

\* What a flush makes of p, when seen was rendered.
LEMMA FlushedPage ==
    ASSUME NEW p \in Page, NEW seen \in Page, NEW w, WalletsTyped(w),
           p.ran = seen.ran, p.covalent = seen.covalent, p.loading \in {seen.loading, None},
           Mounted(seen), LoadingRan(seen),
           NEW r, r = Flushed(p, seen, w, Due(seen, w))
    PROVE  /\ r \in Page
           /\ r.sourceChain = p.sourceChain
           /\ \/ r.sourceWallet = p.sourceWallet /\ r.selected = p.selected
              \/ r.sourceWallet = None /\ r.selected = None
           /\ r.ran = IF Shown(seen, w) THEN Dependencies(seen, w) ELSE None
           /\ Mounted(r)
           /\ LoadingRan(r)
           /\ Shown(seen, w) /\ SwitchNoticed(seen, w) /\ Switched(seen, w) =>
                 r.sourceWallet = None
<1> DEFINE due == Due(seen, w)
           d == Dependencies(seen, w)
<1>1. /\ d \in Rendered
      /\ d.wallet = <<seen.sourceWallet, Current(seen, w)>>
      /\ d.ethereum[1] = seen.sourceChain
      /\ d.ethereum[2] = w["ethereum"]
  BY DependenciesTyped
<1>2. d # None
  BY <1>1, AccountsAssumption
<1>3. CASE due = {}
  <2>1. r = p
    BY <1>3 DEF Flushed
  <2>2. CASE Shown(seen, w)
    <3>1. seen.ran = d
      BY <1>3, <2>2, DueCases
    <3> QED
      BY <1>1, <1>2, <2>1, <2>2, <3>1 DEF SwitchNoticed, Mounted, LoadingRan
  <2>3. CASE ~Shown(seen, w)
    <3>1. seen.ran = None
      <4>1. Effects # {}
        BY DEF Effects
      <4> QED
        BY <1>3, <2>3, <4>1, DueCases
    <3> QED
      BY <2>1, <2>3, <3>1 DEF Mounted, LoadingRan
  <2> QED
    BY <2>2, <2>3
<1>4. CASE due # {} /\ ~Shown(seen, w)
  <2>1. due = Effects
    BY <1>4, DueCases
  <2>2. r = [[p EXCEPT !.loading = None] EXCEPT !.ran = None, !.covalent = FALSE]
    BY <1>4, <2>1 DEF Flushed, Cleanup, Effects
  <2> QED
    BY <1>4, <2>2 DEF Page, Mounted, LoadingRan
<1>5. CASE due # {} /\ Shown(seen, w)
  <2> DEFINE clean == [Cleanup(p, due) EXCEPT !.ran = d]
             first == IF "wallet" \in due /\ Switched(seen, w) THEN resetSourceAccounts(clean) ELSE clean
             second == IF "solana" \in due /\ LoadsSolana(seen, w) THEN [first EXCEPT !.list = Fetching] ELSE first
             third == IF "ethereum" \in due /\ LoadsEthereum(seen, w)
                        THEN [second EXCEPT !.list = Fetching, !.loading = w["ethereum"]] ELSE second
  <2>1. r = third
    BY <1>5 DEF Flushed
  <2>2. /\ clean \in Page
        /\ clean.ran = d
        /\ clean.sourceChain = p.sourceChain /\ clean.sourceWallet = p.sourceWallet
        /\ clean.selected = p.selected
        /\ clean.loading = IF "ethereum" \in due THEN None ELSE p.loading
    BY <1>1 DEF Cleanup, Page
  <2>3. Empty \in Lists /\ Fetching \in Lists
    BY DEF Lists, Empty, Fetching
  <2>4. /\ first \in Page
        /\ first.ran = d /\ first.sourceChain = p.sourceChain /\ first.loading = clean.loading
        /\ \/ first.sourceWallet = p.sourceWallet /\ first.selected = p.selected
              /\ ~("wallet" \in due /\ Switched(seen, w))
           \/ first.sourceWallet = None /\ first.selected = None
    <3> HIDE DEF clean
    <3> QED
      BY <2>2, <2>3 DEF resetSourceAccounts, Page
  <2> HIDE DEF clean
  <2>5. /\ second \in Page
        /\ second.ran = d /\ second.sourceChain = p.sourceChain /\ second.loading = first.loading
        /\ second.sourceWallet = first.sourceWallet /\ second.selected = first.selected
    <3> HIDE DEF first
    <3> QED
      BY <2>3, <2>4 DEF Page
  <2> HIDE DEF first
  <2>6. /\ third \in Page
        /\ third.ran = d /\ third.sourceChain = p.sourceChain
        /\ third.sourceWallet = first.sourceWallet /\ third.selected = first.selected
        /\ IF "ethereum" \in due /\ LoadsEthereum(seen, w)
             THEN third.loading = w["ethereum"]
             ELSE third.loading = first.loading
    <3> HIDE DEF second
    <3>1. LoadsEthereum(seen, w) => w["ethereum"] \in EthAccounts
      BY DEF LoadsEthereum, WalletsTyped
    <3> QED
      BY <2>3, <2>5, <3>1 DEF Page
  <2> HIDE DEF second, third
  <2>7. LoadingRan(r)
    <3>1. CASE "ethereum" \in due
      BY <1>1, <2>1, <2>2, <2>4, <2>6, <3>1 DEF LoadingRan, LoadsEthereum
    <3>2. CASE "ethereum" \notin due /\ seen.ran # None
      <4>1. seen.ran.ethereum = d.ethereum
        BY <1>5, <3>2, DueCases
      <4> QED
        BY <2>1, <2>2, <2>4, <2>6, <3>2, <4>1 DEF LoadingRan
    <3>3. CASE "ethereum" \notin due /\ seen.ran = None
      BY <2>1, <2>2, <2>4, <2>6, <3>3 DEF LoadingRan, Mounted
    <3> QED
      BY <3>1, <3>2, <3>3
  <2>8. SwitchNoticed(seen, w) /\ Switched(seen, w) => "wallet" \in due
    <3>1. CASE seen.ran = None
      BY <1>5, <3>1, DueCases DEF Effects
    <3>2. CASE seen.ran # None
      BY <1>1, <1>5, <3>2, DueCases DEF SwitchNoticed
    <3> QED
      BY <3>1, <3>2
  <2>9. Mounted(r)
    BY <1>2, <2>1, <2>6 DEF Mounted
  <2> QED
    BY <1>5, <2>1, <2>3, <2>4, <2>6, <2>7, <2>8, <2>9
<1> QED
  BY <1>3, <1>4, <1>5

PageInv(p, w) == Mounted(p) /\ LoadingRan(p) /\ SwitchNoticed(p, w)

\* The inductive invariant.
SelectorInv ==
    /\ page.selected # None => page.selected = page.sourceWallet
    /\ PageInv(page, wallet)

\* The same for an update p of the page that leaves the wallet of the selection alone.
\* The wallet may change once the effects have run.
LEMMA FlushedInv ==
    ASSUME NEW p \in Page, NEW seen \in Page, NEW w, WalletsTyped(w), NEW v, WalletsTyped(v),
           p.ran = seen.ran, p.covalent = seen.covalent, p.loading \in {seen.loading, None},
           p.sourceChain = seen.sourceChain, p.sourceWallet = seen.sourceWallet,
           PageInv(seen, w),
           NEW r, r = Flushed(p, seen, w, Due(seen, w))
    PROVE  /\ r \in Page
           /\ PageInv(r, v)
           /\ r.sourceChain = p.sourceChain
           /\ r.selected = None \/ (r.selected = p.selected /\ r.sourceWallet = p.sourceWallet)
<1>1. /\ r \in Page
      /\ r.sourceChain = p.sourceChain
      /\ \/ r.sourceWallet = p.sourceWallet /\ r.selected = p.selected
         \/ r.sourceWallet = None /\ r.selected = None
      /\ r.ran = IF Shown(seen, w) THEN Dependencies(seen, w) ELSE None
      /\ Mounted(r)
      /\ LoadingRan(r)
      /\ Shown(seen, w) /\ Switched(seen, w) => r.sourceWallet = None
  BY FlushedPage DEF PageInv
<1>2. SwitchNoticed(r, v)
  <2> SUFFICES ASSUME r.ran # None, r.ran.wallet = <<r.sourceWallet, Current(r, v)>>, Switched(r, v)
               PROVE  FALSE
    BY DEF SwitchNoticed
  <2>1. Shown(seen, w) /\ r.ran.wallet = <<seen.sourceWallet, Current(seen, w)>>
    BY <1>1, DependenciesTyped
  <2>2. r.sourceWallet = seen.sourceWallet /\ Current(r, v) = Current(seen, w)
    BY <2>1
  <2>3. Switched(seen, w)
    BY <2>2 DEF Switched
  <2>4. r.sourceWallet = None
    BY <1>1, <2>1, <2>3
  <2> QED
    BY <2>4 DEF Switched
<1> QED
  BY <1>1, <1>2 DEF PageInv

\* The second dispatch of a pick: the selection is now of the wallet e, on Ethereum.
LEMMA PickedInv ==
    ASSUME NEW first \in Page, NEW w, WalletsTyped(w), NEW e \in EthAccounts,
           PageInv(first, w), first.selected \in {e, None},
           NEW r, r = Flushed([first EXCEPT !.sourceWallet = e], first, w, Due(first, w))
    PROVE  /\ r \in Page
           /\ PageInv(r, w)
           /\ r.selected # None => r.selected = r.sourceWallet
<1> DEFINE p == [first EXCEPT !.sourceWallet = e]
<1>1. /\ p \in Page
      /\ p.sourceWallet = e /\ p.selected = first.selected /\ p.list = first.list
      /\ p.ran = first.ran /\ p.covalent = first.covalent /\ p.loading = first.loading
      /\ p.sourceChain = first.sourceChain
  BY DEF Page, Wallets
<1> HIDE DEF p
<1>2. /\ r \in Page
      /\ r.sourceChain = first.sourceChain
      /\ \/ r.sourceWallet = e /\ r.selected = first.selected
         \/ r.sourceWallet = None /\ r.selected = None
      /\ r.ran = IF Shown(first, w) THEN Dependencies(first, w) ELSE None
      /\ Mounted(r)
      /\ LoadingRan(r)
      /\ Shown(first, w) /\ Switched(first, w) => r.sourceWallet = None
  <2>1. r = Flushed(p, first, w, Due(first, w))
    BY DEF p
  <2> QED
    BY <1>1, <2>1, FlushedPage DEF PageInv
<1>3. SwitchNoticed(r, w)
  <2> SUFFICES ASSUME r.ran # None, r.ran.wallet = <<r.sourceWallet, Current(r, w)>>, Switched(r, w)
               PROVE  FALSE
    BY DEF SwitchNoticed
  <2>1. Shown(first, w) /\ r.ran.wallet = <<first.sourceWallet, Current(first, w)>>
    BY <1>2, DependenciesTyped
  <2>2. r.sourceWallet = first.sourceWallet /\ Current(r, w) = Current(first, w)
    BY <2>1
  <2>3. Switched(first, w)
    BY <2>2 DEF Switched
  <2> QED
    BY <1>2, <2>1, <2>3 DEF Switched
<1> QED
  BY <1>2, <1>3 DEF PageInv

LEMMA LoadingTyped ==
    ASSUME NEW before \in [SolAccounts -> Nat], NEW started, NEW answered,
           \A s \in SolAccounts \cap answered : before[s] > 0
    PROVE  Loading(before, started, answered) \in [SolAccounts -> Nat]
<1>1. ASSUME NEW s \in SolAccounts
      PROVE  before[s] + (IF s \in started THEN 1 ELSE 0) - (IF s \in answered THEN 1 ELSE 0) \in Nat
  <2>1. before[s] \in Nat /\ (s \in answered => before[s] > 0)
    OBVIOUS
  <2> QED
    BY <2>1
<1> QED
  BY <1>1 DEF Loading

LEMMA InitInv == Init => TypeOK /\ SelectorInv
<1> SUFFICES ASSUME Init PROVE TypeOK /\ SelectorInv
  OBVIOUS
<1>1. PICK chain \in Chains :
         page = [left |-> FALSE, sourceChain |-> chain, selected |-> None, sourceWallet |-> None,
                 list |-> Empty, covalent |-> FALSE, loading |-> None, ran |-> None]
  BY DEF Init
<1>2. page \in Page
  BY <1>1 DEF Page, Lists, Empty
<1>3. TypeOK
  BY <1>2 DEF Init, TypeOK
<1>4. SelectorInv
  BY <1>1 DEF SelectorInv, PageInv, Mounted, LoadingRan, SwitchNoticed
<1> QED
  BY <1>3, <1>4

\* A settled selector that is shown has run its effects with what is rendered.
LEMMA SettledRan ==
    ASSUME NEW p \in Page, NEW w, WalletsTyped(w), Due(p, w) = {}
    PROVE  /\ Shown(p, w) => p.ran = Dependencies(p, w) /\ p.ran # None
           /\ ~Shown(p, w) => p.ran = None
<1>1. Dependencies(p, w) # None
  BY DependenciesTyped, AccountsAssumption
<1>2. Effects # {}
  BY DEF Effects
<1> QED
  BY <1>1, <1>2, DueCases

\* An update of the page while effects are due, and a wallet that may change.
LEMMA ArrivesInv ==
    ASSUME TypeOK, SelectorInv, NEW p \in Page, NEW answered,
           p.ran = page.ran, p.covalent = page.covalent, p.loading = page.loading,
           p.sourceChain = page.sourceChain, p.sourceWallet = page.sourceWallet,
           p.selected = page.selected,
           \A s \in SolAccounts \cap answered : loads[s] > 0,
           excused \in BOOLEAN,
           Arrives(p, answered), WalletsTyped(wallet')
    PROVE  /\ page' \in Page /\ loads' \in [SolAccounts -> Nat] /\ excused' \in BOOLEAN
           /\ PageInv(page', wallet')
           /\ page'.selected # None => page'.selected = page'.sourceWallet
<1>1. page' = Flushed(p, page, wallet, Due(page, wallet))
  BY DEF Arrives
<1>2. WalletsTyped(wallet) /\ page \in Page
  BY WalletTyped DEF TypeOK
<1>3. /\ page' \in Page
      /\ PageInv(page', wallet')
      /\ page'.sourceChain = p.sourceChain
      /\ page'.selected = None \/ (page'.selected = p.selected /\ page'.sourceWallet = p.sourceWallet)
  BY <1>1, <1>2, FlushedInv DEF SelectorInv
<1>4. loads' \in [SolAccounts -> Nat]
  BY LoadingTyped DEF Arrives, TypeOK
<1>5. excused' \in BOOLEAN
  BY DEF Arrives
<1> QED
  BY <1>3, <1>4, <1>5 DEF SelectorInv

LEMMA FlushInv == TypeOK /\ SelectorInv /\ Flush => TypeOK' /\ SelectorInv'
<1> SUFFICES ASSUME TypeOK, SelectorInv, Flush PROVE TypeOK' /\ SelectorInv'
  OBVIOUS
<1>1. WalletsTyped(wallet') /\ wallet' = wallet /\ picking' = picking
  BY WalletTyped DEF Flush
<1>2. /\ page' \in Page /\ loads' \in [SolAccounts -> Nat] /\ excused' \in BOOLEAN
      /\ PageInv(page', wallet')
      /\ page'.selected # None => page'.selected = page'.sourceWallet
  BY <1>1, ArrivesInv DEF Flush, TypeOK
<1> QED
  BY <1>1, <1>2 DEF TypeOK, SelectorInv

\* The events of the user.
LEMMA UserInv ==
    ASSUME TypeOK, SelectorInv,
           (\E chain \in Chains : ChooseSourceChain(chain)) \/ Refresh \/ Pick \/ Leave \/ Return
    PROVE  TypeOK' /\ SelectorInv'
<1> USE AccountsAssumption
<1>1. WalletsTyped(wallet) /\ page \in Page /\ wallet \in [Chains -> Wallets \cup {None}]
  BY WalletTyped DEF TypeOK
<1>2. Empty \in Lists
  BY DEF Empty, Lists
<1>3. /\ Settled
      /\ Shown(page, wallet) => page.ran # None /\ page.ran.wallet = <<page.sourceWallet, Current(page, wallet)>>
      /\ ~Shown(page, wallet) => page.ran = None
  <2>1. Settled
    BY DEF ChooseSourceChain, Refresh, Pick, Leave, Return, UserSets
  <2> QED
    BY <1>1, <2>1, SettledRan, DependenciesTyped DEF Settled
<1>4. CASE \E chain \in Chains : ChooseSourceChain(chain)
  <2> PICK chain \in Chains : ChooseSourceChain(chain)
    BY <1>4
  <2>1. /\ page' = setSourceChain(page, chain) /\ loads' = loads /\ wallet' = wallet
        /\ picking' = picking /\ excused' \in BOOLEAN
    BY <1>1 DEF ChooseSourceChain, UserSets, Page
  <2>2. /\ page' \in Page /\ page'.selected = None
        /\ page'.sourceChain = chain /\ page'.sourceWallet = page.sourceWallet
        /\ page'.ran = page.ran /\ page'.covalent = page.covalent /\ page'.loading = page.loading
    BY <1>1, <1>2, <2>1 DEF setSourceChain, Page
  <2>3. SwitchNoticed(page', wallet')
    <3>1. CASE Shown(page, wallet)
      <4>1. ~Switched(page, wallet)
        BY <1>3, <3>1 DEF SelectorInv, PageInv, SwitchNoticed
      <4>2. page'.ran.wallet = <<page'.sourceWallet, Current(page', wallet')>> =>
               Current(page', wallet') = Current(page, wallet)
        BY <1>3, <2>2, <3>1
      <4> QED
        BY <2>2, <4>1, <4>2 DEF SwitchNoticed, Switched
    <3>2. CASE ~Shown(page, wallet)
      BY <1>3, <2>2, <3>2 DEF SwitchNoticed
    <3> QED
      BY <3>1, <3>2
  <2>4. Mounted(page') /\ LoadingRan(page')
    BY <2>2 DEF SelectorInv, PageInv, Mounted, LoadingRan
  <2> QED
    BY <2>1, <2>2, <2>3, <2>4 DEF TypeOK, SelectorInv, PageInv
<1>5. CASE Refresh
  <2>1. /\ page' = resetSourceAccounts(page) /\ UNCHANGED <<loads, wallet, picking, excused>>
    BY <1>5 DEF Refresh, UserSets
  <2>2. /\ page' \in Page /\ page'.selected = None /\ page'.sourceWallet = None
        /\ page'.covalent = FALSE /\ page'.ran = page.ran /\ page'.loading = page.loading
    BY <1>1, <1>2, <2>1 DEF resetSourceAccounts, Page
  <2>3. PageInv(page', wallet')
    BY <2>2 DEF SelectorInv, PageInv, Mounted, LoadingRan, SwitchNoticed, Switched
  <2> QED
    BY <2>1, <2>2, <2>3 DEF TypeOK, SelectorInv
<1>6. CASE Pick /\ page.sourceChain = "ethereum"
  <2>1. /\ UNCHANGED <<page, loads, wallet, excused>>
        /\ picking' = picking \cup {wallet["ethereum"]} /\ wallet["ethereum"] # None
    BY <1>6 DEF Pick, Current
  <2>2. wallet["ethereum"] \in EthAccounts
    BY <1>1, <2>1 DEF WalletsTyped
  <2> QED
    BY <2>1, <2>2 DEF TypeOK, SelectorInv, PageInv, Mounted, LoadingRan, SwitchNoticed, Current, Switched
<1>7. CASE Pick /\ page.sourceChain # "ethereum"
  <2>1. /\ page' = [page EXCEPT !.selected = wallet["solana"], !.sourceWallet = wallet["solana"]]
        /\ UNCHANGED <<loads, wallet, picking, excused>>
        /\ Shown(page, wallet) /\ Current(page, wallet) # None
    BY <1>7 DEF Pick, UserSets
  <2>2. page.sourceChain = "solana"
    BY <1>1, <1>7 DEF Page, Chains
  <2>3. /\ page' \in Page /\ page'.selected = wallet["solana"] /\ page'.sourceWallet = wallet["solana"]
        /\ page'.sourceChain = page.sourceChain
        /\ page'.ran = page.ran /\ page'.covalent = page.covalent /\ page'.loading = page.loading
    BY <1>1, <2>1 DEF Page, WalletsTyped, Wallets
  <2>4. Current(page', wallet') = Current(page, wallet) /\ Current(page, wallet) = wallet["solana"]
    BY <2>1, <2>2, <2>3 DEF Current
  <2>5. ~Switched(page', wallet')
    BY <2>3, <2>4 DEF Switched
  <2>6. page.ran # None
    BY <1>3, <2>1 DEF SelectorInv, PageInv, SwitchNoticed
  <2>7. PageInv(page', wallet')
    BY <2>3, <2>5 DEF SelectorInv, PageInv, Mounted, LoadingRan, SwitchNoticed
  <2> QED
    BY <2>1, <2>3, <2>7 DEF TypeOK, SelectorInv
<1>8. CASE Leave \/ Return
  <2>1. /\ UNCHANGED <<loads, wallet, picking, excused>>
        /\ \E b \in BOOLEAN : page' = [page EXCEPT !.left = b]
    BY <1>8 DEF Leave, Return, UserSets
  <2>2. /\ page' \in Page /\ page'.selected = page.selected /\ page'.sourceWallet = page.sourceWallet
        /\ page'.sourceChain = page.sourceChain
        /\ page'.ran = page.ran /\ page'.covalent = page.covalent /\ page'.loading = page.loading
    BY <1>1, <2>1 DEF Page
  <2>3. Current(page', wallet') = Current(page, wallet)
    BY <2>1, <2>2 DEF Current
  <2>4. Switched(page', wallet') <=> Switched(page, wallet)
    BY <2>2, <2>3 DEF Switched
  <2>5. PageInv(page', wallet')
    BY <2>2, <2>3, <2>4 DEF SelectorInv, PageInv, Mounted, LoadingRan, SwitchNoticed
  <2> QED
    BY <2>1, <2>2, <2>5 DEF TypeOK, SelectorInv
<1> QED
  BY <1>4, <1>5, <1>6, <1>7, <1>8

\* A pick is answered, with two renders.
LEMMA PickedStep ==
    ASSUME TypeOK, SelectorInv, NEW e \in EthAccounts, Picked(e)
    PROVE  TypeOK' /\ SelectorInv'
<1> DEFINE due == Due(page, wallet)
           p == [page EXCEPT !.selected = e]
           first == Flushed(p, page, wallet, due)
           next == Due(first, wallet)
<1>1. WalletsTyped(wallet) /\ page \in Page /\ loads \in [SolAccounts -> Nat]
  BY WalletTyped DEF TypeOK
<1>2. /\ page' = Flushed([first EXCEPT !.sourceWallet = e], first, wallet, next)
      /\ loads' = Loading(Loading(loads, Started(page, wallet, due), {}), Started(first, wallet, next), {})
      /\ excused' = (excused /\ ~Restarted(page, wallet, due) /\ ~Restarted(first, wallet, next))
      /\ picking' = picking \ {e} /\ wallet' = wallet
  BY DEF Picked
<1>3. /\ p \in Page /\ p.selected = e /\ p.sourceWallet = page.sourceWallet
      /\ p.ran = page.ran /\ p.covalent = page.covalent /\ p.loading = page.loading
      /\ p.sourceChain = page.sourceChain
  BY <1>1 DEF Page, Wallets
<1>5. /\ first \in Page
      /\ PageInv(first, wallet)
      /\ first.selected \in {e, None}
  <2> HIDE DEF p
  <2> QED
    BY <1>1, <1>3, FlushedInv DEF SelectorInv
<1> HIDE DEF p, first, next, due
<1>6. /\ page' \in Page
      /\ PageInv(page', wallet)
      /\ page'.selected # None => page'.selected = page'.sourceWallet
  BY <1>1, <1>2, <1>5, PickedInv DEF next
<1>7. loads' \in [SolAccounts -> Nat]
  <2>1. Loading(loads, Started(page, wallet, due), {}) \in [SolAccounts -> Nat]
    BY <1>1, LoadingTyped
  <2> QED
    BY <1>2, <2>1, LoadingTyped
<1> QED
  BY <1>2, <1>5, <1>6, <1>7 DEF TypeOK, SelectorInv

\* A wallet changes, after the effects that were due have run.
LEMMA WalletStep ==
    ASSUME TypeOK, SelectorInv, NEW chain \in Chains, NEW account \in Accounts[chain] \cup {None},
           WalletChanges(chain, account)
    PROVE  TypeOK' /\ SelectorInv'
<1>1. WalletsTyped(wallet) /\ page \in Page
  BY WalletTyped DEF TypeOK
<1>2. Accounts["ethereum"] = EthAccounts /\ Accounts["solana"] = SolAccounts
  BY DEF Accounts
<1>3. /\ wallet' \in [Chains -> Wallets \cup {None}]
      /\ wallet'[chain] = account
      /\ \A c \in Chains : c # chain => wallet'[c] = wallet[c]
  BY <1>1, <1>2 DEF WalletChanges, WalletsTyped, Wallets, Chains
<1>4. WalletsTyped(wallet') /\ \A c \in Chains : wallet'[c] \in Accounts[c] \cup {None}
  BY <1>1, <1>2, <1>3 DEF WalletsTyped, Chains
<1>5. /\ page' \in Page /\ loads' \in [SolAccounts -> Nat] /\ excused' \in BOOLEAN
      /\ PageInv(page', wallet')
      /\ page'.selected # None => page'.selected = page'.sourceWallet
  <2>1. Arrives(page, {})
    BY DEF WalletChanges
  <2> QED
    BY <1>4, <2>1, ArrivesInv DEF TypeOK
<1>6. picking' = picking
  BY DEF WalletChanges, TypeOK
<1> QED
  BY <1>3, <1>4, <1>5, <1>6 DEF TypeOK, SelectorInv

\* A Solana list, or the error in its place, is taken by whatever the page is by then.
LEMMA SolanaStep ==
    ASSUME TypeOK, SelectorInv, NEW s \in SolAccounts, NEW list \in {Received(s), Failed},
           SolanaAnswers(s, list)
    PROVE  TypeOK' /\ SelectorInv'
<1> DEFINE p == [page EXCEPT !.list = list]
<1>1. WalletsTyped(wallet) /\ page \in Page /\ wallet' = wallet /\ picking' = picking
  BY WalletTyped DEF TypeOK, SolanaAnswers
<1>2. list \in Lists
  BY DEF Lists, Received, Failed, Wallets
<1>3. /\ p \in Page /\ p.selected = page.selected /\ p.sourceWallet = page.sourceWallet
      /\ p.ran = page.ran /\ p.covalent = page.covalent /\ p.loading = page.loading
      /\ p.sourceChain = page.sourceChain
  BY <1>1, <1>2 DEF Page
<1>4. Arrives(p, {s}) /\ loads[s] > 0
  BY DEF SolanaAnswers
<1> HIDE DEF p
<1>7. /\ page' \in Page /\ loads' \in [SolAccounts -> Nat] /\ excused' \in BOOLEAN
      /\ PageInv(page', wallet')
      /\ page'.selected # None => page'.selected = page'.sourceWallet
  BY <1>1, <1>3, <1>4, ArrivesInv DEF TypeOK
<1> QED
  BY <1>1, <1>7 DEF TypeOK, SelectorInv

\* The Ethereum list goes to the state of the selector first, which runs the effects.
LEMMA EthereumStep ==
    ASSUME TypeOK, SelectorInv, EthereumAnswers
    PROVE  TypeOK' /\ SelectorInv'
<1> DEFINE kept == [page EXCEPT !.covalent = TRUE]
           p == [kept EXCEPT !.list = Received(page.loading)]
<1>1. WalletsTyped(wallet) /\ page \in Page
  BY WalletTyped DEF TypeOK
<1>2. page.loading # None /\ UNCHANGED <<loads, wallet, picking, excused>>
  BY DEF EthereumAnswers
<1>3. page.ran # None
  BY <1>2 DEF SelectorInv, PageInv, Mounted
<1>5. /\ kept \in Page /\ kept.selected = page.selected /\ kept.sourceWallet = page.sourceWallet
      /\ kept.ran = page.ran /\ kept.covalent = TRUE /\ kept.loading = page.loading
      /\ kept.sourceChain = page.sourceChain
  BY <1>1 DEF Page
<1>6. PageInv(kept, wallet)
  BY <1>3, <1>5 DEF SelectorInv, PageInv, Mounted, LoadingRan, SwitchNoticed, Switched, Current
<1>7. /\ p \in Page
      /\ p.selected = page.selected /\ p.sourceWallet = page.sourceWallet
      /\ p.ran = page.ran /\ p.covalent = TRUE /\ p.loading = page.loading
      /\ p.sourceChain = page.sourceChain
  <2>1. Received(page.loading) \in Lists
    BY <1>1, <1>2 DEF Received, Lists, Page, Wallets
  <2> HIDE DEF kept
  <2> QED
    BY <1>5, <2>1 DEF Page
<1>8. page' = Flushed(p, kept, wallet, Due(kept, wallet))
  BY DEF EthereumAnswers
<1> HIDE DEF kept, p
<1>9. /\ page' \in Page
      /\ PageInv(page', wallet)
      /\ page'.selected = None \/ (page'.selected = p.selected /\ page'.sourceWallet = p.sourceWallet)
  <2>1. /\ kept \in Page /\ p \in Page
        /\ p.ran = kept.ran /\ p.covalent = kept.covalent /\ p.loading = kept.loading
        /\ p.sourceChain = kept.sourceChain /\ p.sourceWallet = kept.sourceWallet
    BY <1>5, <1>7
  <2> QED
    BY <1>1, <1>6, <1>8, <2>1, FlushedInv
<1> QED
  BY <1>2, <1>7, <1>9 DEF TypeOK, SelectorInv

\* A failure goes to the store first, and runs the effects that were due.
LEMMA FailsStep ==
    ASSUME TypeOK, SelectorInv, EthereumFails
    PROVE  TypeOK' /\ SelectorInv'
<1> DEFINE p == [page EXCEPT !.list = Failed, !.loading = None]
<1>1. WalletsTyped(wallet) /\ page \in Page /\ loads \in [SolAccounts -> Nat]
  BY WalletTyped DEF TypeOK
<1>2. /\ page' = Flushed(p, page, wallet, Due(page, wallet))
      /\ loads' = Loading(loads, Started(page, wallet, Due(page, wallet)), {})
      /\ excused' = ~Restarted(page, wallet, Due(page, wallet))
      /\ UNCHANGED <<wallet, picking>>
  BY DEF EthereumFails
<1>3. /\ p \in Page /\ p.selected = page.selected /\ p.sourceWallet = page.sourceWallet
      /\ p.ran = page.ran /\ p.covalent = page.covalent /\ p.loading = None
      /\ p.sourceChain = page.sourceChain
  <2>1. Failed \in Lists
    BY DEF Failed, Lists
  <2> QED
    BY <1>1, <2>1 DEF Page
<1> HIDE DEF p
<1>4. /\ page' \in Page
      /\ PageInv(page', wallet)
      /\ page'.selected = None \/ (page'.selected = p.selected /\ page'.sourceWallet = p.sourceWallet)
  BY <1>1, <1>2, <1>3, FlushedInv DEF SelectorInv
<1>5. loads' \in [SolAccounts -> Nat]
  BY <1>1, <1>2, LoadingTyped
<1>6. excused' \in BOOLEAN
  BY <1>2
<1> QED
  BY <1>2, <1>3, <1>4, <1>5, <1>6 DEF TypeOK, SelectorInv

\* In every reachable state the selector is well typed, and what it keeps, waits for
\* and shows fits what its effects have last run with.
THEOREM SelectorCorrect == Spec => [](TypeOK /\ SelectorInv)
<1>1. TypeOK /\ SelectorInv /\ [Next]_vars => TypeOK' /\ SelectorInv'
  <2> SUFFICES ASSUME TypeOK, SelectorInv, [Next]_vars PROVE TypeOK' /\ SelectorInv'
    OBVIOUS
  <2>1. CASE Flush
    BY <2>1, FlushInv
  <2>2. CASE (\E chain \in Chains : ChooseSourceChain(chain)) \/ Refresh \/ Pick \/ Leave \/ Return
    BY <2>2, UserInv
  <2>3. CASE \E e \in EthAccounts : Picked(e)
    BY <2>3, PickedStep
  <2>4. CASE \E e \in EthAccounts : PickFails(e)
    BY <2>4 DEF PickFails, TypeOK, SelectorInv, PageInv, Mounted, LoadingRan, SwitchNoticed, Current, Switched
  <2>5. CASE \E chain \in Chains : \E account \in Accounts[chain] \cup {None} : WalletChanges(chain, account)
    BY <2>5, WalletStep
  <2>6. CASE Answers
    BY <2>6, SolanaStep, EthereumStep, FailsStep DEF Answers
  <2>7. CASE UNCHANGED vars
    BY <2>7 DEF vars, TypeOK, SelectorInv, PageInv, Mounted, LoadingRan, SwitchNoticed, Current, Switched
  <2> QED
    BY <2>1, <2>2, <2>3, <2>4, <2>5, <2>6, <2>7 DEF Next
<1> QED
  BY <1>1, InitInv, PTL DEF Spec

\* The store, the selector and the lists on their way keep their types.
THEOREM TypeCorrect == Spec => []TypeOK
BY SelectorCorrect, PTL

\* Whatever picks are still looked at, the selection is that of the connected account
\* once the effects have run.
THEOREM SelectedWithWalletAlways == Spec => []SelectedWithWallet
<1>1. TypeOK /\ SelectorInv => SelectedWithWallet
  <2> SUFFICES ASSUME TypeOK, SelectorInv, Settled, Connected, page.selected # None
               PROVE  page.selected = Current(page, wallet) /\ page.sourceWallet = page.selected
    BY DEF SelectedWithWallet
  <2>1. page \in Page /\ WalletsTyped(wallet)
    BY WalletTyped DEF TypeOK
  <2>2. page.ran # None /\ page.ran.wallet = <<page.sourceWallet, Current(page, wallet)>>
    BY <2>1, SettledRan, DependenciesTyped DEF Settled, Connected
  <2>3. ~Switched(page, wallet)
    BY <2>2 DEF SelectorInv, PageInv, SwitchNoticed
  <2> QED
    BY <2>3 DEF SelectorInv, Switched, Connected
<1> QED
  BY <1>1, SelectorCorrect, PTL

=============================================================================
