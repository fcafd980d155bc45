------------------------- MODULE AssetHooks_proofs -------------------------
(***************************************************************************)
(* Proofs about the recipient of a transfer, for any domains and any       *)
(* accounts in both wallets.                                               *)
(***************************************************************************)
EXTENDS AssetHooks, TLAPS

\* What a wallet may show.
WalletsTyped(w) ==
    /\ w \in [Chains -> EthAccounts \cup SolAccounts \cup {None}]
    /\ w["ethereum"] \in EthAccounts \cup {None}
    /\ w["solana"] \in SolAccounts \cup {None}

ArgsSet == ((Origins \cup {None}) \X Chains) \cup {None}

\* The page, whatever its effects have last run with.
PageTyped(p) == p \in [nft : Store, args : ArgsSet, job : Jobs, ran : {p.ran}]

LEMMA Targets ==
    /\ Other("solana") = "ethereum"
    /\ Other("ethereum") = "solana"
    /\ \A nft \in Store : Target(nft) \in Chains
<1>1. Other("solana") = "ethereum" /\ Other("ethereum") = "solana"
  BY DEF Other, Chains
<1> QED
  BY <1>1 DEF Target, Store, Chains

LEMMA WalletTyped ==
    (\A chain \in Chains : wallet[chain] \in Accounts[chain] \cup {None})
    /\ wallet \in [Chains -> EthAccounts \cup SolAccounts \cup {None}] <=> WalletsTyped(wallet)
<1>1. Accounts["ethereum"] = EthAccounts /\ Accounts["solana"] = SolAccounts
  BY DEF Accounts
<1> QED
  BY <1>1 DEF WalletsTyped, Chains

\* An effect that is not due has run with the dependencies of now.
LEMMA NotDue ==
    ASSUME NEW p, NEW w
    PROVE  /\ "sync" \notin Due(p, w) => p.ran.sync = SyncDependencies(p, w)
           /\ "check" \notin Due(p, w) => p.ran.check = CheckDependencies(p, w)
           /\ "fetch" \notin Due(p, w) => p.ran.fetch = FetchDependencies(p, w)
<1>1. /\ "sync" \notin Due(p, w) => p.ran["sync"] = Dependencies(p, w)["sync"]
      /\ "check" \notin Due(p, w) => p.ran["check"] = Dependencies(p, w)["check"]
      /\ "fetch" \notin Due(p, w) => p.ran["fetch"] = Dependencies(p, w)["fetch"]
  BY DEF Due, Effects
<1> QED
  BY <1>1 DEF Dependencies

----------------------------------------------------------------------------

\* An account of the user on Ethereum, as an address.
EthAddress(a) == a # None /\ a \in [owner : EthAccounts, chain : {"ethereum"}]

\* What a job waits for was asked for with what its effect has last run with.
SyncRan(job, ran) ==
    job # None => job.asset # None /\ \E x : ran = <<"solana", x, job.owner, job.asset>>

CheckRan(job, ran) ==
    job # None =>
        \E x : \E chain \in Chains, d \in Domains :
            /\ ran = <<chain, d, x>>
            /\ job = [domain |-> d, wrapped |-> chain = "solana"]

FetchRan(job, ran) ==
    job # None =>
        \E x, y : \E origin \in Origins, chain \in Chains :
            /\ origin # None
            /\ ran = <<origin, chain, x, y>>
            /\ job = Sought(chain, origin)

JobsRan(p) ==
    /\ SyncRan(p.job.sync, p.ran.sync)
    /\ CheckRan(p.job.check, p.ran.check)
    /\ FetchRan(p.job.fetch, p.ran.fetch)

LEMMA NothingRan ==
    ASSUME NEW ran
    PROVE  SyncRan(None, ran) /\ CheckRan(None, ran) /\ FetchRan(None, ran)
BY DEF SyncRan, CheckRan, FetchRan

\* What an effect may do to the store.
Touched(p, r) ==
    /\ r.nft.activeStep = p.nft.activeStep
    /\ r.nft.sourceChain = p.nft.sourceChain
    /\ r.nft.selected = p.nft.selected
    /\ r.nft.origin = p.nft.origin
    /\ \/ r.nft.targetAsset \in {p.nft.targetAsset, None}
       \/ Target(p.nft) = "ethereum" /\ r.nft.targetAsset = [chain |-> "ethereum"]
    /\ \/ r.nft.targetAddress \in {p.nft.targetAddress, None}
       \/ Target(p.nft) = "ethereum" /\ EthAddress(r.nft.targetAddress)
    /\ r.ran = p.ran

LEMMA SyncEffect ==
    ASSUME NEW p, PageTyped(p), NEW seen, PageTyped(seen), NEW w, WalletsTyped(w),
           seen.nft.sourceChain = p.nft.sourceChain,
           NEW r, r = useSyncTargetAddress(p, seen, w)
    PROVE  /\ PageTyped(r) /\ Touched(p, r)
           /\ r.args = p.args /\ r.job.check = p.job.check /\ r.job.fetch = p.job.fetch
           /\ \/ r.job.sync = p.job.sync
              \/ SyncRan(r.job.sync, SyncDependencies(seen, w))
<1>0. p.nft \in Store /\ seen.nft \in Store /\ Target(seen.nft) = Target(p.nft) /\ Target(p.nft) \in Chains
  BY Targets DEF PageTyped, Target
<1>1. CASE seen.nft.activeStep # 1
  BY <1>1 DEF useSyncTargetAddress, Touched
<1>2. CASE seen.nft.activeStep = 1 /\ Target(seen.nft) = "ethereum" /\ w["ethereum"] # None
  <2> DEFINE a == [owner |-> w["ethereum"], chain |-> "ethereum"]
  <2>1. r = [p EXCEPT !.nft.targetAddress = a]
    BY <1>2 DEF useSyncTargetAddress
  <2>2. a \in [owner : EthAccounts, chain : {"ethereum"}]
    BY <1>2 DEF WalletsTyped
  <2>3. a \in Addresses
    BY <2>2 DEF Addresses
  <2> QED
    BY <1>0, <1>2, <2>1, <2>2, <2>3 DEF PageTyped, Touched, Store, EthAddress
<1>3. CASE seen.nft.activeStep = 1 /\ Target(seen.nft) = "solana" /\ w["solana"] # None
           /\ seen.nft.targetAsset # None
  <2> DEFINE j == [asset |-> seen.nft.targetAsset, owner |-> w["solana"]]
  <2>1. r = [p EXCEPT !.job.sync = j]
    BY <1>3 DEF useSyncTargetAddress
  <2>2. j \in [asset : Assets, owner : SolAccounts]
    BY <1>3 DEF WalletsTyped, PageTyped, Store
  <2>3. PageTyped(r) /\ r.job.sync = j /\ r.nft = p.nft /\ r.args = p.args /\ r.ran = p.ran
        /\ r.job.check = p.job.check /\ r.job.fetch = p.job.fetch
    BY <2>1, <2>2 DEF PageTyped, Jobs
  <2> QED
    BY <1>3, <2>3 DEF Touched, SyncDependencies, SyncRan
<1>4. CASE ~(seen.nft.activeStep # 1)
           /\ ~(Target(seen.nft) = "ethereum" /\ w["ethereum"] # None)
           /\ ~(Target(seen.nft) = "solana" /\ w["solana"] # None /\ seen.nft.targetAsset # None)
  <2>1. r = [p EXCEPT !.nft.targetAddress = None]
    BY <1>0, <1>4 DEF useSyncTargetAddress, Chains
  <2> QED
    BY <2>1 DEF PageTyped, Touched, Store
<1> QED
  BY <1>1, <1>2, <1>3, <1>4

\* The lookup of the origin changes nothing else.
OnlyCheck(p, r) ==
    /\ r.nft = p.nft /\ r.args = p.args /\ r.ran = p.ran
    /\ r.job.sync = p.job.sync /\ r.job.fetch = p.job.fetch

LEMMA CheckEffect ==
    ASSUME NEW p, PageTyped(p), NEW seen, PageTyped(seen), NEW w, WalletsTyped(w),
           NEW r, r = useCheckIfWormholeWrapped(p, seen, w)
    PROVE  /\ PageTyped(r)
           /\ OnlyCheck(p, r)
           /\ \/ r.job.check = p.job.check
              \/ CheckRan(r.job.check, CheckDependencies(seen, w))
<1> DEFINE chain == seen.nft.sourceChain
           wrapped == chain = "solana"
           j == [domain |-> seen.nft.selected, wrapped |-> wrapped]
<1>1. CASE r = p
  BY <1>1 DEF OnlyCheck
<1>2. CASE r # p
  <2>1. seen.nft.selected # None /\ r = [p EXCEPT !.job.check = j]
    BY <1>2 DEF useCheckIfWormholeWrapped
  <2>2. seen.nft.selected \in Domains /\ chain \in Chains
    BY <2>1 DEF PageTyped, Store
  <2>3. wrapped \in BOOLEAN
    OBVIOUS
  <2> HIDE DEF wrapped
  <2>4. j \in Origins
    BY <2>2, <2>3 DEF Origins
  <2> HIDE DEF j
  <2>5. PageTyped(r) /\ r.job.check = j /\ r.nft = p.nft /\ r.args = p.args /\ r.ran = p.ran
        /\ r.job.sync = p.job.sync /\ r.job.fetch = p.job.fetch
    BY <2>1, <2>4 DEF PageTyped, Jobs
  <2>6. CheckDependencies(seen, w) = <<chain, seen.nft.selected, w["ethereum"] # None>>
    BY DEF CheckDependencies
  <2> QED
    BY <2>2, <2>5, <2>6 DEF j, wrapped, CheckRan, OnlyCheck
<1> QED
  BY <1>1, <1>2

LEMMA SoughtTyped ==
    ASSUME NEW chain \in Chains, NEW origin \in Origins
    PROVE  Sought(chain, origin) \in Assets
BY DEF Sought, Assets, Chains, Origins

LEMMA FetchEffect ==
    ASSUME NEW p, PageTyped(p), NEW seen, PageTyped(seen), NEW w, WalletsTyped(w),
           seen.nft.sourceChain = p.nft.sourceChain,
           NEW r, r = useFetchTargetAsset(p, seen, w)
    PROVE  /\ PageTyped(r) /\ Touched(p, r)
           /\ r.job.sync = p.job.sync /\ r.job.check = p.job.check
           /\ \/ r.job.fetch = p.job.fetch
              \/ FetchRan(r.job.fetch, FetchDependencies(seen, w))
<1> DEFINE chain == Target(seen.nft)
           origin == seen.nft.origin
           home == [chain |-> "ethereum"]
<1>1. p.nft \in Store /\ seen.nft \in Store /\ chain = Target(p.nft) /\ chain \in Chains
      /\ origin \in Origins \cup {None}
  BY Targets DEF PageTyped, Target, Store
<1>2. Args(seen.nft) \in ArgsSet
  BY <1>1 DEF Args, ArgsSet
<1>3. home \in Assets
  BY DEF Assets
<1>4. CASE r = p
  BY <1>4 DEF Touched
<1>5. CASE r = [p EXCEPT !.args = None]
  BY <1>5 DEF Touched, PageTyped, ArgsSet
<1>6. CASE chain = "ethereum" /\ r = [p EXCEPT !.nft.targetAsset = home, !.args = Args(seen.nft)]
  <2>1. /\ r.nft = [p.nft EXCEPT !.targetAsset = home] /\ r.args = Args(seen.nft)
        /\ r.job = p.job /\ r.ran = p.ran
        /\ r = [nft |-> r.nft, args |-> r.args, job |-> r.job, ran |-> r.ran]
    BY <1>6 DEF PageTyped
  <2>2. r.nft \in Store /\ r.nft.targetAsset = home
    BY <1>1, <1>3, <2>1 DEF Store
  <2>3. PageTyped(r)
    BY <1>2, <2>1, <2>2 DEF PageTyped
  <2>4. Touched(p, r)
    BY <1>1, <1>6, <2>1, <2>2 DEF Touched, Store
  <2> QED
    BY <2>1, <2>3, <2>4
<1>7. CASE origin # None /\ r = [p EXCEPT !.args = None, !.nft.targetAsset = None, !.job.fetch = Sought(chain, origin)]
  <2>1. Sought(chain, origin) \in Assets
    BY <1>1, <1>7, SoughtTyped
  <2>2. FetchDependencies(seen, w) = <<origin, chain, w["ethereum"] # None, seen.args = Args(seen.nft)>>
    BY DEF FetchDependencies
  <2>3. PageTyped(r) /\ Touched(p, r) /\ r.job.sync = p.job.sync /\ r.job.check = p.job.check
        /\ r.job.fetch = Sought(chain, origin)
    <3>1. /\ r.nft = [p.nft EXCEPT !.targetAsset = None] /\ r.args = None
          /\ r.job = [p.job EXCEPT !.fetch = Sought(chain, origin)] /\ r.ran = p.ran
          /\ r = [nft |-> r.nft, args |-> r.args, job |-> r.job, ran |-> r.ran]
      BY <1>7 DEF PageTyped
    <3>2. r.nft \in Store /\ r.nft.targetAsset = None
      BY <1>1, <3>1 DEF Store
    <3>3. r.job \in Jobs /\ r.job.fetch = Sought(chain, origin)
          /\ r.job.sync = p.job.sync /\ r.job.check = p.job.check
      BY <2>1, <3>1 DEF Jobs, PageTyped
    <3>4. Touched(p, r)
      BY <1>1, <3>1, <3>2 DEF Touched, Store
    <3> QED
      BY <3>1, <3>2, <3>3, <3>4 DEF PageTyped, ArgsSet
  <2> QED
    BY <1>1, <1>7, <2>2, <2>3 DEF FetchRan
<1>8. \/ r = p
      \/ r = [p EXCEPT !.args = None]
      \/ chain = "ethereum" /\ r = [p EXCEPT !.nft.targetAsset = home, !.args = Args(seen.nft)]
      \/ origin # None /\ r = [p EXCEPT !.args = None, !.nft.targetAsset = None, !.job.fetch = Sought(chain, origin)]
  BY DEF useFetchTargetAsset
<1> QED
  BY <1>4, <1>5, <1>6, <1>7, <1>8

\* Flushing keeps the selection, and what it puts into the store without a lookup is
\* for the target chain.
LEMMA FlushedPage ==
    ASSUME NEW p, PageTyped(p), NEW seen, PageTyped(seen), NEW w, WalletsTyped(w),
           seen.nft.sourceChain = p.nft.sourceChain, seen.ran = p.ran, JobsRan(p),
           NEW r, r = Flushed(p, seen, w)
    PROVE  /\ PageTyped(r) /\ JobsRan(r)
           /\ Touched([p EXCEPT !.ran = Dependencies(seen, w)], r)
<1> DEFINE due == Due(seen, w)
           d == Dependencies(seen, w)
           Kept(e) == IF e \in due THEN None ELSE p.job[e]
           kept == [sync |-> Kept("sync"), check |-> Kept("check"), fetch |-> Kept("fetch")]
           clean == [p EXCEPT !.ran = d, !.job = kept]
           sync == IF "sync" \in due THEN useSyncTargetAddress(clean, seen, w) ELSE clean
           check == IF "check" \in due THEN useCheckIfWormholeWrapped(sync, seen, w) ELSE sync
           fetch == IF "fetch" \in due THEN useFetchTargetAsset(check, seen, w) ELSE check
<1>1. r = fetch
  BY DEF Flushed
<1>2. d.sync = SyncDependencies(seen, w) /\ d.check = CheckDependencies(seen, w) /\ d.fetch = FetchDependencies(seen, w)
  BY DEF Dependencies
<1>3. /\ "sync" \notin due => p.ran.sync = d.sync
      /\ "check" \notin due => p.ran.check = d.check
      /\ "fetch" \notin due => p.ran.fetch = d.fetch
  BY <1>2, NotDue
<1> HIDE DEF due, d
<1>4. kept \in Jobs /\ PageTyped(clean) /\ clean.nft = p.nft /\ clean.ran = d /\ clean.job = kept
  BY DEF PageTyped, Jobs
<1>5. /\ "sync" \in due => clean.job.sync = None
      /\ "check" \in due => clean.job.check = None
      /\ "fetch" \in due => clean.job.fetch = None
      /\ "sync" \notin due => clean.job.sync = p.job.sync
      /\ "check" \notin due => clean.job.check = p.job.check
      /\ "fetch" \notin due => clean.job.fetch = p.job.fetch
  BY <1>4
<1>6. JobsRan(clean)
  BY <1>3, <1>4, <1>5, NothingRan DEF JobsRan
<1> HIDE DEF clean
<1>7. /\ PageTyped(sync) /\ Touched(clean, sync)
      /\ sync.job.check = clean.job.check /\ sync.job.fetch = clean.job.fetch
      /\ \/ sync.job.sync = clean.job.sync
         \/ SyncRan(sync.job.sync, d.sync)
  <2>1. CASE "sync" \in due
    <3>1. sync = useSyncTargetAddress(clean, seen, w)
      BY <2>1
    <3> HIDE DEF sync, kept
    <3> QED
      BY <1>2, <1>4, <3>1, SyncEffect
  <2>2. CASE "sync" \notin due
    BY <1>4, <2>2 DEF Touched
  <2> QED
    BY <2>1, <2>2
<1> HIDE DEF sync
<1>8. /\ PageTyped(check) /\ check.nft = sync.nft /\ check.ran = sync.ran
      /\ check.job.sync = sync.job.sync /\ check.job.fetch = sync.job.fetch
      /\ \/ check.job.check = sync.job.check
         \/ CheckRan(check.job.check, d.check)
  <2>1. CASE "check" \in due
    <3>1. check = useCheckIfWormholeWrapped(sync, seen, w)
      BY <2>1
    <3> HIDE DEF check
    <3> QED
      <4>1. PageTyped(sync)
        BY <1>7
      <4>2. /\ PageTyped(check) /\ OnlyCheck(sync, check)
            /\ \/ check.job.check = sync.job.check
               \/ CheckRan(check.job.check, CheckDependencies(seen, w))
        BY <3>1, <4>1, CheckEffect
      <4> QED
        BY <1>2, <4>2 DEF OnlyCheck
  <2>2. CASE "check" \notin due
    BY <1>7, <2>2
  <2> QED
    BY <2>1, <2>2
<1> HIDE DEF check
<1>9. check.nft.sourceChain = seen.nft.sourceChain
  BY <1>4, <1>7, <1>8 DEF Touched
<1>10. /\ PageTyped(fetch) /\ Touched(check, fetch)
       /\ fetch.job.sync = check.job.sync /\ fetch.job.check = check.job.check
       /\ \/ fetch.job.fetch = check.job.fetch
          \/ FetchRan(fetch.job.fetch, d.fetch)
  <2>1. CASE "fetch" \in due
    <3>1. fetch = useFetchTargetAsset(check, seen, w)
      BY <2>1
    <3> HIDE DEF fetch
    <3> QED
      BY <1>2, <1>8, <1>9, <3>1, FetchEffect
  <2>2. CASE "fetch" \notin due
    BY <1>8, <2>2 DEF Touched
  <2> QED
    BY <2>1, <2>2
<1> HIDE DEF fetch
<1>11. fetch.ran = d
  BY <1>4, <1>7, <1>8, <1>10 DEF Touched
<1>12. JobsRan(fetch)
  BY <1>4, <1>6, <1>7, <1>8, <1>10, <1>11 DEF JobsRan
<1>13. Touched([p EXCEPT !.ran = d], fetch)
  <2>1. [p EXCEPT !.ran = d].nft = p.nft /\ [p EXCEPT !.ran = d].ran = d
    BY DEF PageTyped
  <2> QED
    BY <2>1, <1>4, <1>7, <1>8, <1>10, <1>11 DEF Touched, Target
<1> QED
  BY <1>1, <1>10, <1>12, <1>13 DEF d

----------------------------------------------------------------------------

OriginOf(nft) == [domain |-> nft.selected, wrapped |-> nft.sourceChain = "solana"]

\* The address is that of an account of the user for the selected domain, or for
\* Ethereum.
AddressFits(nft) ==
    nft.targetAddress # None =>
        \E owner \in Accounts[Target(nft)] :
            nft.targetAddress =
                IF Target(nft) = "ethereum" THEN [owner |-> owner, chain |-> "ethereum"]
                ELSE [owner |-> owner, chain |-> "solana", domain |-> nft.selected]

\* What the store holds belongs to the selection.
Fits(nft) ==
    /\ nft.origin \in {None, OriginOf(nft)}
    /\ nft.targetAsset \in {None, AssetOf(nft)}
    /\ AddressFits(nft)

\* The inductive invariant.
HooksInv ==
    /\ PageTyped(page)
    /\ WalletsTyped(wallet)
    /\ picking \subseteq Domains
    /\ raced \in BOOLEAN /\ excused \in BOOLEAN
    /\ JobsRan(page)
    /\ ~raced => Fits(page.nft)

LEMMA TouchedFits ==
    ASSUME NEW p, NEW r, Touched(p, r), Fits(p.nft)
    PROVE  Fits(r.nft)
<1>1. Target(r.nft) = Target(p.nft) /\ OriginOf(r.nft) = OriginOf(p.nft) /\ AssetOf(r.nft) = AssetOf(p.nft)
  BY DEF Touched, Target, OriginOf, AssetOf
<1>2. r.nft.origin \in {None, OriginOf(r.nft)}
  BY <1>1 DEF Touched, Fits
<1>3. r.nft.targetAsset \in {None, AssetOf(r.nft)}
  <2>1. Target(p.nft) = "ethereum" => AssetOf(p.nft) = [chain |-> "ethereum"]
    BY DEF AssetOf
  <2> QED
    BY <1>1, <2>1 DEF Touched, Fits
<1>4. AddressFits(r.nft)
  <2>1. CASE r.nft.targetAddress \in {p.nft.targetAddress, None}
    BY <1>1, <2>1 DEF Touched, Fits, AddressFits
  <2>2. CASE Target(p.nft) = "ethereum" /\ EthAddress(r.nft.targetAddress)
    <3>1. PICK owner \in EthAccounts : r.nft.targetAddress = [owner |-> owner, chain |-> "ethereum"]
      BY <2>2 DEF EthAddress
    <3>2. Accounts["ethereum"] = EthAccounts
      BY DEF Accounts
    <3> QED
      BY <1>1, <2>2, <3>1, <3>2 DEF AddressFits
  <2> QED
    BY <2>1, <2>2 DEF Touched
<1> QED
  BY <1>2, <1>3, <1>4 DEF Fits

\* A dispatch from elsewhere: it is enough to look at the store that it leaves.
LEMMA FlushedInv ==
    ASSUME NEW p, PageTyped(p), JobsRan(p), NEW seen, PageTyped(seen), NEW w, WalletsTyped(w),
           seen.nft.sourceChain = p.nft.sourceChain, seen.ran = p.ran,
           NEW r, r = Flushed(p, seen, w)
    PROVE  /\ PageTyped(r) /\ JobsRan(r)
           /\ r.nft.sourceChain = p.nft.sourceChain
           /\ r.ran = Dependencies(seen, w)
           /\ Fits(p.nft) => Fits(r.nft)
<1> DEFINE q == [p EXCEPT !.ran = Dependencies(seen, w)]
<1>1. PageTyped(r) /\ JobsRan(r) /\ Touched(q, r)
  BY FlushedPage
<1>2. q.nft = p.nft /\ q.ran = Dependencies(seen, w)
  BY DEF PageTyped
<1> HIDE DEF q
<1>3. Fits(p.nft) => Fits(r.nft)
  BY <1>1, <1>2, TouchedFits
<1> QED
  BY <1>1, <1>2, <1>3 DEF Touched

LEMMA StartFits ==
    ASSUME NEW chain \in Chains, NEW nft, nft = initialState(chain)
    PROVE  nft \in Store /\ Fits(nft)
BY DEF initialState, Store, Fits, AddressFits

LEMMA SelectionFits ==
    ASSUME PageTyped(page), NEW d \in Domains, NEW nft, nft = setSourceParsedTokenAccount(d)
    PROVE  nft \in Store /\ Fits(nft) /\ nft.sourceChain = page.nft.sourceChain
<1>1. page.nft \in Store
  BY DEF PageTyped
<1> QED
  BY <1>1 DEF setSourceParsedTokenAccount, Store, Fits, AddressFits

\* A store that a dispatch leaves, in the same page.
LEMMA StoredTyped ==
    ASSUME NEW p, PageTyped(p), NEW nft \in Store, NEW r, r = [p EXCEPT !.nft = nft]
    PROVE  PageTyped(r) /\ r.nft = nft /\ r.job = p.job /\ r.ran = p.ran /\ (JobsRan(p) => JobsRan(r))
BY DEF PageTyped, JobsRan

\* A job that has ended.
LEMMA DoneTyped ==
    ASSUME PageTyped(page), JobsRan(page), NEW e \in Effects
    PROVE  PageTyped(Done(e)) /\ JobsRan(Done(e)) /\ Done(e).nft = page.nft /\ Done(e).ran = page.ran
<1>1. page.job \in Jobs
  BY DEF PageTyped
<1>2. [page.job EXCEPT ![e] = None] \in Jobs
  BY <1>1 DEF Jobs, Effects
<1>3. Done(e) = [page EXCEPT !.job = [page.job EXCEPT ![e] = None]]
  BY DEF Done
<1> DEFINE j == [page.job EXCEPT ![e] = None]
<1>4. /\ j.sync \in {page.job.sync, None}
      /\ j.check \in {page.job.check, None}
      /\ j.fetch \in {page.job.fetch, None}
  BY <1>1 DEF Jobs, Effects
<1> HIDE DEF j
<1>5. Done(e).job = j /\ PageTyped(Done(e)) /\ Done(e).nft = page.nft /\ Done(e).ran = page.ran
  BY <1>2, <1>3 DEF PageTyped, j
<1> QED
  BY <1>4, <1>5, NothingRan DEF JobsRan

----------------------------------------------------------------------------
(* One lemma per action *)

LEMMA UserSetsInv ==
    ASSUME HooksInv, NEW nft \in Store, UserSets(nft), Fits(page.nft) => Fits(nft),
           picking' \subseteq Domains, excused' \in BOOLEAN
    PROVE  HooksInv'
<1>1. page' = [page EXCEPT !.nft = nft] /\ wallet' = wallet /\ raced' = raced
  BY DEF UserSets
<1>2. PageTyped(page') /\ JobsRan(page') /\ page'.nft = nft
  BY <1>1, StoredTyped DEF HooksInv
<1> QED
  BY <1>1, <1>2 DEF HooksInv

LEMMA ArrivesInv ==
    ASSUME HooksInv, NEW p, PageTyped(p), JobsRan(p), p.nft.sourceChain = page.nft.sourceChain,
           p.ran = page.ran, Arrives(p), ~raced' => Fits(p.nft), WalletsTyped(wallet'),
           picking' \subseteq Domains, excused' \in BOOLEAN, raced' \in BOOLEAN
    PROVE  HooksInv'
<1>1. page' = Flushed(p, page, wallet)
  BY DEF Arrives
<1>2. PageTyped(page') /\ JobsRan(page') /\ (Fits(p.nft) => Fits(page'.nft))
  BY <1>1, FlushedInv DEF HooksInv
<1> QED
  BY <1>2 DEF HooksInv

LEMMA FlushInv ==
    ASSUME HooksInv, Flush PROVE HooksInv'
<1>1. Arrives(page) /\ UNCHANGED <<wallet, picking, raced, excused>>
  BY DEF Flush, Arrives
<1> QED
  BY <1>1, ArrivesInv DEF HooksInv

LEMMA ChooseSourceChainInv ==
    ASSUME HooksInv, NEW chain \in Chains, ChooseSourceChain(chain) PROVE HooksInv'
<1>1. UserSets(setSourceChain(chain)) /\ picking' = picking /\ excused' = FALSE
  BY DEF ChooseSourceChain
<1>2. setSourceChain(chain) \in Store /\ Fits(setSourceChain(chain))
  BY StartFits DEF setSourceChain
<1> QED
  BY <1>1, <1>2, UserSetsInv DEF HooksInv

LEMMA PickInv ==
    ASSUME HooksInv, NEW d \in Domains, Pick(d) PROVE HooksInv'
<1>1. CASE page.nft.sourceChain = "ethereum"
  <2>1. picking' = picking \cup {d} /\ UNCHANGED <<page, wallet, raced, excused>>
    BY <1>1 DEF Pick
  <2> QED
    BY <2>1 DEF HooksInv
<1>2. CASE page.nft.sourceChain # "ethereum"
  <2>1. UserSets(setSourceParsedTokenAccount(d)) /\ picking' = picking
        /\ excused' = (d = page.nft.selected)
    BY <1>2 DEF Pick
  <2>2. setSourceParsedTokenAccount(d) \in Store /\ Fits(setSourceParsedTokenAccount(d))
    BY SelectionFits DEF HooksInv
  <2>3. excused' \in BOOLEAN /\ picking' \subseteq Domains
    BY <2>1 DEF HooksInv
  <2> QED
    BY <2>1, <2>2, <2>3, UserSetsInv
<1> QED
  BY <1>1, <1>2

LEMMA PickedInv ==
    ASSUME HooksInv, NEW d \in Domains, Picked(d) PROVE HooksInv'
<1> DEFINE nft == setSourceParsedTokenAccount(d)
           p == [page EXCEPT !.nft = nft]
<1>1. Arrives(p) /\ picking' = picking \ {d} /\ wallet' = wallet /\ raced' = raced
      /\ excused' = (d = page.nft.selected \/ page.nft.activeStep # 0)
  BY DEF Picked
<1>2. nft \in Store /\ Fits(nft) /\ nft.sourceChain = page.nft.sourceChain
  BY SelectionFits DEF HooksInv
<1> HIDE DEF nft
<1>3. PageTyped(p) /\ p.nft = nft /\ p.ran = page.ran /\ JobsRan(p)
  BY <1>2, StoredTyped DEF HooksInv
<1>4. excused' \in BOOLEAN /\ picking' \subseteq Domains /\ raced' \in BOOLEAN /\ WalletsTyped(wallet')
  BY <1>1 DEF HooksInv
<1> HIDE DEF p
<1> QED
  BY <1>1, <1>2, <1>3, <1>4, ArrivesInv

LEMMA PickFailsInv ==
    ASSUME HooksInv, NEW d \in Domains, PickFails(d) PROVE HooksInv'
BY DEF PickFails, HooksInv

LEMMA StepInv ==
    ASSUME HooksInv, NEW step \in 0..2, UserSets([page.nft EXCEPT !.activeStep = step]),
           UNCHANGED <<picking, excused>>
    PROVE  HooksInv'
<1> DEFINE nft == [page.nft EXCEPT !.activeStep = step]
<1>1. page.nft \in Store
  BY DEF HooksInv, PageTyped
<1>2. /\ nft \in Store
      /\ nft.sourceChain = page.nft.sourceChain /\ nft.selected = page.nft.selected
      /\ nft.origin = page.nft.origin /\ nft.targetAsset = page.nft.targetAsset
      /\ nft.targetAddress = page.nft.targetAddress
  BY <1>1 DEF Store
<1> HIDE DEF nft
<1>3. Target(nft) = Target(page.nft)
  BY <1>2 DEF Target
<1>4. OriginOf(nft) = OriginOf(page.nft) /\ AssetOf(nft) = AssetOf(page.nft)
  BY <1>2, <1>3 DEF OriginOf, AssetOf
<1>5. AddressFits(page.nft) => AddressFits(nft)
  BY <1>2, <1>3 DEF AddressFits
<1>6. Fits(page.nft) => Fits(nft)
  BY <1>2, <1>4, <1>5 DEF Fits
<1>7. UserSets(nft)
  BY DEF nft
<1> QED
  BY <1>2, <1>6, <1>7, UserSetsInv DEF HooksInv

LEMMA ClickNextInv ==
    ASSUME HooksInv, ClickNext PROVE HooksInv'
<1>1. page.nft.activeStep \in 0..2 /\ page.nft.activeStep < 2
  BY DEF HooksInv, PageTyped, Store, ClickNext
<1>2. [page.nft EXCEPT !.activeStep = @ + 1] = [page.nft EXCEPT !.activeStep = page.nft.activeStep + 1]
  OBVIOUS
<1>3. page.nft.activeStep + 1 \in 0..2
  BY <1>1
<1> QED
  BY <1>2, <1>3, StepInv DEF ClickNext

LEMMA ClickStepInv ==
    ASSUME HooksInv, NEW step \in 0..1, ClickStep(step) PROVE HooksInv'
BY StepInv DEF ClickStep

LEMMA WalletChangesInv ==
    ASSUME HooksInv, NEW chain \in Chains, NEW account \in Accounts[chain] \cup {None},
           WalletChanges(chain, account)
    PROVE  HooksInv'
<1>1. wallet' = [wallet EXCEPT ![chain] = account] /\ Arrives(page)
      /\ UNCHANGED <<picking, raced, excused>>
  BY DEF WalletChanges
<1>2. Accounts["ethereum"] = EthAccounts /\ Accounts["solana"] = SolAccounts
  BY DEF Accounts
<1>3. WalletsTyped(wallet')
  <2>1. CASE chain = "ethereum"
    BY <1>1, <1>2, <2>1 DEF WalletsTyped, HooksInv, Chains
  <2>2. CASE chain = "solana"
    BY <1>1, <1>2, <2>2 DEF WalletsTyped, HooksInv, Chains
  <2> QED
    BY <2>1, <2>2 DEF Chains
<1> QED
  BY <1>1, <1>3, ArrivesInv DEF HooksInv

LEMMA OriginFoundInv ==
    ASSUME HooksInv, OriginFound PROVE HooksInv'
<1> DEFINE nft == [page.nft EXCEPT !.origin = page.job.check]
           p == [Done("check") EXCEPT !.nft = nft]
<1>1. /\ page.job.check # None /\ raced' = (raced \/ "check" \in Due(page, wallet))
      /\ wallet' = wallet /\ picking' = picking /\ excused' = excused
  BY DEF OriginFound, Late
<1>2. PageTyped(Done("check")) /\ JobsRan(Done("check")) /\ Done("check").nft = page.nft
      /\ Done("check").ran = page.ran
  BY DoneTyped DEF HooksInv, Effects
<1>3. Arrives(p)
  BY <1>2 DEF OriginFound
<1>4. page.nft \in Store /\ page.job.check \in Origins
  BY <1>1 DEF HooksInv, PageTyped, Jobs
<1>5. nft \in Store /\ nft.sourceChain = page.nft.sourceChain /\ nft.selected = page.nft.selected
      /\ nft.targetAsset = page.nft.targetAsset /\ nft.targetAddress = page.nft.targetAddress
      /\ nft.origin = page.job.check
  BY <1>4 DEF Store
<1>6. ASSUME ~raced' PROVE Fits(nft)
  <2>1. page.ran.check = CheckDependencies(page, wallet)
    BY <1>1, <1>6, NotDue
  <2>2. PICK x : \E chain \in Chains, d \in Domains :
            page.ran.check = <<chain, d, x>> /\ page.job.check = [domain |-> d, wrapped |-> chain = "solana"]
    BY <1>1 DEF HooksInv, JobsRan, CheckRan
  <2>3. PICK chain \in Chains, d \in Domains :
            page.ran.check = <<chain, d, x>> /\ page.job.check = [domain |-> d, wrapped |-> chain = "solana"]
    BY <2>2
  <2>4. chain = page.nft.sourceChain /\ d = page.nft.selected
    BY <2>1, <2>3 DEF CheckDependencies
  <2> HIDE DEF nft
  <2>5. nft.origin = OriginOf(nft)
    BY <1>5, <2>3, <2>4 DEF OriginOf
  <2>6. Fits(page.nft)
    BY <1>1, <1>6 DEF HooksInv
  <2>7. Target(nft) = Target(page.nft)
    BY <1>5 DEF Target
  <2> QED
    BY <1>5, <2>5, <2>6, <2>7 DEF Fits, AddressFits, AssetOf
<1> HIDE DEF nft
<1>7. PageTyped(p) /\ JobsRan(p) /\ p.nft = nft /\ p.ran = page.ran
  BY <1>2, <1>5, StoredTyped
<1>8. raced' \in BOOLEAN
  BY <1>1 DEF HooksInv
<1> HIDE DEF p
<1> QED
  BY <1>1, <1>3, <1>5, <1>6, <1>7, <1>8, ArrivesInv DEF HooksInv

LEMMA AssetFoundInv ==
    ASSUME HooksInv, AssetFound PROVE HooksInv'
<1> DEFINE nft == [page.nft EXCEPT !.targetAsset = page.job.fetch]
           p == [Done("fetch") EXCEPT !.nft = nft]
           first == Flushed(p, page, wallet)
           args == <<page.ran.fetch[1], page.ran.fetch[2]>>
           second == [first EXCEPT !.args = args]
<1>1. /\ page.job.fetch # None /\ raced' = (raced \/ "fetch" \in Due(page, wallet))
      /\ wallet' = wallet /\ picking' = picking /\ excused' = excused
  BY DEF AssetFound, Late
<1>2. PageTyped(Done("fetch")) /\ JobsRan(Done("fetch")) /\ Done("fetch").nft = page.nft
      /\ Done("fetch").ran = page.ran
  BY DoneTyped DEF HooksInv, Effects
<1>3. page' = Flushed(second, first, wallet)
  BY <1>2 DEF AssetFound
<1>4. page.nft \in Store /\ page.job.fetch \in Assets
  BY <1>1 DEF HooksInv, PageTyped, Jobs
<1>5. nft \in Store /\ nft.sourceChain = page.nft.sourceChain /\ nft.selected = page.nft.selected
      /\ nft.origin = page.nft.origin /\ nft.targetAddress = page.nft.targetAddress
      /\ nft.targetAsset = page.job.fetch
  BY <1>4 DEF Store
<1>6. PICK x, y : \E origin \in Origins, chain \in Chains :
          origin # None /\ page.ran.fetch = <<origin, chain, x, y>> /\ page.job.fetch = Sought(chain, origin)
  BY <1>1 DEF HooksInv, JobsRan, FetchRan
<1>7. PICK origin \in Origins, chain \in Chains :
          origin # None /\ page.ran.fetch = <<origin, chain, x, y>> /\ page.job.fetch = Sought(chain, origin)
  BY <1>6
<1>8. args \in ArgsSet
  BY <1>7 DEF ArgsSet
<1> HIDE DEF nft, args
<1>9. ASSUME ~raced' PROVE Fits(nft)
  <2>1. page.ran.fetch = FetchDependencies(page, wallet)
    BY <1>1, <1>9, NotDue
  <2>2. origin = page.nft.origin /\ chain = Target(page.nft)
    BY <1>7, <2>1 DEF FetchDependencies
  <2>3. Fits(page.nft)
    BY <1>1, <1>9 DEF HooksInv
  <2>4. Target(nft) = Target(page.nft) /\ OriginOf(nft) = OriginOf(page.nft)
    BY <1>5 DEF Target, OriginOf
  <2>5. CASE page.nft.origin = None
    BY <1>7, <2>2, <2>5
  <2>6. CASE page.nft.origin = OriginOf(page.nft)
    <3>1. origin.domain = page.nft.selected
      BY <2>2, <2>6 DEF OriginOf
    <3>2. page.job.fetch = AssetOf(nft)
      BY <1>5, <1>7, <2>2, <2>4, <3>1, Targets DEF Sought, AssetOf, Chains
    <3> QED
      BY <1>5, <2>3, <2>4, <3>2 DEF Fits, AddressFits
  <2> QED
    BY <2>3, <2>5, <2>6 DEF Fits
<1>10. PageTyped(p) /\ JobsRan(p) /\ p.nft = nft /\ p.ran = page.ran
  BY <1>2, <1>5, StoredTyped
<1> HIDE DEF p
<1>11. PageTyped(first) /\ JobsRan(first) /\ (Fits(nft) => Fits(first.nft))
  BY <1>5, <1>10, FlushedInv DEF HooksInv
<1> HIDE DEF first
<1>12. PageTyped(second) /\ JobsRan(second) /\ second.nft = first.nft /\ second.ran = first.ran
  BY <1>8, <1>11 DEF PageTyped, JobsRan
<1> HIDE DEF second
<1>13. PageTyped(page') /\ JobsRan(page') /\ (Fits(second.nft) => Fits(page'.nft))
  BY <1>3, <1>11, <1>12, FlushedInv DEF HooksInv
<1>14. raced' \in BOOLEAN
  BY <1>1 DEF HooksInv
<1> QED
  BY <1>1, <1>9, <1>11, <1>12, <1>13, <1>14 DEF HooksInv

LEMMA AddressFoundInv ==
    ASSUME HooksInv, AddressFound PROVE HooksInv'
<1> DEFINE asset == page.job.sync.asset
           owner == page.job.sync.owner
           nft == [page.nft EXCEPT !.targetAddress = TokenAccount(asset, owner)]
           p == [Done("sync") EXCEPT !.nft = nft]
<1>1. /\ page.job.sync # None /\ raced' = (raced \/ "sync" \in Due(page, wallet))
      /\ wallet' = wallet /\ picking' = picking /\ excused' = excused
  BY DEF AddressFound, Late
<1>2. PageTyped(Done("sync")) /\ JobsRan(Done("sync")) /\ Done("sync").nft = page.nft
      /\ Done("sync").ran = page.ran
  BY DoneTyped DEF HooksInv, Effects
<1>3. Arrives(p)
  BY <1>2 DEF AddressFound
<1>4. page.nft \in Store /\ asset \in Assets /\ owner \in SolAccounts
  BY <1>1 DEF HooksInv, PageTyped, Jobs
<1>5. TokenAccount(asset, owner) \in Addresses \cup {None}
  BY <1>4 DEF TokenAccount, Assets, Addresses
<1>6. nft \in Store /\ nft.sourceChain = page.nft.sourceChain /\ nft.selected = page.nft.selected
      /\ nft.targetAsset = page.nft.targetAsset /\ nft.targetAddress = TokenAccount(asset, owner)
      /\ nft.origin = page.nft.origin
  BY <1>4, <1>5 DEF Store
<1> HIDE DEF nft
<1>7. ASSUME ~raced' PROVE Fits(nft)
  <2>1. page.ran.sync = SyncDependencies(page, wallet)
    BY <1>1, <1>7, NotDue
  <2>2. asset # None
    BY <1>1 DEF HooksInv, JobsRan, SyncRan
  <2>3. PICK x : page.ran.sync = <<"solana", x, owner, asset>>
    BY <1>1 DEF HooksInv, JobsRan, SyncRan
  <2>4. page.nft.activeStep = 1
    BY <2>1, <2>3 DEF SyncDependencies
  <2>5. Target(page.nft) = "solana" /\ asset = page.nft.targetAsset
    BY <2>1, <2>3, <2>4 DEF SyncDependencies
  <2>6. Fits(page.nft)
    BY <1>1, <1>7 DEF HooksInv
  <2>7. Target(nft) = "solana"
    BY <1>6, <2>5 DEF Target
  <2>8. asset = [chain |-> "solana", domain |-> page.nft.selected]
    BY <2>2, <2>5, <2>6 DEF Fits, AssetOf
  <2>9. nft.targetAddress = [owner |-> owner, chain |-> "solana", domain |-> nft.selected]
    BY <1>6, <2>8 DEF TokenAccount
  <2>10. owner \in Accounts["solana"]
    BY <1>4 DEF Accounts
  <2>11. AddressFits(nft)
    BY <2>7, <2>9, <2>10 DEF AddressFits
  <2>12. OriginOf(nft) = OriginOf(page.nft) /\ AssetOf(nft) = AssetOf(page.nft)
    BY <1>6, <2>5, <2>7 DEF OriginOf, AssetOf
  <2> QED
    BY <1>6, <2>6, <2>11, <2>12 DEF Fits
<1>8. PageTyped(p) /\ JobsRan(p) /\ p.nft = nft /\ p.ran = page.ran
  BY <1>2, <1>6, StoredTyped
<1>9. raced' \in BOOLEAN
  BY <1>1 DEF HooksInv
<1> HIDE DEF p
<1> QED
  BY <1>1, <1>3, <1>6, <1>7, <1>8, <1>9, ArrivesInv DEF HooksInv

LEMMA LookupFailsInv ==
    ASSUME HooksInv, NEW e \in {"check", "fetch"}, LookupFails(e) PROVE HooksInv'
<1> DEFINE nft == [page.nft EXCEPT !.targetAsset = None]
           p == [Done(e) EXCEPT !.nft = nft]
<1>1. UNCHANGED <<wallet, picking, raced>> /\ excused' = TRUE
  BY DEF LookupFails
<1>2. PageTyped(Done(e)) /\ JobsRan(Done(e)) /\ Done(e).nft = page.nft /\ Done(e).ran = page.ran
  BY DoneTyped DEF HooksInv, Effects
<1>3. CASE e = "fetch"
  <2>1. Arrives(p)
    BY <1>2, <1>3 DEF LookupFails
  <2>2. page.nft \in Store
    BY DEF HooksInv, PageTyped
  <2>3. nft \in Store /\ nft.sourceChain = page.nft.sourceChain /\ nft.selected = page.nft.selected
        /\ nft.targetAsset = None /\ nft.targetAddress = page.nft.targetAddress
        /\ nft.origin = page.nft.origin
    BY <2>2 DEF Store
  <2> HIDE DEF nft
  <2>4. Target(nft) = Target(page.nft) /\ OriginOf(nft) = OriginOf(page.nft)
    BY <2>3 DEF Target, OriginOf
  <2>5. Fits(page.nft) => Fits(nft)
    BY <2>3, <2>4 DEF Fits, AddressFits
  <2>6. PageTyped(p) /\ JobsRan(p) /\ p.nft = nft /\ p.ran = page.ran
    BY <1>2, <2>3, StoredTyped
  <2> HIDE DEF p
  <2> QED
    BY <1>1, <2>1, <2>3, <2>5, <2>6, ArrivesInv DEF HooksInv
<1>4. CASE e = "check"
  <2>1. Arrives(Done("check"))
    BY <1>4 DEF LookupFails
  <2> QED
    BY <1>1, <1>2, <1>4, <2>1, ArrivesInv DEF HooksInv
<1> QED
  BY <1>3, <1>4

----------------------------------------------------------------------------

\* The invariant holds in every behaviour.
THEOREM HooksCorrect == Spec => []HooksInv
<1>1. Init => HooksInv
  <2> SUFFICES ASSUME Init PROVE HooksInv
    OBVIOUS
  <2> DEFINE nothing == [sync |-> None, check |-> None, fetch |-> None]
  <2>1. PICK chain \in Chains :
            page = [nft |-> initialState(chain), args |-> None, job |-> nothing, ran |-> nothing]
    BY DEF Init
  <2>2. initialState(chain) \in Store /\ Fits(initialState(chain))
    BY StartFits
  <2>3. PageTyped(page)
    BY <2>1, <2>2 DEF PageTyped, ArgsSet, Jobs
  <2>4. JobsRan(page)
    BY <2>1, NothingRan DEF JobsRan
  <2>5. WalletsTyped(wallet)
    BY DEF Init, WalletsTyped, Chains
  <2> QED
    BY <2>1, <2>2, <2>3, <2>4, <2>5 DEF Init, HooksInv
<1>2. HooksInv /\ [Next]_vars => HooksInv'
  <2> SUFFICES ASSUME HooksInv, [Next]_vars PROVE HooksInv'
    OBVIOUS
  <2>1. CASE Flush
    BY <2>1, FlushInv
  <2>2. CASE \E chain \in Chains : ChooseSourceChain(chain)
    BY <2>2, ChooseSourceChainInv
  <2>3. CASE \E d \in Domains : Pick(d) \/ Picked(d) \/ PickFails(d)
    BY <2>3, PickInv, PickedInv, PickFailsInv
  <2>4. CASE ClickNext \/ \E step \in 0..1 : ClickStep(step)
    BY <2>4, ClickNextInv, ClickStepInv
  <2>5. CASE \E chain \in Chains : \E account \in Accounts[chain] \cup {None} : WalletChanges(chain, account)
    BY <2>5, WalletChangesInv
  <2>6. CASE Answers
    BY <2>6, OriginFoundInv, AssetFoundInv, AddressFoundInv DEF Answers
  <2>7. CASE \E e \in {"check", "fetch"} : LookupFails(e)
    BY <2>7, LookupFailsInv
  <2>8. CASE UNCHANGED vars
    BY <2>8 DEF vars, HooksInv, PageTyped, JobsRan, Fits, AddressFits, AssetOf, OriginOf, Target, WalletsTyped
  <2> QED
    BY <2>1, <2>2, <2>3, <2>4, <2>5, <2>6, <2>7, <2>8 DEF Next
<1> QED
  BY <1>1, <1>2, PTL DEF Spec

\* The store, the jobs and the wallets stay well typed, whatever is answered late.
THEOREM TypeCorrect == Spec => []TypeOK
<1>1. HooksInv => TypeOK
  <2> SUFFICES ASSUME HooksInv PROVE TypeOK
    OBVIOUS
  <2>1. page.nft \in Store /\ page.args \in ArgsSet /\ page.job \in Jobs
    BY DEF HooksInv, PageTyped
  <2> QED
    BY <2>1, WalletTyped DEF TypeOK, HooksInv, ArgsSet
<1> QED
  BY <1>1, HooksCorrect, PTL

\* Whatever is picked, looked up and answered, the address that a transfer would be
\* sent to is the user's, for the selected domain, unless an answer came between a
\* render and its cleanup.
THEOREM RecipientFitsAlways == Spec => []RecipientFits
<1>1. HooksInv => RecipientFits
  BY DEF HooksInv, Fits, AddressFits, RecipientFits
<1> QED
  BY <1>1, HooksCorrect, PTL

=============================================================================
