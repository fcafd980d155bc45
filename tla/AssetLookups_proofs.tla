----------------------- MODULE AssetLookups_proofs -----------------------
(***************************************************************************)
(* Proofs about what the domain page has looked up once nothing is waited  *)
(* for, for any domains and any accounts in both wallets.                  *)
(***************************************************************************)
EXTENDS AssetHooks_proofs

----------------------------------------------------------------------------
(* What the effects leave, in full *)

\* The lookup of the origin that an effect starts, or None.
CheckStarts(seen, w) ==
    IF seen.nft.selected # None /\ (seen.nft.sourceChain = "ethereum" => w["ethereum"] # None)
      THEN [domain |-> seen.nft.selected, wrapped |-> seen.nft.sourceChain = "solana"]
      ELSE None

\* The account of the target wallet that an effect finds at once, or looks up.
SyncLeaves(p, seen, w, r) ==
    LET chain == Target(seen.nft) IN
    \/ /\ seen.nft.activeStep # 1
       /\ r.nft.targetAddress = p.nft.targetAddress /\ r.job.sync = p.job.sync
    \/ /\ chain = "ethereum" /\ w["ethereum"] # None
       /\ r.nft.targetAddress = [owner |-> w["ethereum"], chain |-> "ethereum"]
       /\ r.job.sync = p.job.sync
    \/ /\ chain = "solana" /\ w["solana"] # None /\ seen.nft.targetAsset # None
       /\ r.nft.targetAddress = p.nft.targetAddress
       /\ r.job.sync = [asset |-> seen.nft.targetAsset, owner |-> w["solana"]]
    \/ /\ chain = "ethereum" => w["ethereum"] = None
       /\ chain = "solana" => w["solana"] = None \/ seen.nft.targetAsset = None
       /\ r.nft.targetAddress = None /\ r.job.sync = p.job.sync

\* The asset that an effect keeps, knows or looks up, and the arguments it notes.
FetchLeaves(p, seen, w, r) ==
    LET chain == Target(seen.nft)
        origin == seen.nft.origin
    IN
    \/ /\ seen.args = Args(seen.nft)
       /\ r.args = p.args /\ r.nft.targetAsset = p.nft.targetAsset /\ r.job.fetch = p.job.fetch
    \/ /\ seen.args # Args(seen.nft)
       /\ origin = None \/ (chain = "ethereum" /\ ~origin.wrapped /\ w["ethereum"] = None)
       /\ r.args = None /\ r.nft.targetAsset = p.nft.targetAsset /\ r.job.fetch = p.job.fetch
    \/ /\ seen.args # Args(seen.nft)
       /\ origin # None /\ chain = "ethereum" /\ origin.wrapped
       /\ r.args = Args(seen.nft) /\ r.nft.targetAsset = [chain |-> "ethereum"]
       /\ r.job.fetch = p.job.fetch
    \/ /\ seen.args # Args(seen.nft)
       /\ origin # None
       /\ r.args = None /\ r.nft.targetAsset = None /\ r.job.fetch = Sought(chain, origin)

LEMMA SyncLeft ==
    ASSUME NEW p, PageTyped(p), NEW seen, PageTyped(seen), NEW w, WalletsTyped(w),
           NEW r, r = useSyncTargetAddress(p, seen, w)
    PROVE  SyncLeaves(p, seen, w, r) /\ r.nft.targetAsset = p.nft.targetAsset
<1>0. seen.nft \in Store /\ Target(seen.nft) \in Chains /\ p.nft \in Store
  BY Targets DEF PageTyped
<1>1. CASE seen.nft.activeStep # 1
  BY <1>1 DEF useSyncTargetAddress, SyncLeaves
<1>2. CASE seen.nft.activeStep = 1 /\ Target(seen.nft) = "ethereum" /\ w["ethereum"] # None
  <2> DEFINE a == [owner |-> w["ethereum"], chain |-> "ethereum"]
  <2>1. r = [p EXCEPT !.nft.targetAddress = a]
    BY <1>2 DEF useSyncTargetAddress
  <2> HIDE DEF a
  <2>2. r.nft.targetAddress = a /\ r.job = p.job /\ r.nft.targetAsset = p.nft.targetAsset
    BY <1>0, <2>1 DEF PageTyped, Store
  <2> QED
    BY <1>2, <2>2 DEF SyncLeaves, a
<1>3. CASE seen.nft.activeStep = 1 /\ Target(seen.nft) = "solana" /\ w["solana"] # None
           /\ seen.nft.targetAsset # None
  <2> DEFINE j == [asset |-> seen.nft.targetAsset, owner |-> w["solana"]]
  <2>1. r = [p EXCEPT !.job.sync = j]
    BY <1>3 DEF useSyncTargetAddress
  <2> HIDE DEF j
  <2>2. r.job.sync = j /\ r.nft = p.nft
    BY <2>1 DEF PageTyped, Jobs
  <2> QED
    BY <1>3, <2>2 DEF SyncLeaves, j
<1>4. CASE ~(seen.nft.activeStep # 1)
           /\ ~(Target(seen.nft) = "ethereum" /\ w["ethereum"] # None)
           /\ ~(Target(seen.nft) = "solana" /\ w["solana"] # None /\ seen.nft.targetAsset # None)
  <2>1. r = [p EXCEPT !.nft.targetAddress = None]
    BY <1>0, <1>4 DEF useSyncTargetAddress, Chains
  <2>2. r.nft.targetAddress = None /\ r.job = p.job /\ r.nft.targetAsset = p.nft.targetAsset
    BY <1>0, <2>1 DEF PageTyped, Store
  <2> QED
    BY <1>4, <2>2 DEF SyncLeaves
<1> QED
  BY <1>1, <1>2, <1>3, <1>4

LEMMA CheckLeft ==
    ASSUME NEW p, PageTyped(p), p.job.check = None, NEW seen, PageTyped(seen), NEW w, WalletsTyped(w),
           NEW r, r = useCheckIfWormholeWrapped(p, seen, w)
    PROVE  r.job.check = CheckStarts(seen, w)
<1> DEFINE wrapped == seen.nft.sourceChain = "solana"
           j == [domain |-> seen.nft.selected, wrapped |-> wrapped]
           starts == seen.nft.selected # None /\ (seen.nft.sourceChain = "ethereum" => w["ethereum"] # None)
<1>0. seen.nft.sourceChain \in Chains
  BY DEF PageTyped, Store
<1>1. starts <=> seen.nft.selected # None /\ (seen.nft.sourceChain = "ethereum" => w[seen.nft.sourceChain] # None)
  OBVIOUS
<1>2. CASE starts
  <2>1. r = [p EXCEPT !.job.check = j]
    BY <1>1, <1>2 DEF useCheckIfWormholeWrapped
  <2>2. CheckStarts(seen, w) = j
    BY <1>2 DEF CheckStarts
  <2> HIDE DEF j
  <2> QED
    BY <2>1, <2>2 DEF PageTyped, Jobs
<1>3. CASE ~starts
  <2>1. r = p
    BY <1>1, <1>3 DEF useCheckIfWormholeWrapped
  <2> QED
    BY <1>3, <2>1 DEF CheckStarts
<1> QED
  BY <1>2, <1>3

LEMMA FetchLeft ==
    ASSUME NEW p, PageTyped(p), NEW seen, PageTyped(seen), NEW w, WalletsTyped(w),
           NEW r, r = useFetchTargetAsset(p, seen, w)
    PROVE  FetchLeaves(p, seen, w, r) /\ r.nft.targetAddress = p.nft.targetAddress
<1> DEFINE chain == Target(seen.nft)
           origin == seen.nft.origin
           home == [chain |-> "ethereum"]
<1>1. p.nft \in Store /\ seen.nft \in Store /\ chain \in Chains /\ p.job \in Jobs
  BY Targets DEF PageTyped
<1>2. CASE seen.args = Args(seen.nft)
  <2>1. r = p
    BY <1>2 DEF useFetchTargetAsset
  <2> QED
    BY <1>2, <2>1 DEF FetchLeaves
<1>3. CASE seen.args # Args(seen.nft)
           /\ (origin = None \/ (chain = "ethereum" /\ ~origin.wrapped /\ w["ethereum"] = None))
  <2>1. r = [p EXCEPT !.args = None]
    BY <1>3 DEF useFetchTargetAsset
  <2>2. r.args = None /\ r.nft = p.nft /\ r.job = p.job
    BY <2>1 DEF PageTyped
  <2> QED
    BY <1>3, <2>2 DEF FetchLeaves
<1>4. CASE seen.args # Args(seen.nft) /\ origin # None /\ chain = "ethereum" /\ origin.wrapped
  <2>1. r = [p EXCEPT !.nft.targetAsset = home, !.args = Args(seen.nft)]
    BY <1>4 DEF useFetchTargetAsset
  <2> HIDE DEF home
  <2>2. r.nft.targetAsset = home /\ r.args = Args(seen.nft) /\ r.job = p.job
        /\ r.nft.targetAddress = p.nft.targetAddress
    BY <1>1, <2>1 DEF PageTyped, Store
  <2> QED
    BY <1>4, <2>2 DEF FetchLeaves, home
<1>5. CASE seen.args # Args(seen.nft) /\ origin # None
           /\ ~(chain = "ethereum" /\ origin.wrapped)
           /\ ~(chain = "ethereum" /\ ~origin.wrapped /\ w["ethereum"] = None)
  <2>1. r = [p EXCEPT !.args = None, !.nft.targetAsset = None, !.job.fetch = Sought(chain, origin)]
    BY <1>5 DEF useFetchTargetAsset
  <2>2. r.nft.targetAsset = None /\ r.args = None /\ r.job.fetch = Sought(chain, origin)
        /\ r.nft.targetAddress = p.nft.targetAddress
    BY <1>1, <2>1 DEF PageTyped, Store, Jobs
  <2> QED
    BY <1>5, <2>2 DEF FetchLeaves
<1> QED
  BY <1>2, <1>3, <1>4, <1>5

\* What a flush leaves: an effect that is not due leaves what it is about alone, one
\* that is due has ended what it was waiting for, and writes as above.
Leaves(p, seen, w, r) ==
    /\ r.job.check = IF seen.ran.check = CheckDependencies(seen, w) THEN p.job.check ELSE CheckStarts(seen, w)
    /\ IF seen.ran.sync = SyncDependencies(seen, w)
         THEN r.job.sync = p.job.sync /\ r.nft.targetAddress = p.nft.targetAddress
         ELSE SyncLeaves([p EXCEPT !.job = [@ EXCEPT !.sync = None]], seen, w, r)
    /\ IF seen.ran.fetch = FetchDependencies(seen, w)
         THEN r.job.fetch = p.job.fetch /\ r.nft.targetAsset = p.nft.targetAsset /\ r.args = p.args
         ELSE FetchLeaves([p EXCEPT !.job = [@ EXCEPT !.fetch = None]], seen, w, r)

LEMMA FlushedEffects ==
    ASSUME NEW p, PageTyped(p), NEW seen, PageTyped(seen), NEW w, WalletsTyped(w),
           seen.nft.sourceChain = p.nft.sourceChain, seen.ran = p.ran,
           NEW r, r = Flushed(p, seen, w)
    PROVE  Leaves(p, seen, w, r)
<1> DEFINE due == Due(seen, w)
           Kept(e) == IF e \in due THEN None ELSE p.job[e]
           kept == [sync |-> Kept("sync"), check |-> Kept("check"), fetch |-> Kept("fetch")]
           clean == [p EXCEPT !.ran = Dependencies(seen, w), !.job = kept]
           sync == IF "sync" \in due THEN useSyncTargetAddress(clean, seen, w) ELSE clean
           check == IF "check" \in due THEN useCheckIfWormholeWrapped(sync, seen, w) ELSE sync
           fetch == IF "fetch" \in due THEN useFetchTargetAsset(check, seen, w) ELSE check
           noSync == [p EXCEPT !.job = [@ EXCEPT !.sync = None]]
           noFetch == [p EXCEPT !.job = [@ EXCEPT !.fetch = None]]
<1>1. r = fetch
  BY DEF Flushed
<1>2. /\ "sync" \in due <=> seen.ran.sync # SyncDependencies(seen, w)
      /\ "check" \in due <=> seen.ran.check # CheckDependencies(seen, w)
      /\ "fetch" \in due <=> seen.ran.fetch # FetchDependencies(seen, w)
  <2>1. /\ "sync" \in due <=> seen.ran["sync"] # Dependencies(seen, w)["sync"]
        /\ "check" \in due <=> seen.ran["check"] # Dependencies(seen, w)["check"]
        /\ "fetch" \in due <=> seen.ran["fetch"] # Dependencies(seen, w)["fetch"]
    BY DEF Due, Effects
  <2> QED
    BY <2>1 DEF Dependencies
<1> HIDE DEF due
<1>3. p.job \in Jobs /\ p.nft \in Store
  BY DEF PageTyped
<1>4. kept \in Jobs /\ PageTyped(clean) /\ clean.nft = p.nft /\ clean.args = p.args /\ clean.job = kept
  BY DEF PageTyped, Jobs
<1>5. /\ clean.job.sync = IF "sync" \in due THEN None ELSE p.job.sync
      /\ clean.job.check = IF "check" \in due THEN None ELSE p.job.check
      /\ clean.job.fetch = IF "fetch" \in due THEN None ELSE p.job.fetch
  BY <1>4
<1>6. /\ noSync.job.sync = None /\ noSync.nft = p.nft
      /\ noFetch.job.fetch = None /\ noFetch.nft = p.nft /\ noFetch.args = p.args
  BY <1>3 DEF PageTyped, Jobs
<1> HIDE DEF clean, kept, noSync, noFetch
<1>7. /\ PageTyped(sync) /\ sync.nft.sourceChain = seen.nft.sourceChain
      /\ sync.nft.targetAsset = p.nft.targetAsset /\ sync.args = p.args
      /\ sync.job.check = clean.job.check /\ sync.job.fetch = clean.job.fetch
      /\ IF "sync" \in due THEN SyncLeaves(clean, seen, w, sync)
         ELSE sync.job.sync = p.job.sync /\ sync.nft.targetAddress = p.nft.targetAddress
  <2>1. CASE "sync" \in due
    <3>1. sync = useSyncTargetAddress(clean, seen, w)
      BY <2>1
    <3> HIDE DEF sync
    <3>2. seen.nft.sourceChain = clean.nft.sourceChain
      BY <1>4
    <3>3. /\ PageTyped(sync) /\ Touched(clean, sync)
          /\ sync.args = clean.args /\ sync.job.check = clean.job.check /\ sync.job.fetch = clean.job.fetch
      BY <1>4, <3>1, <3>2, SyncEffect
    <3>4. SyncLeaves(clean, seen, w, sync) /\ sync.nft.targetAsset = clean.nft.targetAsset
      BY <1>4, <3>1, SyncLeft
    <3> QED
      BY <1>4, <2>1, <3>2, <3>3, <3>4 DEF Touched
  <2>2. CASE "sync" \notin due
    BY <1>4, <1>5, <2>2
  <2> QED
    BY <2>1, <2>2
<1> HIDE DEF sync
<1>8. /\ PageTyped(check) /\ check.nft = sync.nft /\ check.args = sync.args
      /\ check.job.sync = sync.job.sync /\ check.job.fetch = sync.job.fetch
      /\ check.job.check = IF "check" \in due THEN CheckStarts(seen, w) ELSE p.job.check
  <2>1. CASE "check" \in due
    <3>1. check = useCheckIfWormholeWrapped(sync, seen, w)
      BY <2>1
    <3> HIDE DEF check
    <3>2. PageTyped(sync)
      BY <1>7
    <3>3. PageTyped(check) /\ OnlyCheck(sync, check)
      BY <3>1, <3>2, CheckEffect
    <3>4. sync.job.check = None
      BY <1>5, <1>7, <2>1
    <3>5. check.job.check = CheckStarts(seen, w)
      BY <3>1, <3>2, <3>4, CheckLeft
    <3> QED
      BY <2>1, <3>3, <3>5 DEF OnlyCheck
  <2>2. CASE "check" \notin due
    BY <1>5, <1>7, <2>2
  <2> QED
    BY <2>1, <2>2
<1> HIDE DEF check
<1>9. /\ fetch.nft.targetAddress = check.nft.targetAddress
      /\ fetch.job.sync = check.job.sync /\ fetch.job.check = check.job.check
      /\ IF "fetch" \in due THEN FetchLeaves(check, seen, w, fetch)
         ELSE /\ fetch.job.fetch = p.job.fetch /\ fetch.nft.targetAsset = p.nft.targetAsset
              /\ fetch.args = p.args
  <2>1. CASE "fetch" \in due
    <3>1. fetch = useFetchTargetAsset(check, seen, w)
      BY <2>1
    <3> HIDE DEF fetch
    <3>2. PageTyped(check) /\ seen.nft.sourceChain = check.nft.sourceChain
      BY <1>7, <1>8
    <3>3. PageTyped(fetch) /\ fetch.job.sync = check.job.sync /\ fetch.job.check = check.job.check
      BY <3>1, <3>2, FetchEffect
    <3>4. FetchLeaves(check, seen, w, fetch) /\ fetch.nft.targetAddress = check.nft.targetAddress
      BY <3>1, <3>2, FetchLeft
    <3> QED
      BY <2>1, <3>3, <3>4
  <2>2. CASE "fetch" \notin due
    BY <1>5, <1>7, <1>8, <2>2
  <2> QED
    BY <2>1, <2>2
<1> HIDE DEF fetch
<1>10. "sync" \in due => SyncLeaves(noSync, seen, w, fetch)
  BY <1>4, <1>5, <1>6, <1>7, <1>8, <1>9 DEF SyncLeaves
<1>11. "fetch" \in due => FetchLeaves(noFetch, seen, w, fetch)
  BY <1>4, <1>5, <1>6, <1>7, <1>8, <1>9 DEF FetchLeaves
<1> QED
  BY <1>1, <1>2, <1>7, <1>8, <1>9, <1>10, <1>11 DEF Leaves, noSync, noFetch

----------------------------------------------------------------------------
(* What the page knows once its effects have run *)

\* The origin is looked up for the selection that the effect has seen, and found when
\* nothing is waited for.
OriginKnown(p, w) ==
    /\ p.ran.check = CheckDependencies(p, w)
    /\ p.job.check = None
    /\ CheckStarts(p, w) # None
    => p.nft.origin = CheckStarts(p, w)

\* The asset is the one that was noted, whatever came since.
Noted(p) ==
    \/ p.args = None
    \/ p.nft.targetAsset = None
    \/ p.args[2] # Target(p.nft)
    \/ p.nft.targetAsset = Sought(p.args[2], p.args[1])

\* The effect has looked for the asset of the selection, and nothing is waited for.
Answered(p, w) ==
    /\ p.ran.fetch = FetchDependencies(p, w)
    /\ p.job.fetch = None
    /\ p.nft.origin # None
    /\ p.nft.origin = OriginOf(p.nft)
    /\ p.args # Args(p.nft)

Looked(p, w) == Answered(p, w) => p.nft.targetAsset \in {None, AssetOf(p.nft)}

\* The address that the effect would leave.
Wanted(nft, w) ==
    IF Target(nft) = "ethereum"
      THEN IF w["ethereum"] # None THEN [owner |-> w["ethereum"], chain |-> "ethereum"] ELSE None
      ELSE IF w["solana"] # None /\ nft.targetAsset # None
             THEN TokenAccount(nft.targetAsset, w["solana"])
             ELSE None

AddressKnown(p, w, x) ==
    /\ p.ran.sync = SyncDependencies(p, w)
    /\ p.job.sync = None
    /\ p.nft.activeStep = 1
    => p.nft.targetAddress = Wanted(p.nft, w) \/ (p.nft.targetAddress = None /\ x)

\* Without an origin, no arguments are noted that an origin could match.
ArgsGone(p, w) ==
    /\ p.nft.origin = None
    /\ p.ran.fetch = FetchDependencies(p, w)
    => p.args \in {None, Args(p.nft)}

\* What was noted for the selection was found.
ArgsFresh(p) ==
    p.nft.origin # None /\ p.args = Args(p.nft) => p.nft.targetAsset = AssetOf(p.nft)

AssetFresh(p, w) == Answered(p, w) => p.nft.targetAsset = AssetOf(p.nft)

LookupsInv ==
    /\ page.nft.activeStep # 0 => page.nft.selected # None
    /\ ~excused => OriginKnown(page, wallet)
    /\ Noted(page)
    /\ Looked(page, wallet)
    /\ AddressKnown(page, wallet, excused)
    /\ ~raced => ArgsGone(page, wallet)
    /\ ~raced /\ ~excused => ArgsFresh(page) /\ AssetFresh(page, wallet)

\* Equal dependencies come from equal selections.
LEMMA CheckSame ==
    ASSUME NEW p, NEW w, NEW q, NEW v, CheckDependencies(p, w) = CheckDependencies(q, v)
    PROVE  p.nft.sourceChain = q.nft.sourceChain /\ p.nft.selected = q.nft.selected
           /\ CheckStarts(p, w) = CheckStarts(q, v)
BY DEF CheckDependencies, CheckStarts

LEMMA FetchSame ==
    ASSUME NEW p, NEW w, NEW q, NEW v, FetchDependencies(p, w) = FetchDependencies(q, v)
    PROVE  p.nft.origin = q.nft.origin /\ Target(p.nft) = Target(q.nft)
           /\ Args(p.nft) = Args(q.nft)
           /\ (p.args = Args(p.nft) <=> q.args = Args(q.nft))
<1>1. p.nft.origin = q.nft.origin /\ Target(p.nft) = Target(q.nft)
      /\ (p.args = Args(p.nft)) = (q.args = Args(q.nft))
  BY DEF FetchDependencies
<1> QED
  BY <1>1 DEF Args

LEMMA SyncSame ==
    ASSUME NEW p, NEW w, NEW q, NEW v, SyncDependencies(p, w) = SyncDependencies(q, v), q.nft.activeStep = 1
    PROVE  p.nft.activeStep = 1 /\ Target(p.nft) = Target(q.nft)
           /\ w["ethereum"] = v["ethereum"] /\ w["solana"] = v["solana"]
           /\ p.nft.targetAsset = q.nft.targetAsset
           /\ Wanted(p.nft, w) = Wanted(q.nft, v)
<1>1. SyncDependencies(q, v) = <<Target(q.nft), v["ethereum"], v["solana"], q.nft.targetAsset>>
  BY DEF SyncDependencies
<1>2. p.nft.activeStep = 1
  BY <1>1 DEF SyncDependencies
<1>3. SyncDependencies(p, w) = <<Target(p.nft), w["ethereum"], w["solana"], p.nft.targetAsset>>
  BY <1>2 DEF SyncDependencies
<1> QED
  BY <1>1, <1>2, <1>3 DEF Wanted

----------------------------------------------------------------------------
(* What a flush leaves of it *)

\* The effects of seen have run on p, and r is what the page then holds.
FlushedTo(p, seen, w, r) ==
    /\ PageTyped(p) /\ PageTyped(seen) /\ WalletsTyped(w) /\ PageTyped(r)
    /\ r.ran = Dependencies(seen, w)
    /\ r.nft.activeStep = p.nft.activeStep
    /\ r.nft.sourceChain = p.nft.sourceChain
    /\ r.nft.selected = p.nft.selected
    /\ r.nft.origin = p.nft.origin
    /\ Leaves(p, seen, w, r)

LEMMA Flushing ==
    ASSUME NEW p, PageTyped(p), JobsRan(p), NEW seen, PageTyped(seen), NEW w, WalletsTyped(w),
           seen.nft.sourceChain = p.nft.sourceChain, seen.ran = p.ran,
           NEW r, r = Flushed(p, seen, w)
    PROVE  FlushedTo(p, seen, w, r) /\ JobsRan(r)
<1> DEFINE q == [p EXCEPT !.ran = Dependencies(seen, w)]
<1>1. PageTyped(r) /\ JobsRan(r) /\ Touched(q, r)
  BY FlushedPage
<1>2. q.nft = p.nft /\ q.ran = Dependencies(seen, w)
  BY DEF PageTyped
<1> HIDE DEF q
<1>3. Leaves(p, seen, w, r)
  BY FlushedEffects
<1> QED
  BY <1>1, <1>2, <1>3 DEF Touched, FlushedTo

\* What the effects have last run with.
LEMMA RanWith ==
    ASSUME NEW p, NEW seen, NEW w, NEW r, FlushedTo(p, seen, w, r)
    PROVE  /\ r.ran.sync = SyncDependencies(seen, w)
           /\ r.ran.check = CheckDependencies(seen, w)
           /\ r.ran.fetch = FetchDependencies(seen, w)
BY DEF FlushedTo, Dependencies

\* The target of a store follows from its source.
LEMMA TargetOf ==
    ASSUME NEW nft \in Store
    PROVE  /\ Target(nft) \in Chains
           /\ Target(nft) = "ethereum" <=> nft.sourceChain = "solana"
BY Targets DEF Target, Store, Chains

LEMMA ArgsThere ==
    ASSUME NEW nft \in Store PROVE Args(nft) # None
<1>1. Args(nft) \in (Origins \cup {None}) \X Chains
  BY TargetOf DEF Args, Store
<1> QED
  BY <1>1, HooksAssumption

LEMMA OriginFlushed ==
    ASSUME NEW p, NEW seen, NEW w, NEW r, FlushedTo(p, seen, w, r), NEW v,
           /\ seen.ran.check = CheckDependencies(seen, w)
           /\ p.job.check = None
           /\ CheckStarts(seen, w) # None
           /\ p.nft.selected = seen.nft.selected
           => p.nft.origin = CheckStarts(seen, w)
    PROVE  OriginKnown(r, v)
<1> SUFFICES ASSUME r.ran.check = CheckDependencies(r, v), r.job.check = None, CheckStarts(r, v) # None
             PROVE  r.nft.origin = CheckStarts(r, v)
  BY DEF OriginKnown
<1>1. CheckDependencies(r, v) = CheckDependencies(seen, w)
  BY RanWith
<1>2. r.nft.selected = seen.nft.selected /\ CheckStarts(r, v) = CheckStarts(seen, w)
  BY <1>1, CheckSame
<1>3. r.job.check = IF seen.ran.check = CheckDependencies(seen, w) THEN p.job.check ELSE CheckStarts(seen, w)
  BY DEF FlushedTo, Leaves
<1>4. r.nft.selected = p.nft.selected /\ r.nft.origin = p.nft.origin
  BY DEF FlushedTo
<1> QED
  BY <1>2, <1>3, <1>4

LEMMA NotedFlushed ==
    ASSUME NEW p, NEW seen, NEW w, NEW r, FlushedTo(p, seen, w, r), Noted(p)
    PROVE  Noted(r)
<1>1. Target(r.nft) = Target(p.nft)
  BY DEF FlushedTo, Target
<1>2. p.job \in Jobs
  BY DEF FlushedTo, PageTyped
<1> DEFINE q == [p EXCEPT !.job = [@ EXCEPT !.fetch = None]]
<1>3. q.nft = p.nft /\ q.args = p.args
  BY DEF FlushedTo, PageTyped
<1> HIDE DEF q
<1>4. CASE r.args = p.args /\ r.nft.targetAsset = p.nft.targetAsset
  BY <1>1, <1>4 DEF Noted
<1>5. CASE FetchLeaves(q, seen, w, r)
  <2>1. CASE r.args = Args(seen.nft) /\ r.nft.targetAsset = [chain |-> "ethereum"] /\ Target(seen.nft) = "ethereum"
    BY <2>1 DEF Noted, Args, Sought
  <2>2. \/ r.args = None \/ r.nft.targetAsset = None
        \/ r.args = q.args /\ r.nft.targetAsset = q.nft.targetAsset
        \/ r.args = Args(seen.nft) /\ r.nft.targetAsset = [chain |-> "ethereum"] /\ Target(seen.nft) = "ethereum"
    BY <1>5 DEF FetchLeaves
  <2> QED
    BY <1>3, <1>4, <2>1, <2>2 DEF Noted
<1> QED
  BY <1>4, <1>5 DEF FlushedTo, Leaves, q

\* An effect that looked for the asset and waits for nothing had ended before.
LEMMA AnsweredFlushed ==
    ASSUME NEW p, NEW seen, NEW w, NEW r, FlushedTo(p, seen, w, r), NEW v, Answered(r, v)
    PROVE  /\ seen.ran.fetch = FetchDependencies(seen, w)
           /\ p.job.fetch = None
           /\ p.nft.origin = seen.nft.origin
           /\ p.nft.origin # None
           /\ p.nft.origin = OriginOf(p.nft)
           /\ seen.args # Args(seen.nft)
           /\ r.nft.targetAsset = p.nft.targetAsset
           /\ AssetOf(r.nft) = AssetOf(p.nft)
<1>1. FetchDependencies(r, v) = FetchDependencies(seen, w)
  BY RanWith DEF Answered
<1>2. /\ r.nft.origin = seen.nft.origin /\ Target(r.nft) = Target(seen.nft) /\ Args(r.nft) = Args(seen.nft)
      /\ seen.args # Args(seen.nft)
  BY <1>1, FetchSame DEF Answered
<1>3. /\ r.nft.origin = p.nft.origin /\ OriginOf(r.nft) = OriginOf(p.nft)
      /\ Target(r.nft) = Target(p.nft) /\ AssetOf(r.nft) = AssetOf(p.nft)
  BY DEF FlushedTo, OriginOf, Target, AssetOf
<1>4. seen.ran.fetch = FetchDependencies(seen, w)
  <2> SUFFICES ASSUME seen.ran.fetch # FetchDependencies(seen, w) PROVE FALSE
    OBVIOUS
  <2>1. FetchLeaves([p EXCEPT !.job = [@ EXCEPT !.fetch = None]], seen, w, r)
    BY DEF FlushedTo, Leaves
  <2>2. r.nft \in Store /\ r.nft.origin \in Origins /\ Target(r.nft) \in Chains
    BY TargetOf DEF FlushedTo, PageTyped, Store, Answered
  <2>3. Target(seen.nft) = "ethereum" => seen.nft.origin.wrapped
    <3>1. Target(r.nft) = "ethereum" <=> r.nft.sourceChain = "solana"
      BY <2>2, TargetOf
    <3>2. r.nft.origin.wrapped = (r.nft.sourceChain = "solana")
      BY DEF Answered, OriginOf
    <3> QED
      BY <1>2, <3>1, <3>2
  <2>4. Sought(Target(seen.nft), seen.nft.origin) # None
    BY <1>2, <2>2, SoughtTyped, HooksAssumption
  <2> QED
    BY <1>2, <2>1, <2>3, <2>4 DEF FetchLeaves, Answered
<1> QED
  BY <1>2, <1>3, <1>4 DEF FlushedTo, Leaves, Answered

LEMMA AddressFlushed ==
    ASSUME NEW p, NEW seen, NEW w, NEW r, FlushedTo(p, seen, w, r), NEW v, NEW x,
           /\ seen.ran.sync = SyncDependencies(seen, w)
           /\ p.job.sync = None
           /\ p.nft.activeStep = 1
           /\ seen.nft.activeStep = 1
           => p.nft.targetAddress = Wanted(seen.nft, w) \/ (p.nft.targetAddress = None /\ x)
    PROVE  AddressKnown(r, v, x)
<1> SUFFICES ASSUME r.ran.sync = SyncDependencies(r, v), r.job.sync = None, r.nft.activeStep = 1
             PROVE  r.nft.targetAddress = Wanted(r.nft, v) \/ (r.nft.targetAddress = None /\ x)
  BY DEF AddressKnown
<1>1. SyncDependencies(seen, w) = SyncDependencies(r, v)
  BY RanWith
<1>2. seen.nft.activeStep = 1 /\ Wanted(seen.nft, w) = Wanted(r.nft, v)
  BY <1>1, SyncSame
<1>3. r.nft.activeStep = p.nft.activeStep
  BY DEF FlushedTo
<1>4. CASE seen.ran.sync = SyncDependencies(seen, w)
  BY <1>2, <1>3, <1>4 DEF FlushedTo, Leaves
<1>5. CASE seen.ran.sync # SyncDependencies(seen, w)
  <2>1. SyncLeaves([p EXCEPT !.job = [@ EXCEPT !.sync = None]], seen, w, r)
    BY <1>5 DEF FlushedTo, Leaves
  <2>2. seen.nft \in Store /\ seen.nft.targetAsset \in Assets \cup {None} /\ Target(seen.nft) \in Chains
    BY TargetOf DEF FlushedTo, PageTyped, Store
  <2>3. seen.nft.targetAsset # None /\ w["solana"] # None =>
            [asset |-> seen.nft.targetAsset, owner |-> w["solana"]] # None
    BY <2>2, HooksAssumption DEF FlushedTo, WalletsTyped
  <2>4. r.nft.targetAddress = Wanted(seen.nft, w)
    BY <1>2, <2>1, <2>2, <2>3 DEF SyncLeaves, Wanted, Chains
  <2> QED
    BY <1>2, <2>4
<1> QED
  BY <1>4, <1>5

LEMMA ArgsGoneFlushed ==
    ASSUME NEW p, NEW seen, NEW w, NEW r, FlushedTo(p, seen, w, r), NEW v,
           seen.nft.origin = None =>
               /\ p.args = seen.args
               /\ seen.ran.fetch = FetchDependencies(seen, w) => p.args \in {None, Args(seen.nft)}
    PROVE  ArgsGone(r, v)
<1> SUFFICES ASSUME r.nft.origin = None, r.ran.fetch = FetchDependencies(r, v)
             PROVE  r.args \in {None, Args(r.nft)}
  BY DEF ArgsGone
<1>1. FetchDependencies(r, v) = FetchDependencies(seen, w)
  BY RanWith
<1>2. seen.nft.origin = None /\ Args(r.nft) = Args(seen.nft)
  BY <1>1, FetchSame
<1>3. CASE seen.ran.fetch = FetchDependencies(seen, w)
  BY <1>2, <1>3 DEF FlushedTo, Leaves
<1>4. CASE seen.ran.fetch # FetchDependencies(seen, w)
  <2> DEFINE q == [p EXCEPT !.job = [@ EXCEPT !.fetch = None]]
  <2>1. FetchLeaves(q, seen, w, r)
    BY <1>4 DEF FlushedTo, Leaves
  <2>2. q.args = p.args
    BY DEF FlushedTo, PageTyped
  <2> HIDE DEF q
  <2> QED
    BY <1>2, <2>1, <2>2 DEF FetchLeaves
<1> QED
  BY <1>3, <1>4

LEMMA ArgsFreshFlushed ==
    ASSUME NEW p, NEW seen, NEW w, NEW r, FlushedTo(p, seen, w, r),
           \/ seen.ran.fetch = FetchDependencies(seen, w)
           \/ seen.args = Args(seen.nft)
           => ArgsFresh(p)
    PROVE  ArgsFresh(r)
<1>1. r.nft.origin = p.nft.origin /\ Args(r.nft) = Args(p.nft) /\ AssetOf(r.nft) = AssetOf(p.nft)
  BY DEF FlushedTo, Args, Target, AssetOf
<1>2. r.nft \in Store
  BY DEF FlushedTo, PageTyped
<1>3. CASE ArgsFresh(p) /\ r.args = p.args /\ r.nft.targetAsset = p.nft.targetAsset
  BY <1>1, <1>3 DEF ArgsFresh
<1>4. CASE seen.ran.fetch # FetchDependencies(seen, w)
  <2> DEFINE q == [p EXCEPT !.job = [@ EXCEPT !.fetch = None]]
  <2>1. FetchLeaves(q, seen, w, r)
    BY <1>4 DEF FlushedTo, Leaves
  <2>2. q.args = p.args /\ q.nft = p.nft
    BY DEF FlushedTo, PageTyped
  <2> HIDE DEF q
  <2>3. CASE r.args = None
    BY <1>2, <2>3, ArgsThere DEF ArgsFresh
  <2>4. CASE r.args = Args(seen.nft) /\ r.nft.targetAsset = [chain |-> "ethereum"] /\ Target(seen.nft) = "ethereum"
    BY <2>4 DEF ArgsFresh, Args, AssetOf
  <2> QED
    BY <1>3, <2>1, <2>2, <2>3, <2>4 DEF FetchLeaves
<1> QED
  BY <1>3, <1>4 DEF FlushedTo, Leaves

----------------------------------------------------------------------------
(* One lemma per action *)

\* A dispatch from elsewhere, by what it changes.
LEMMA ArrivesKnown ==
    ASSUME NEW p, FlushedTo(p, page, wallet, page'), LookupsInv,
           p.nft.activeStep # 0 => p.nft.selected # None,
           ~excused' =>
               (/\ page.ran.check = CheckDependencies(page, wallet)
                /\ p.job.check = None
                /\ CheckStarts(page, wallet) # None
                /\ p.nft.selected = page.nft.selected
                => p.nft.origin = CheckStarts(page, wallet)),
           Noted(p),
           /\ page.ran.fetch = FetchDependencies(page, wallet)
           /\ p.job.fetch = None
           /\ p.nft.origin = page.nft.origin
           /\ p.nft.origin # None
           /\ p.nft.origin = OriginOf(p.nft)
           /\ page.args # Args(page.nft)
           => /\ p.nft.targetAsset \in {None, AssetOf(p.nft)}
              /\ ~raced' /\ ~excused' => p.nft.targetAsset = AssetOf(p.nft),
           /\ page.ran.sync = SyncDependencies(page, wallet)
           /\ p.job.sync = None
           /\ p.nft.activeStep = 1
           /\ page.nft.activeStep = 1
           => p.nft.targetAddress = Wanted(page.nft, wallet) \/ (p.nft.targetAddress = None /\ excused'),
           p.args = page.args,
           ~raced' => ~raced,
           ~raced' /\ ~excused' =>
               (\/ page.ran.fetch = FetchDependencies(page, wallet)
                \/ page.args = Args(page.nft)
                => ArgsFresh(p))
    PROVE  LookupsInv'
<1>1. page'.nft.activeStep # 0 => page'.nft.selected # None
  BY DEF FlushedTo
<1>2. ~excused' => OriginKnown(page', wallet')
  BY OriginFlushed
<1>3. Noted(page')
  BY NotedFlushed
<1>4. Looked(page', wallet')
  BY AnsweredFlushed DEF Looked
<1>5. AddressKnown(page', wallet', excused')
  BY AddressFlushed
<1>6. ~raced' => ArgsGone(page', wallet')
  <2> SUFFICES ASSUME ~raced' PROVE ArgsGone(page', wallet')
    OBVIOUS
  <2>1. ArgsGone(page, wallet)
    BY DEF LookupsInv
  <2>2. page.nft.origin = None /\ page.ran.fetch = FetchDependencies(page, wallet) =>
            p.args \in {None, Args(page.nft)}
    BY <2>1 DEF ArgsGone
  <2> QED
    BY <2>2, ArgsGoneFlushed
<1>7. ~raced' /\ ~excused' => ArgsFresh(page') /\ AssetFresh(page', wallet')
  <2> SUFFICES ASSUME ~raced', ~excused' PROVE ArgsFresh(page') /\ AssetFresh(page', wallet')
    OBVIOUS
  <2>1. ArgsFresh(page')
    BY ArgsFreshFlushed
  <2>2. AssetFresh(page', wallet')
    BY AnsweredFlushed DEF AssetFresh
  <2> QED
    BY <2>1, <2>2
<1> QED
  BY <1>1, <1>2, <1>3, <1>4, <1>5, <1>6, <1>7 DEF LookupsInv

\* The effects run with nothing new in the store.
LEMMA PageArrives ==
    ASSUME HooksInv, LookupsInv, page' = Flushed(page, page, wallet), UNCHANGED <<raced, excused>>
    PROVE  LookupsInv'
<1>1. FlushedTo(page, page, wallet, page')
  BY Flushing DEF HooksInv
<1>2. ~excused =>
          (/\ page.ran.check = CheckDependencies(page, wallet)
           /\ page.job.check = None
           /\ CheckStarts(page, wallet) # None
           => page.nft.origin = CheckStarts(page, wallet))
  BY DEF LookupsInv, OriginKnown
<1>3. /\ page.ran.fetch = FetchDependencies(page, wallet)
      /\ page.job.fetch = None
      /\ page.nft.origin # None
      /\ page.nft.origin = OriginOf(page.nft)
      /\ page.args # Args(page.nft)
      => /\ page.nft.targetAsset \in {None, AssetOf(page.nft)}
         /\ ~raced /\ ~excused => page.nft.targetAsset = AssetOf(page.nft)
  BY DEF LookupsInv, Looked, AssetFresh, Answered
<1>4. AddressKnown(page, wallet, excused)
  BY DEF LookupsInv
<1>5. ~raced /\ ~excused => ArgsFresh(page)
  BY DEF LookupsInv
<1>6. Noted(page) /\ (page.nft.activeStep # 0 => page.nft.selected # None)
  BY DEF LookupsInv
<1>7. /\ page.ran.sync = SyncDependencies(page, wallet)
      /\ page.job.sync = None
      /\ page.nft.activeStep = 1
      => page.nft.targetAddress = Wanted(page.nft, wallet) \/ (page.nft.targetAddress = None /\ excused)
  BY <1>4 DEF AddressKnown
<1> QED
  BY <1>1, <1>2, <1>3, <1>5, <1>6, <1>7, ArrivesKnown

LEMMA FlushKnown ==
    ASSUME HooksInv, LookupsInv, Flush PROVE LookupsInv'
BY PageArrives DEF Flush

LEMMA WalletChangesKnown ==
    ASSUME HooksInv, LookupsInv, NEW chain, NEW account, WalletChanges(chain, account)
    PROVE  LookupsInv'
BY PageArrives DEF WalletChanges, Arrives

\* A job that has ended leaves the others.
LEMMA DoneJobs ==
    ASSUME HooksInv, NEW e \in Effects
    PROVE  /\ Done(e).nft = page.nft /\ Done(e).args = page.args /\ Done(e).ran = page.ran
           /\ Done(e).job.sync = IF e = "sync" THEN None ELSE page.job.sync
           /\ Done(e).job.check = IF e = "check" THEN None ELSE page.job.check
           /\ Done(e).job.fetch = IF e = "fetch" THEN None ELSE page.job.fetch
           /\ PageTyped(Done(e)) /\ JobsRan(Done(e))
<1>1. page.job \in Jobs
  BY DEF HooksInv, PageTyped
<1>2. Done(e).job = [page.job EXCEPT ![e] = None] /\ Done(e).args = page.args
  BY DEF Done, HooksInv, PageTyped
<1>3. PageTyped(Done(e)) /\ JobsRan(Done(e)) /\ Done(e).nft = page.nft /\ Done(e).ran = page.ran
  BY DoneTyped DEF HooksInv
<1> QED
  BY <1>1, <1>2, <1>3 DEF Jobs, Effects

\* A store that a dispatch leaves, with what else the page holds.
LEMMA StoredPage ==
    ASSUME NEW q, PageTyped(q), JobsRan(q), NEW nft \in Store, NEW p, p = [q EXCEPT !.nft = nft]
    PROVE  /\ PageTyped(p) /\ JobsRan(p)
           /\ p.nft = nft /\ p.args = q.args /\ p.job = q.job /\ p.ran = q.ran
<1>1. p.args = q.args
  BY DEF PageTyped
<1> QED
  BY <1>1, StoredTyped

LEMMA LookupFailsKnown ==
    ASSUME HooksInv, LookupsInv, NEW e \in {"check", "fetch"}, LookupFails(e) PROVE LookupsInv'
<1> DEFINE asset == IF e = "fetch" THEN None ELSE page.nft.targetAsset
           nft == [page.nft EXCEPT !.targetAsset = asset]
           p == [Done(e) EXCEPT !.nft = nft]
<1>1. raced' = raced /\ excused' = TRUE
  BY DEF LookupFails
<1>2. /\ Done(e).nft = page.nft /\ Done(e).args = page.args /\ Done(e).ran = page.ran
      /\ Done(e).job.sync = page.job.sync
      /\ Done(e).job.fetch = IF e = "fetch" THEN None ELSE page.job.fetch
      /\ PageTyped(Done(e)) /\ JobsRan(Done(e))
  BY DoneJobs DEF Effects
<1>3. page.nft \in Store
  BY DEF HooksInv, PageTyped
<1>4. /\ nft \in Store /\ nft.targetAsset = asset
      /\ nft.activeStep = page.nft.activeStep /\ nft.sourceChain = page.nft.sourceChain
      /\ nft.selected = page.nft.selected /\ nft.origin = page.nft.origin
      /\ nft.targetAddress = page.nft.targetAddress
  BY <1>3 DEF Store
<1>5. p = IF e = "fetch" THEN [Done(e) EXCEPT !.nft.targetAsset = None] ELSE Done(e)
  <2>1. CASE e = "fetch"
    BY <1>2, <2>1
  <2>2. CASE e # "fetch"
    <3>1. nft = page.nft
      BY <1>3, <2>2 DEF Store
    <3> QED
      BY <1>2, <2>2, <3>1 DEF PageTyped
  <2> QED
    BY <2>1, <2>2
<1> HIDE DEF nft, asset
<1>6. /\ PageTyped(p) /\ JobsRan(p)
      /\ p.nft = nft /\ p.args = page.args /\ p.ran = page.ran /\ p.job = Done(e).job
  BY <1>2, <1>4, StoredPage
<1>7. page' = Flushed(p, page, wallet)
  BY <1>5 DEF LookupFails, Arrives
<1> HIDE DEF p
<1>8. FlushedTo(p, page, wallet, page')
  BY <1>4, <1>6, <1>7, Flushing DEF HooksInv
<1>9. /\ Target(nft) = Target(page.nft) /\ AssetOf(nft) = AssetOf(page.nft)
      /\ OriginOf(nft) = OriginOf(page.nft)
  BY <1>4 DEF Target, AssetOf, OriginOf
<1>10. Noted(p)
  <2>1. Noted(page)
    BY DEF LookupsInv
  <2> QED
    BY <1>4, <1>6, <1>9, <2>1 DEF Noted, asset
<1>11. /\ page.ran.fetch = FetchDependencies(page, wallet)
       /\ p.job.fetch = None
       /\ p.nft.origin = page.nft.origin
       /\ p.nft.origin # None
       /\ p.nft.origin = OriginOf(p.nft)
       /\ page.args # Args(page.nft)
       => p.nft.targetAsset \in {None, AssetOf(p.nft)}
  <2>1. CASE e = "fetch"
    BY <1>4, <1>6, <2>1 DEF asset
  <2>2. CASE e # "fetch"
    <3>1. p.job.fetch = page.job.fetch /\ p.nft.targetAsset = page.nft.targetAsset
      BY <1>2, <1>4, <1>6, <2>2 DEF asset
    <3>2. Looked(page, wallet)
      BY DEF LookupsInv
    <3> QED
      BY <1>4, <1>6, <1>9, <3>1, <3>2 DEF Looked, Answered
  <2> QED
    BY <2>1, <2>2
<1>12. /\ page.ran.sync = SyncDependencies(page, wallet)
       /\ p.job.sync = None
       /\ page.nft.activeStep = 1
       => p.nft.targetAddress = Wanted(page.nft, wallet) \/ p.nft.targetAddress = None
  BY <1>2, <1>4, <1>6 DEF LookupsInv, AddressKnown
<1>13. p.nft.activeStep # 0 => p.nft.selected # None
  BY <1>4, <1>6 DEF LookupsInv
<1> QED
  BY <1>1, <1>6, <1>8, <1>10, <1>11, <1>12, <1>13, ArrivesKnown

LEMMA AddressFoundKnown ==
    ASSUME HooksInv, LookupsInv, AddressFound PROVE LookupsInv'
<1> DEFINE asset == page.job.sync.asset
           owner == page.job.sync.owner
           address == TokenAccount(asset, owner)
           nft == [page.nft EXCEPT !.targetAddress = address]
           p == [Done("sync") EXCEPT !.nft = nft]
<1>1. /\ page.job.sync # None /\ raced' = (raced \/ "sync" \in Due(page, wallet)) /\ excused' = excused
  BY DEF AddressFound, Late
<1>2. /\ Done("sync").nft = page.nft /\ Done("sync").args = page.args /\ Done("sync").ran = page.ran
      /\ Done("sync").job.check = page.job.check /\ Done("sync").job.fetch = page.job.fetch
      /\ PageTyped(Done("sync")) /\ JobsRan(Done("sync"))
  BY DoneJobs DEF Effects
<1>3. page.nft \in Store /\ asset \in Assets /\ owner \in SolAccounts
  BY <1>1 DEF HooksInv, PageTyped, Jobs
<1>4. address \in Addresses \cup {None}
  BY <1>3 DEF TokenAccount, Assets, Addresses
<1>5. page' = Flushed(p, page, wallet)
  BY <1>2 DEF AddressFound, Arrives
<1> HIDE DEF address
<1>6. /\ nft \in Store /\ nft.targetAddress = address
      /\ nft.activeStep = page.nft.activeStep /\ nft.sourceChain = page.nft.sourceChain
      /\ nft.selected = page.nft.selected /\ nft.origin = page.nft.origin
      /\ nft.targetAsset = page.nft.targetAsset
  BY <1>3, <1>4 DEF Store
<1> HIDE DEF nft
<1>7. /\ PageTyped(p) /\ JobsRan(p)
      /\ p.nft = nft /\ p.args = page.args /\ p.ran = page.ran /\ p.job = Done("sync").job
  BY <1>2, <1>6, StoredPage
<1> HIDE DEF p
<1>8. FlushedTo(p, page, wallet, page')
  BY <1>5, <1>6, <1>7, Flushing DEF HooksInv
<1>9. /\ Target(nft) = Target(page.nft) /\ AssetOf(nft) = AssetOf(page.nft)
      /\ OriginOf(nft) = OriginOf(page.nft) /\ Args(nft) = Args(page.nft)
  BY <1>6 DEF Target, AssetOf, OriginOf, Args
<1>10. Noted(p)
  <2>1. Noted(page)
    BY DEF LookupsInv
  <2> QED
    BY <1>6, <1>7, <1>9, <2>1 DEF Noted
<1>11. ~excused =>
           (/\ page.ran.check = CheckDependencies(page, wallet)
            /\ p.job.check = None
            /\ CheckStarts(page, wallet) # None
            => p.nft.origin = CheckStarts(page, wallet))
  BY <1>2, <1>6, <1>7 DEF LookupsInv, OriginKnown
<1>12. /\ page.ran.fetch = FetchDependencies(page, wallet)
       /\ p.job.fetch = None
       /\ p.nft.origin # None
       /\ p.nft.origin = OriginOf(p.nft)
       /\ page.args # Args(page.nft)
       => /\ p.nft.targetAsset \in {None, AssetOf(p.nft)}
          /\ ~raced /\ ~excused => p.nft.targetAsset = AssetOf(p.nft)
  BY <1>2, <1>6, <1>7, <1>9 DEF LookupsInv, Looked, AssetFresh, Answered
<1>13. page.ran.sync = SyncDependencies(page, wallet) /\ page.nft.activeStep = 1 =>
           p.nft.targetAddress = Wanted(page.nft, wallet)
  <2> SUFFICES ASSUME page.ran.sync = SyncDependencies(page, wallet), page.nft.activeStep = 1
               PROVE  address = Wanted(page.nft, wallet)
    BY <1>6, <1>7
  <2>1. asset # None
    BY <1>1 DEF HooksInv, JobsRan, SyncRan
  <2>2. PICK x : page.ran.sync = <<"solana", x, owner, asset>>
    BY <1>1 DEF HooksInv, JobsRan, SyncRan
  <2>3. Target(page.nft) = "solana" /\ wallet["solana"] = owner /\ page.nft.targetAsset = asset
    BY <2>2 DEF SyncDependencies
  <2>4. owner # None
    BY <1>3, HooksAssumption
  <2> HIDE DEF asset, owner
  <2> QED
    BY <2>1, <2>3, <2>4 DEF Wanted, address
<1>14. ~raced /\ ~excused => ArgsFresh(p)
  BY <1>6, <1>7, <1>9 DEF LookupsInv, ArgsFresh
<1>15. p.nft.activeStep # 0 => p.nft.selected # None
  BY <1>6, <1>7 DEF LookupsInv
<1> QED
  BY <1>1, <1>7, <1>8, <1>10, <1>11, <1>12, <1>13, <1>14, <1>15, ArrivesKnown

LEMMA OriginFoundKnown ==
    ASSUME HooksInv, LookupsInv, OriginFound PROVE LookupsInv'
<1> DEFINE origin == page.job.check
           nft == [page.nft EXCEPT !.origin = origin]
           p == [Done("check") EXCEPT !.nft = nft]
<1>1. /\ page.job.check # None /\ raced' = (raced \/ "check" \in Due(page, wallet)) /\ excused' = excused
  BY DEF OriginFound, Late
<1>2. /\ Done("check").nft = page.nft /\ Done("check").args = page.args /\ Done("check").ran = page.ran
      /\ Done("check").job.sync = page.job.sync /\ Done("check").job.fetch = page.job.fetch
      /\ PageTyped(Done("check")) /\ JobsRan(Done("check"))
  BY DoneJobs DEF Effects
<1>3. page.nft \in Store /\ origin \in Origins
  BY <1>1 DEF HooksInv, PageTyped, Jobs
<1>4. page' = Flushed(p, page, wallet)
  BY <1>2 DEF OriginFound, Arrives
\* The selection that was looked up, when its effect has not become due since.
<1>5. page.ran.check = CheckDependencies(page, wallet) => origin = OriginOf(page.nft)
  <2> SUFFICES ASSUME page.ran.check = CheckDependencies(page, wallet) PROVE origin = OriginOf(page.nft)
    OBVIOUS
  <2>1. PICK x : \E chain \in Chains, d \in Domains :
            page.ran.check = <<chain, d, x>> /\ origin = [domain |-> d, wrapped |-> chain = "solana"]
    BY <1>1 DEF HooksInv, JobsRan, CheckRan
  <2>2. PICK chain \in Chains, d \in Domains :
            page.ran.check = <<chain, d, x>> /\ origin = [domain |-> d, wrapped |-> chain = "solana"]
    BY <2>1
  <2>3. chain = page.nft.sourceChain /\ d = page.nft.selected
    BY <2>2 DEF CheckDependencies
  <2> HIDE DEF origin
  <2> QED
    BY <2>2, <2>3 DEF OriginOf
<1> HIDE DEF origin
<1>6. /\ nft \in Store /\ nft.origin = origin
      /\ nft.activeStep = page.nft.activeStep /\ nft.sourceChain = page.nft.sourceChain
      /\ nft.selected = page.nft.selected /\ nft.targetAsset = page.nft.targetAsset
      /\ nft.targetAddress = page.nft.targetAddress
  BY <1>3 DEF Store
<1> HIDE DEF nft
<1>7. /\ PageTyped(p) /\ JobsRan(p)
      /\ p.nft = nft /\ p.args = page.args /\ p.ran = page.ran /\ p.job = Done("check").job
  BY <1>2, <1>6, StoredPage
<1> HIDE DEF p
<1>8. FlushedTo(p, page, wallet, page')
  BY <1>4, <1>6, <1>7, Flushing DEF HooksInv
<1>9. /\ Target(nft) = Target(page.nft) /\ AssetOf(nft) = AssetOf(page.nft)
      /\ OriginOf(nft) = OriginOf(page.nft)
  BY <1>6 DEF Target, AssetOf, OriginOf
<1>10. Noted(p)
  <2>1. Noted(page)
    BY DEF LookupsInv
  <2> QED
    BY <1>6, <1>7, <1>9, <2>1 DEF Noted
<1>11. /\ page.ran.check = CheckDependencies(page, wallet)
       /\ CheckStarts(page, wallet) # None
       => p.nft.origin = CheckStarts(page, wallet)
  BY <1>5, <1>6, <1>7 DEF CheckStarts, OriginOf
<1>12. /\ page.ran.fetch = FetchDependencies(page, wallet)
       /\ p.job.fetch = None
       /\ p.nft.origin = page.nft.origin
       /\ p.nft.origin # None
       /\ p.nft.origin = OriginOf(p.nft)
       /\ page.args # Args(page.nft)
       => /\ p.nft.targetAsset \in {None, AssetOf(p.nft)}
          /\ ~raced /\ ~excused => p.nft.targetAsset = AssetOf(p.nft)
  BY <1>2, <1>6, <1>7, <1>9 DEF LookupsInv, Looked, AssetFresh, Answered
<1>13. /\ page.ran.sync = SyncDependencies(page, wallet)
       /\ p.job.sync = None
       /\ page.nft.activeStep = 1
       => p.nft.targetAddress = Wanted(page.nft, wallet) \/ (p.nft.targetAddress = None /\ excused)
  BY <1>2, <1>6, <1>7 DEF LookupsInv, AddressKnown
<1>14. ASSUME ~raced', ~excused',
              page.ran.fetch = FetchDependencies(page, wallet) \/ page.args = Args(page.nft)
       PROVE  ArgsFresh(p)
  <2> SUFFICES ASSUME page.args = <<origin, Target(page.nft)>> PROVE p.nft.targetAsset = AssetOf(p.nft)
    BY <1>6, <1>7, <1>9 DEF ArgsFresh, Args
  <2>1. page.ran.check = CheckDependencies(page, wallet) /\ ~raced
    BY <1>1, <1>14, NotDue
  <2>2. origin = OriginOf(page.nft)
    BY <1>5, <2>1
  <2>3. page.nft.origin \in {None, OriginOf(page.nft)}
    BY <2>1 DEF HooksInv, Fits
  <2>4. CASE page.nft.origin = origin
    <3>1. page.args = Args(page.nft) /\ page.nft.origin # None
      BY <1>3, <2>4, HooksAssumption DEF Args
    <3>2. ArgsFresh(page)
      BY <1>1, <1>14, <2>1 DEF LookupsInv
    <3> QED
      BY <1>6, <1>7, <1>9, <3>1, <3>2 DEF ArgsFresh
  <2>5. CASE page.nft.origin = None
    <3>1. page.args # None
      <4>1. <<origin, Target(page.nft)>> = Args(nft)
        BY <1>6, <1>9 DEF Args
      <4> QED
        BY <1>6, <4>1, ArgsThere
    <3>2. page.args # Args(page.nft)
      BY <1>3, <2>5, HooksAssumption DEF Args
    <3>3. ArgsGone(page, wallet)
      BY <2>1 DEF LookupsInv
    <3> QED
      BY <1>14, <2>5, <3>1, <3>2, <3>3 DEF ArgsGone
  <2> QED
    BY <2>2, <2>3, <2>4, <2>5
<1>15. p.nft.activeStep # 0 => p.nft.selected # None
  BY <1>6, <1>7 DEF LookupsInv
<1> QED
  BY <1>1, <1>7, <1>8, <1>10, <1>11, <1>12, <1>13, <1>14, <1>15, ArrivesKnown

\* The store once a domain has been selected.
LEMMA SelectedStore ==
    ASSUME HooksInv, NEW d \in Domains, NEW nft, nft = setSourceParsedTokenAccount(d)
    PROVE  /\ nft \in Store
           /\ nft.activeStep = page.nft.activeStep /\ nft.sourceChain = page.nft.sourceChain
           /\ nft.selected = d /\ nft.selected # None
           /\ nft.origin = None /\ nft.targetAsset = None /\ nft.targetAddress = None
<1>1. page.nft \in Store /\ d # None
  BY HooksAssumption DEF HooksInv, PageTyped
<1> QED
  BY <1>1 DEF setSourceParsedTokenAccount, Store

LEMMA PickedKnown ==
    ASSUME HooksInv, LookupsInv, NEW d \in Domains, Picked(d) PROVE LookupsInv'
<1> DEFINE nft == setSourceParsedTokenAccount(d)
           p == [page EXCEPT !.nft = nft]
<1>1. /\ page' = Flushed(p, page, wallet) /\ raced' = raced
      /\ excused' = (d = page.nft.selected \/ page.nft.activeStep # 0)
  BY DEF Picked, Arrives
<1>2. /\ nft \in Store
      /\ nft.activeStep = page.nft.activeStep /\ nft.sourceChain = page.nft.sourceChain
      /\ nft.selected = d /\ nft.selected # None
      /\ nft.origin = None /\ nft.targetAsset = None /\ nft.targetAddress = None
  BY SelectedStore
<1> HIDE DEF nft
<1>3. PageTyped(p) /\ JobsRan(p) /\ p.nft = nft /\ p.args = page.args /\ p.ran = page.ran
  BY <1>2, StoredPage DEF HooksInv
<1> HIDE DEF p
<1>4. FlushedTo(p, page, wallet, page')
  BY <1>1, <1>2, <1>3, Flushing DEF HooksInv
<1>5. Noted(p) /\ ArgsFresh(p)
  BY <1>2, <1>3 DEF Noted, ArgsFresh
<1>6. page.nft.activeStep = 1 => excused'
  <2>1. page.nft.activeStep = 1 => page.nft.activeStep # 0
    OBVIOUS
  <2> QED
    BY <1>1, <2>1
<1>7. ~excused' => p.nft.selected # page.nft.selected
  BY <1>1, <1>2, <1>3
<1> QED
  BY <1>1, <1>2, <1>3, <1>4, <1>5, <1>6, <1>7, ArrivesKnown

LEMMA AssetFoundKnown ==
    ASSUME HooksInv, LookupsInv, AssetFound PROVE LookupsInv'
<1> DEFINE asset == page.job.fetch
           nft == [page.nft EXCEPT !.targetAsset = asset]
           p == [Done("fetch") EXCEPT !.nft = nft]
           first == Flushed(p, page, wallet)
           args == <<page.ran.fetch[1], page.ran.fetch[2]>>
           second == [first EXCEPT !.args = args]
<1>1. /\ page.job.fetch # None /\ raced' = (raced \/ "fetch" \in Due(page, wallet))
      /\ wallet' = wallet /\ excused' = excused
  BY DEF AssetFound, Late
<1>2. /\ Done("fetch").nft = page.nft /\ Done("fetch").args = page.args /\ Done("fetch").ran = page.ran
      /\ Done("fetch").job.sync = page.job.sync /\ Done("fetch").job.check = page.job.check
      /\ PageTyped(Done("fetch")) /\ JobsRan(Done("fetch"))
  BY DoneJobs DEF Effects
<1>3. page' = Flushed(second, first, wallet)
  BY <1>2 DEF AssetFound
<1>4. PICK x, y : \E origin \in Origins, chain \in Chains :
          origin # None /\ page.ran.fetch = <<origin, chain, x, y>> /\ asset = Sought(chain, origin)
  BY <1>1 DEF HooksInv, JobsRan, FetchRan
<1>5. PICK origin \in Origins, chain \in Chains :
          origin # None /\ page.ran.fetch = <<origin, chain, x, y>> /\ asset = Sought(chain, origin)
  BY <1>4
<1>6. args = <<origin, chain>> /\ args \in ArgsSet
  BY <1>5 DEF ArgsSet
<1>7. page.nft \in Store /\ asset \in Assets
  BY <1>1 DEF HooksInv, PageTyped, Jobs
<1> HIDE DEF asset, args
<1>8. /\ nft \in Store /\ nft.targetAsset = asset
      /\ nft.activeStep = page.nft.activeStep /\ nft.sourceChain = page.nft.sourceChain
      /\ nft.selected = page.nft.selected /\ nft.origin = page.nft.origin
      /\ nft.targetAddress = page.nft.targetAddress
  BY <1>7 DEF Store
<1> HIDE DEF nft
<1>9. /\ PageTyped(p) /\ JobsRan(p)
      /\ p.nft = nft /\ p.args = page.args /\ p.ran = page.ran /\ p.job = Done("fetch").job
  BY <1>2, <1>8, StoredPage
<1> HIDE DEF p
<1>10. FlushedTo(p, page, wallet, first) /\ JobsRan(first)
  BY <1>8, <1>9, Flushing DEF HooksInv
<1> HIDE DEF first
<1>11. /\ PageTyped(second) /\ JobsRan(second)
       /\ second.nft = first.nft /\ second.args = args /\ second.ran = first.ran /\ second.job = first.job
  BY <1>6, <1>10 DEF FlushedTo, PageTyped, JobsRan
<1> HIDE DEF second
<1>12. FlushedTo(second, first, wallet, page')
  BY <1>3, <1>10, <1>11, Flushing DEF HooksInv, FlushedTo
<1>13. /\ first.nft.activeStep = page.nft.activeStep /\ first.nft.sourceChain = page.nft.sourceChain
       /\ first.nft.selected = page.nft.selected /\ first.nft.origin = page.nft.origin
  BY <1>8, <1>9, <1>10 DEF FlushedTo
<1>14. /\ Target(first.nft) = Target(page.nft) /\ AssetOf(first.nft) = AssetOf(page.nft)
       /\ OriginOf(first.nft) = OriginOf(page.nft)
       /\ Target(nft) = Target(page.nft) /\ AssetOf(nft) = AssetOf(page.nft)
       /\ OriginOf(nft) = OriginOf(page.nft)
  BY <1>8, <1>13 DEF Target, AssetOf, OriginOf
\* What was found is the asset of the selection, if that is what was looked up.
<1>15. ASSUME page.ran.fetch = FetchDependencies(page, wallet)
       PROVE  /\ page.nft.origin = origin /\ page.nft.origin # None
              /\ page.nft.origin = OriginOf(page.nft) => asset = AssetOf(page.nft)
  <2>1. page.nft.origin = origin /\ Target(page.nft) = chain
    BY <1>5, <1>15 DEF FetchDependencies
  <2> QED
    BY <1>5, <2>1 DEF Sought, AssetOf, OriginOf, Chains
<1>16. OriginKnown(first, wallet) \/ excused
  BY <1>2, <1>8, <1>9, <1>10, OriginFlushed DEF LookupsInv, OriginKnown
<1>17. Looked(first, wallet)
  BY <1>8, <1>9, <1>14, <1>15, <1>10, AnsweredFlushed DEF Looked
<1>18. AddressKnown(first, wallet, excused)
  BY <1>2, <1>8, <1>9, <1>10, AddressFlushed DEF LookupsInv, AddressKnown
<1>19. Noted(second)
  <2> DEFINE q == [p EXCEPT !.job = [@ EXCEPT !.fetch = None]]
  <2>1. q.nft = nft
    BY <1>9 DEF PageTyped
  <2>2. FetchLeaves(q, page, wallet, first) \/ first.nft.targetAsset = asset
    BY <1>8, <1>9, <1>10 DEF FlushedTo, Leaves
  <2> HIDE DEF q
  <2>3. \/ first.nft.targetAsset \in {asset, None}
        \/ first.nft.targetAsset = [chain |-> "ethereum"] /\ Target(page.nft) = "ethereum"
    BY <1>8, <2>1, <2>2 DEF FetchLeaves
  <2>4. args[1] = origin /\ args[2] = chain
    BY <1>6
  <2> QED
    BY <1>5, <1>11, <1>14, <2>3, <2>4 DEF Noted, Sought
\* In time, the first render leaves what was found and does not look again.
<1>20. ASSUME ~raced'
       PROVE  /\ first.nft.origin # None /\ second.nft.targetAsset = AssetOf(second.nft)
  <2>1. page.ran.fetch = FetchDependencies(page, wallet) /\ ~raced
    BY <1>1, <1>20, NotDue
  <2>2. first.nft.targetAsset = asset
    BY <1>8, <1>9, <1>10, <2>1 DEF FlushedTo, Leaves
  <2>3. page.nft.origin # None /\ page.nft.origin = OriginOf(page.nft)
    BY <1>15, <2>1 DEF HooksInv, Fits
  <2> QED
    BY <1>11, <1>13, <1>14, <1>15, <2>1, <2>2, <2>3
<1>21. page'.nft.activeStep # 0 => page'.nft.selected # None
  BY <1>11, <1>12, <1>13 DEF FlushedTo, LookupsInv
<1>22. ~excused' => OriginKnown(page', wallet')
  BY <1>1, <1>11, <1>12, <1>16, OriginFlushed DEF OriginKnown
<1>23. Noted(page')
  BY <1>12, <1>19, NotedFlushed
<1>24. Looked(page', wallet')
  BY <1>11, <1>12, <1>17, AnsweredFlushed DEF Looked, Answered
<1>25. AddressKnown(page', wallet', excused')
  BY <1>1, <1>11, <1>12, <1>18, AddressFlushed DEF AddressKnown
<1>26. ~raced' => ArgsGone(page', wallet')
  BY <1>12, <1>20, ArgsGoneFlushed
<1>27. ~raced' /\ ~excused' => ArgsFresh(page') /\ AssetFresh(page', wallet')
  <2> SUFFICES ASSUME ~raced' PROVE ArgsFresh(page') /\ AssetFresh(page', wallet')
    OBVIOUS
  <2>1. ArgsFresh(page')
    BY <1>12, <1>20, ArgsFreshFlushed DEF ArgsFresh
  <2>2. AssetFresh(page', wallet')
    BY <1>12, <1>20, AnsweredFlushed DEF AssetFresh
  <2> QED
    BY <2>1, <2>2
<1> QED
  BY <1>21, <1>22, <1>23, <1>24, <1>25, <1>26, <1>27 DEF LookupsInv

\* Nothing that the invariant is about changes.
LEMMA SameKnown ==
    ASSUME LookupsInv, UNCHANGED <<page, wallet, raced, excused>> PROVE LookupsInv'
BY DEF LookupsInv, OriginKnown, CheckStarts, CheckDependencies, Noted, Looked, Answered, FetchDependencies,
       OriginOf, AssetOf, Args, Target, Sought, AddressKnown, SyncDependencies, Wanted, TokenAccount,
       ArgsGone, ArgsFresh, AssetFresh

LEMMA ChooseSourceChainKnown ==
    ASSUME HooksInv, LookupsInv, NEW chain \in Chains, ChooseSourceChain(chain) PROVE LookupsInv'
<1> DEFINE nft == initialState(chain)
<1>1. /\ Settled /\ chain # page.nft.sourceChain
      /\ page' = [page EXCEPT !.nft = nft] /\ wallet' = wallet /\ raced' = raced
  BY DEF ChooseSourceChain, UserSets, setSourceChain
<1>2. /\ nft \in Store /\ nft.activeStep = 0 /\ nft.sourceChain = chain /\ nft.selected = None
      /\ nft.origin = None /\ nft.targetAsset = None
  BY DEF initialState, Store
<1> HIDE DEF nft
<1>3. page'.nft = nft /\ page'.ran = page.ran
  BY <1>1, <1>2, StoredPage DEF HooksInv
<1>4. Target(page'.nft) # Target(page.nft)
  <2>1. page.nft \in Store
    BY DEF HooksInv, PageTyped
  <2> QED
    BY <1>1, <1>2, <1>3, <2>1, Targets DEF Target, Store, Chains
<1>5. page.ran.fetch = FetchDependencies(page, wallet)
  BY <1>1, NotDue DEF Settled
<1>6. ~(page'.ran.fetch = FetchDependencies(page', wallet'))
  BY <1>3, <1>4, <1>5, FetchSame
<1>7. OriginKnown(page', wallet')
  BY <1>2, <1>3 DEF OriginKnown, CheckStarts
<1>8. Noted(page') /\ Looked(page', wallet') /\ ArgsFresh(page') /\ AssetFresh(page', wallet')
  BY <1>2, <1>3 DEF Noted, Looked, ArgsFresh, AssetFresh, Answered
<1>9. AddressKnown(page', wallet', excused') /\ ArgsGone(page', wallet')
  BY <1>2, <1>3, <1>6 DEF AddressKnown, ArgsGone
<1> QED
  BY <1>2, <1>3, <1>7, <1>8, <1>9 DEF LookupsInv

LEMMA PickKnown ==
    ASSUME HooksInv, LookupsInv, NEW d \in Domains, Pick(d) PROVE LookupsInv'
<1>1. CASE page.nft.sourceChain = "ethereum"
  <2>1. UNCHANGED <<page, wallet, raced, excused>>
    BY <1>1 DEF Pick
  <2> QED
    BY <2>1, SameKnown
<1>2. CASE page.nft.sourceChain # "ethereum"
  <2> DEFINE nft == setSourceParsedTokenAccount(d)
  <2>1. /\ Settled /\ page' = [page EXCEPT !.nft = nft] /\ wallet' = wallet /\ raced' = raced
        /\ page.nft.activeStep = 0 /\ excused' = (d = page.nft.selected)
    BY <1>2 DEF Pick, UserSets
  <2>2. /\ nft \in Store
        /\ nft.activeStep = page.nft.activeStep /\ nft.sourceChain = page.nft.sourceChain
        /\ nft.selected = d /\ nft.selected # None
        /\ nft.origin = None /\ nft.targetAsset = None /\ nft.targetAddress = None
    BY SelectedStore
  <2> HIDE DEF nft
  <2>3. page'.nft = nft /\ page'.args = page.args /\ page'.ran = page.ran
    BY <2>1, <2>2, StoredPage DEF HooksInv
  <2>4. /\ page.ran.check = CheckDependencies(page, wallet)
        /\ page.ran.fetch = FetchDependencies(page, wallet)
    BY <2>1, NotDue DEF Settled
  <2>5. ~excused' => OriginKnown(page', wallet')
    <3> SUFFICES ASSUME ~excused', page'.ran.check = CheckDependencies(page', wallet') PROVE FALSE
      BY DEF OriginKnown
    <3>1. page'.nft.selected = page.nft.selected
      BY <2>3, <2>4, CheckSame
    <3> QED
      BY <2>1, <2>2, <2>3, <3>1
  <2>6. Noted(page') /\ Looked(page', wallet') /\ ArgsFresh(page') /\ AssetFresh(page', wallet')
    BY <2>2, <2>3 DEF Noted, Looked, ArgsFresh, AssetFresh, Answered
  <2>7. AddressKnown(page', wallet', excused')
    <3>1. page'.nft.activeStep # 1
      BY <2>1, <2>2, <2>3
    <3> QED
      BY <3>1 DEF AddressKnown
  <2>8. ~raced' => ArgsGone(page', wallet')
    <3> SUFFICES ASSUME ~raced, page'.ran.fetch = FetchDependencies(page', wallet')
                 PROVE  page'.args \in {None, Args(page'.nft)}
      BY <2>1 DEF ArgsGone
    <3>1. page.nft.origin = page'.nft.origin /\ Args(page.nft) = Args(page'.nft)
      BY <2>3, <2>4, FetchSame
    <3>2. ArgsGone(page, wallet)
      BY DEF LookupsInv
    <3> QED
      BY <2>2, <2>3, <2>4, <3>1, <3>2 DEF ArgsGone
  <2> QED
    BY <2>2, <2>3, <2>5, <2>6, <2>7, <2>8 DEF LookupsInv
<1> QED
  BY <1>1, <1>2

\* Another step: only the effect that the target step runs depends on it.
LEMMA StepKnown ==
    ASSUME HooksInv, LookupsInv, NEW step \in 0..2, UserSets([page.nft EXCEPT !.activeStep = step]),
           excused' = excused, step # 0 => page.nft.selected # None
    PROVE  LookupsInv'
<1> DEFINE nft == [page.nft EXCEPT !.activeStep = step]
<1>1. Settled /\ page' = [page EXCEPT !.nft = nft] /\ wallet' = wallet /\ raced' = raced
  BY DEF UserSets
<1>2. page.nft \in Store
  BY DEF HooksInv, PageTyped
<1>3. /\ nft \in Store /\ nft.activeStep = step
      /\ nft.sourceChain = page.nft.sourceChain /\ nft.selected = page.nft.selected
      /\ nft.origin = page.nft.origin /\ nft.targetAsset = page.nft.targetAsset
      /\ nft.targetAddress = page.nft.targetAddress
  BY <1>2 DEF Store
<1> HIDE DEF nft
<1>4. page'.nft = nft /\ page'.args = page.args /\ page'.job = page.job /\ page'.ran = page.ran
  BY <1>1, <1>3, StoredPage DEF HooksInv
<1>5. /\ Target(nft) = Target(page.nft) /\ AssetOf(nft) = AssetOf(page.nft)
      /\ OriginOf(nft) = OriginOf(page.nft) /\ Args(nft) = Args(page.nft)
  BY <1>3 DEF Target, AssetOf, OriginOf, Args
<1>6. /\ CheckDependencies(page', wallet') = CheckDependencies(page, wallet)
      /\ CheckStarts(page', wallet') = CheckStarts(page, wallet)
      /\ FetchDependencies(page', wallet') = FetchDependencies(page, wallet)
  BY <1>1, <1>3, <1>4, <1>5 DEF CheckDependencies, CheckStarts, FetchDependencies
<1>7. Answered(page', wallet') <=> Answered(page, wallet)
  BY <1>3, <1>4, <1>5, <1>6 DEF Answered
<1>8. /\ OriginKnown(page, wallet) => OriginKnown(page', wallet')
      /\ Noted(page) => Noted(page')
      /\ ArgsGone(page, wallet) => ArgsGone(page', wallet')
      /\ ArgsFresh(page) => ArgsFresh(page')
  BY <1>3, <1>4, <1>5, <1>6 DEF OriginKnown, Noted, ArgsGone, ArgsFresh
<1>9. /\ Looked(page, wallet) => Looked(page', wallet')
      /\ AssetFresh(page, wallet) => AssetFresh(page', wallet')
  BY <1>3, <1>4, <1>5, <1>7 DEF Looked, AssetFresh
<1>10. AddressKnown(page', wallet', excused')
  <2> SUFFICES ASSUME page'.ran.sync = SyncDependencies(page', wallet'), page'.job.sync = None,
                      page'.nft.activeStep = 1
               PROVE  \/ page'.nft.targetAddress = Wanted(page'.nft, wallet')
                      \/ page'.nft.targetAddress = None /\ excused'
    BY DEF AddressKnown
  <2>1. page.ran.sync = SyncDependencies(page, wallet)
    BY <1>1, NotDue DEF Settled
  <2>2. page.nft.activeStep = 1 /\ Wanted(page.nft, wallet) = Wanted(page'.nft, wallet')
    BY <1>4, <2>1, SyncSame
  <2>3. AddressKnown(page, wallet, excused)
    BY DEF LookupsInv
  <2> QED
    BY <1>3, <1>4, <2>1, <2>2, <2>3 DEF AddressKnown
<1>11. page'.nft.activeStep # 0 => page'.nft.selected # None
  BY <1>3, <1>4
<1> QED
  BY <1>1, <1>8, <1>9, <1>10, <1>11 DEF LookupsInv

LEMMA ClickNextKnown ==
    ASSUME HooksInv, LookupsInv, ClickNext PROVE LookupsInv'
<1>1. page.nft.activeStep \in 0..2 /\ page.nft.activeStep < 2
  BY DEF HooksInv, PageTyped, Store, ClickNext
<1>2. [page.nft EXCEPT !.activeStep = @ + 1] = [page.nft EXCEPT !.activeStep = page.nft.activeStep + 1]
  OBVIOUS
<1>3. page.nft.activeStep + 1 \in 0..2
  BY <1>1
<1>4. page.nft.selected # None
  BY DEF ClickNext, LookupsInv
<1> QED
  BY <1>2, <1>3, <1>4, StepKnown DEF ClickNext

LEMMA ClickStepKnown ==
    ASSUME HooksInv, LookupsInv, NEW step \in 0..1, ClickStep(step) PROVE LookupsInv'
<1>1. page.nft.activeStep \in 0..2 /\ step < page.nft.activeStep
  BY DEF HooksInv, PageTyped, Store, ClickStep
<1>2. page.nft.selected # None
  BY <1>1 DEF LookupsInv
<1> QED
  BY <1>2, StepKnown DEF ClickStep

----------------------------------------------------------------------------

\* The invariant of the lookups holds in every behaviour.
THEOREM LookupsCorrect == Spec => [](HooksInv /\ LookupsInv)
<1>1. Init => LookupsInv
  <2> SUFFICES ASSUME Init PROVE LookupsInv
    OBVIOUS
  <2> DEFINE nothing == [sync |-> None, check |-> None, fetch |-> None]
  <2>1. PICK chain \in Chains :
            page = [nft |-> initialState(chain), args |-> None, job |-> nothing, ran |-> nothing]
    BY DEF Init
  <2>2. /\ page.args = None /\ page.nft.activeStep = 0 /\ page.nft.selected = None
        /\ page.nft.origin = None /\ page.nft.targetAsset = None
    BY <2>1 DEF initialState
  <2> QED
    BY <2>2 DEF LookupsInv, OriginKnown, CheckStarts, Noted, Looked, Answered, AddressKnown, ArgsGone, ArgsFresh, AssetFresh
<1>2. HooksInv /\ LookupsInv /\ [Next]_vars => LookupsInv'
  <2> SUFFICES ASSUME HooksInv, LookupsInv, [Next]_vars PROVE LookupsInv'
    OBVIOUS
  <2>1. CASE Flush
    BY <2>1, FlushKnown
  <2>2. CASE \E chain \in Chains : ChooseSourceChain(chain)
    BY <2>2, ChooseSourceChainKnown
  <2>3. CASE \E d \in Domains : Pick(d) \/ Picked(d) \/ PickFails(d)
    <3>1. ASSUME NEW d \in Domains, PickFails(d) PROVE LookupsInv'
      BY <3>1, SameKnown DEF PickFails
    <3> QED
      BY <2>3, <3>1, PickKnown, PickedKnown
  <2>4. CASE ClickNext \/ \E step \in 0..1 : ClickStep(step)
    BY <2>4, ClickNextKnown, ClickStepKnown
  <2>5. CASE \E chain \in Chains : \E account \in Accounts[chain] \cup {None} : WalletChanges(chain, account)
    BY <2>5, WalletChangesKnown
  <2>6. CASE Answers
    BY <2>6, OriginFoundKnown, AssetFoundKnown, AddressFoundKnown DEF Answers
  <2>7. CASE \E e \in {"check", "fetch"} : LookupFails(e)
    BY <2>7, LookupFailsKnown
  <2>8. CASE UNCHANGED vars
    BY <2>8, SameKnown DEF vars
  <2> QED
    BY <2>1, <2>2, <2>3, <2>4, <2>5, <2>6, <2>7, <2>8 DEF Next
<1> QED
  BY <1>1, <1>2, HooksCorrect, PTL DEF Spec

\* What AtRest says of each effect.
LEMMA Rested ==
    ASSUME AtRest
    PROVE  /\ page.ran.sync = SyncDependencies(page, wallet)
           /\ page.ran.check = CheckDependencies(page, wallet)
           /\ page.ran.fetch = FetchDependencies(page, wallet)
           /\ page.job.sync = None /\ page.job.check = None /\ page.job.fetch = None
<1>1. page.job["sync"] = None /\ page.job["check"] = None /\ page.job["fetch"] = None
  BY DEF AtRest, Effects
<1> QED
  BY <1>1, NotDue DEF AtRest, Settled

\* The lookup of the origin was made and answered.
LEMMA OriginAtRest ==
    ASSUME HooksInv, LookupsInv, AtRest, page.nft.selected # None, ~Unanswered
    PROVE  page.nft.origin = OriginOf(page.nft) /\ page.nft.origin # None
<1>1. page.nft \in Store /\ page.nft.selected \in Domains
  BY DEF HooksInv, PageTyped, Store
<1>2. page.nft.sourceChain = "ethereum" => wallet["ethereum"] # None
  BY DEF Unanswered
<1>3. CheckStarts(page, wallet) = OriginOf(page.nft)
  BY <1>2 DEF CheckStarts, OriginOf
<1>4. OriginOf(page.nft) \in Origins
  <2> DEFINE wrapped == page.nft.sourceChain = "solana"
  <2>1. wrapped \in BOOLEAN
    OBVIOUS
  <2>2. OriginOf(page.nft) = [domain |-> page.nft.selected, wrapped |-> wrapped]
    BY DEF OriginOf
  <2> HIDE DEF wrapped
  <2> QED
    BY <1>1, <2>1, <2>2 DEF Origins
<1>5. OriginOf(page.nft) # None
  BY <1>4, HooksAssumption
<1>6. OriginKnown(page, wallet)
  BY DEF LookupsInv, Unanswered
<1> QED
  BY <1>3, <1>5, <1>6, Rested DEF OriginKnown

\* The asset sought for the origin of the selection is that of the selection.
LEMMA SoughtAsset ==
    ASSUME NEW nft \in Store, nft.origin = OriginOf(nft)
    PROVE  Sought(Target(nft), nft.origin) = AssetOf(nft)
BY TargetOf DEF Sought, AssetOf, OriginOf, Chains

LEMMA RestLookedUp ==
    ASSUME HooksInv, LookupsInv PROVE LookedUp
<1> SUFFICES ASSUME AtRest, page.nft.selected # None, ~(raced /\ Unanswered)
             PROVE  /\ page.nft.origin \in {None, OriginOf(page.nft)}
                    /\ page.nft.targetAsset \in {None, AssetOf(page.nft)}
  BY DEF LookedUp, OriginOf
<1>1. CASE ~raced
  BY <1>1 DEF HooksInv, Fits
<1>2. CASE ~Unanswered
  <2>1. page.nft.origin = OriginOf(page.nft) /\ page.nft.origin # None /\ page.nft \in Store
    BY <1>2, OriginAtRest DEF HooksInv, PageTyped
  <2>2. CASE page.args # Args(page.nft)
    BY <2>1, <2>2, Rested DEF LookupsInv, Looked, Answered
  <2>3. CASE page.args = Args(page.nft)
    <3>1. page.args # None
      BY <2>1, <2>3, ArgsThere
    <3>2. page.args[1] = page.nft.origin /\ page.args[2] = Target(page.nft)
      BY <2>3 DEF Args
    <3> QED
      BY <2>1, <3>1, <3>2, SoughtAsset DEF LookupsInv, Noted
  <2> QED
    BY <2>1, <2>2, <2>3
<1> QED
  BY <1>1, <1>2

\* Once all effects have run and all lookups have ended, the origin and the asset are
\* those of the selection.
THEOREM LookedUpAlways == Spec => []LookedUp
<1>1. HooksInv /\ LookupsInv => LookedUp
  BY RestLookedUp
<1> QED
  BY <1>1, LookupsCorrect, PTL

\* On the target step the address is then that of the selected domain in the wallet
\* that is connected.
THEOREM AddressAtRestAlways == Spec => []AddressAtRest
<1>1. HooksInv /\ LookupsInv => LookedUp
  BY RestLookedUp
<1>2. HooksInv /\ LookupsInv /\ LookedUp => AddressAtRest
  <2> SUFFICES ASSUME HooksInv, LookupsInv, LookedUp, AtRest, page.nft.activeStep = 1, ~(raced /\ Unanswered)
               PROVE  \/ page.nft.targetAddress = AddressOf(page.nft)
                      \/ page.nft.targetAddress = None /\ (Unanswered \/ raced)
    BY DEF AddressAtRest
  <2>1. page.nft.selected # None /\ page.nft \in Store
    BY DEF LookupsInv, HooksInv, PageTyped
  <2>2. page.nft.targetAsset \in {None, AssetOf(page.nft)}
    BY <2>1 DEF LookedUp
  <2>3. page.nft.targetAddress = Wanted(page.nft, wallet) \/ (page.nft.targetAddress = None /\ excused)
    BY Rested DEF LookupsInv, AddressKnown
  <2>4. CASE page.nft.targetAddress = None /\ excused
    BY <2>4 DEF Unanswered
  <2>5. CASE page.nft.targetAddress = Wanted(page.nft, wallet) /\ Target(page.nft) = "ethereum"
    BY <2>5 DEF Wanted, AddressOf
  <2>6. CASE page.nft.targetAddress = Wanted(page.nft, wallet) /\ Target(page.nft) = "solana"
    <3>1. CASE wallet["solana"] = None
      BY <2>6, <3>1 DEF Wanted, AddressOf
    <3>2. CASE wallet["solana"] # None /\ page.nft.targetAsset # None
      <4>1. page.nft.targetAsset = [chain |-> "solana", domain |-> page.nft.selected]
        BY <2>2, <2>6, <3>2 DEF AssetOf
      <4> QED
        BY <2>6, <3>2, <4>1 DEF Wanted, AddressOf, TokenAccount
    <3>3. CASE page.nft.targetAsset = None
      <4>1. page.nft.targetAddress = None
        BY <2>6, <3>3 DEF Wanted
      <4>2. ~raced /\ ~Unanswered => page.nft.targetAsset = AssetOf(page.nft)
        <5> SUFFICES ASSUME ~raced, ~Unanswered PROVE page.nft.targetAsset = AssetOf(page.nft)
          OBVIOUS
        <5>1. page.nft.origin = OriginOf(page.nft) /\ page.nft.origin # None
          BY <2>1, OriginAtRest
        <5>2. ArgsFresh(page) /\ AssetFresh(page, wallet)
          BY DEF LookupsInv, Unanswered
        <5> QED
          BY <5>1, <5>2, Rested DEF ArgsFresh, AssetFresh, Answered
      <4>3. AssetOf(page.nft) # None
        <5>1. AssetOf(page.nft) \in Assets
          BY <2>1 DEF AssetOf, Assets, Store
        <5> QED
          BY <5>1, HooksAssumption
      <4> QED
        BY <3>3, <4>1, <4>2, <4>3
    <3> QED
      BY <3>1, <3>2, <3>3
  <2> QED
    BY <2>1, <2>3, <2>4, <2>5, <2>6, TargetOf DEF Chains
<1> QED
  BY <1>1, <1>2, LookupsCorrect, PTL
=============================================================================
