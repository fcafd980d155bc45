--------------------------- MODULE SourceAccounts ---------------------------
(***************************************************************************)
(* The list of tokens on the first step of the domain page, and what is    *)
(* selected from it. Three effects of the selector keep the list           *)
(* (useGetSourceParsedTokenAccounts): one starts over when the selection   *)
(* was made with another wallet, one loads the list of the Solana wallet,  *)
(* one that of the Ethereum wallet. Only the last cancels what it waits    *)
(* for; the selector keeps its answer as long as it is shown.              *)
(*                                                                         *)
(* Effects run as in AssetHooks: after a render in which a dependency has  *)
(* changed, with what was rendered, at the latest before the next render   *)
(* or the next event of the user.                                          *)
(***************************************************************************)
EXTENDS Naturals

CONSTANTS
    EthAccounts, SolAccounts,  \* accounts of the user, in the wallets of both chains
    MaxLoads,  \* bound: lists of one Solana account that are on their way
    None

Accounts == [ethereum |-> EthAccounts, solana |-> SolAccounts]

VARIABLES
    page,    \* what the page holds: the store, the state of the selector and its effects
    loads,   \* loads[s]: Solana lists of account s that are on their way
    wallet,  \* wallet[chain]: the connected account, or None
    picking, \* Ethereum accounts for which a pick is being looked at
    excused  \* history: the Ethereum list was loaded before, or failed to load

vars == <<page, loads, wallet, picking, excused>>

Chains == {"ethereum", "solana"}

Wallets == EthAccounts \cup SolAccounts

Effects == {"wallet", "solana", "ethereum"}

\* sourceParsedTokenAccounts: with data, it is the list of one account.
Lists == [status : {"empty", "fetching", "failed"}, of : {None}] \cup [status : {"received"}, of : Wallets]

Empty == [status |-> "empty", of |-> None]
Fetching == [status |-> "fetching", of |-> None]
Failed == [status |-> "failed", of |-> None]

\* Faulty variant of Received: the data wrapper says that it is still fetching.
ReceivedFetching(account) == [status |-> "fetching", of |-> account]

\* receiveDataWrapper
Received(account) == [status |-> "received", of |-> account]

\* The values of the dependencies of the effects.
Rendered ==
    [wallet : (Wallets \cup {None}) \X (Wallets \cup {None}),
     solana : Chains \X (SolAccounts \cup {None}) \X Lists,
     ethereum : Chains \X (EthAccounts \cup {None}) \X BOOLEAN]

\* selected is the account that the selected token was picked with, and covalent says
\* that the selector keeps an Ethereum list; loading is what the Ethereum effect waits
\* for, and ran what the effects have last run with, or None: the selector is not there.
Page ==
    [left : BOOLEAN, sourceChain : Chains, selected : Wallets \cup {None},
     sourceWallet : Wallets \cup {None}, list : Lists, covalent : BOOLEAN,
     loading : EthAccounts \cup {None}, ran : Rendered \cup {None}]

ASSUME AccountsAssumption ==
    /\ None \notin Wallets \cup Rendered
    /\ EthAccounts \cap SolAccounts = {}
    /\ MaxLoads \in Nat \ {0}

Current(p, w) == w[p.sourceChain]

\* The selector is shown on its step, with a wallet or a selection.
Shown(p, w) == ~p.left /\ (Current(p, w) # None \/ p.selected # None)

Dependencies(p, w) ==
    [wallet |-> <<p.sourceWallet, Current(p, w)>>,
     solana |-> <<p.sourceChain, w["solana"], p.list>>,
     ethereum |-> <<p.sourceChain, w["ethereum"], p.covalent>>]

\* When the selector goes, so does what it keeps.
Due(p, w) ==
    IF ~Shown(p, w) THEN IF p.ran = None THEN {} ELSE Effects
    ELSE IF p.ran = None THEN Effects
    ELSE IF p.ran = Dependencies(p, w) THEN {}
    ELSE {e \in Effects : Dependencies(p, w)[e] # p.ran[e]}

Settled == Due(page, wallet) = {}

----------------------------------------------------------------------------

setSourceChain(p, chain) ==
    [p EXCEPT !.sourceChain = chain, !.selected = None, !.list = Empty]

\* Faulty variant of resetSourceAccounts: the selector keeps the Ethereum list.
resetSourceAccountsOfStore(p) ==
    [p EXCEPT !.selected = None, !.sourceWallet = None, !.list = Empty]

resetSourceAccounts(p) ==
    [p EXCEPT !.selected = None, !.sourceWallet = None, !.list = Empty, !.covalent = FALSE]

\* Faulty variant of Switched: not when the selection was made on the other chain.
SwitchedOnChain(p, w) ==
    /\ p.sourceWallet \in Accounts[p.sourceChain]
    /\ Current(p, w) \notin {None, p.sourceWallet}

\* The selection was made with another wallet than the one that is connected.
Switched(p, w) == p.sourceWallet # None /\ Current(p, w) \notin {None, p.sourceWallet}

LoadsSolana(p, w) == p.sourceChain = "solana" /\ w["solana"] # None /\ p.list.status = "empty"

LoadsEthereum(p, w) == p.sourceChain = "ethereum" /\ w["ethereum"] # None /\ ~p.covalent

\* The cleanups of the effects that are due.
Cleanup(p, due) == IF "ethereum" \in due THEN [p EXCEPT !.loading = None] ELSE p

\* Flushing: p is what the page holds, seen what was rendered. The effects that are due
\* start what they load.
Flushed(p, seen, w, due) ==
    LET clean == [Cleanup(p, due) EXCEPT !.ran = Dependencies(seen, w)]
        first == IF "wallet" \in due /\ Switched(seen, w) THEN resetSourceAccounts(clean) ELSE clean
        second == IF "solana" \in due /\ LoadsSolana(seen, w) THEN [first EXCEPT !.list = Fetching] ELSE first
    IN
    IF due = {} THEN p
    ELSE IF ~Shown(seen, w) THEN [Cleanup(p, due) EXCEPT !.ran = None, !.covalent = FALSE]
    ELSE IF "ethereum" \in due /\ LoadsEthereum(seen, w)
      THEN [second EXCEPT !.list = Fetching, !.loading = w["ethereum"]]
      ELSE second

\* The Solana list that an effect which is due starts to load, if any.
Started(seen, w, due) ==
    IF LoadsSolana(seen, w) /\ Shown(seen, w) /\ "solana" \in due THEN {w["solana"]} ELSE {}

\* The Ethereum list is loaded once more.
Restarted(seen, w, due) == LoadsEthereum(seen, w) /\ Shown(seen, w) /\ "ethereum" \in due

----------------------------------------------------------------------------

Init ==
    /\ \E chain \in Chains :
          page = [left |-> FALSE, sourceChain |-> chain, selected |-> None, sourceWallet |-> None,
                  list |-> Empty, covalent |-> FALSE, loading |-> None, ran |-> None]
    /\ loads = [s \in SolAccounts |-> 0]
    /\ wallet = [chain \in Chains |-> None]
    /\ picking = {}
    /\ excused = FALSE

Loading(before, started, answered) ==
    [s \in SolAccounts |->
        before[s] + (IF s \in started THEN 1 ELSE 0) - (IF s \in answered THEN 1 ELSE 0)]

\* The update p of the page is rendered; the effects of the render before ran first.
Arrives(p, answered) ==
    \E due \in {Due(page, wallet)} :
        /\ page' = Flushed(p, page, wallet, due)
        /\ loads' = Loading(loads, Started(page, wallet, due), answered)
        /\ excused' = (excused /\ ~Restarted(page, wallet, due))

\* The page does something else, and the effects that are due run.
Flush ==
    /\ ~Settled
    /\ Arrives(page, {})
    /\ UNCHANGED <<wallet, picking>>

Few == \A s \in SolAccounts : loads[s] < MaxLoads

\* An event of the user: React runs the effects before.
UserSets(p) ==
    /\ Settled
    /\ Few
    /\ page' = p
    /\ UNCHANGED <<loads, wallet, picking>>

ChooseSourceChain(chain) ==
    /\ ~page.left
    /\ chain # page.sourceChain
    /\ UserSets(setSourceChain(page, chain))
    /\ excused' = (chain = "ethereum" /\ page.covalent)

\* The button "Reload tokens".
Refresh ==
    /\ Shown(page, wallet)
    /\ UserSets(resetSourceAccounts(page))
    /\ UNCHANGED excused

\* A token of the list is picked. On Ethereum the picker looks at it once more first;
\* it finds none that is on the list of a Solana wallet.
Pick ==
    /\ Shown(page, wallet)
    /\ page.list.status = "received"
    /\ Current(page, wallet) # None
    /\ IF page.sourceChain = "ethereum"
         THEN /\ page.list.of \in EthAccounts
              /\ Settled
              /\ picking' = picking \cup {wallet["ethereum"]}
              /\ UNCHANGED <<page, loads, wallet>>
         ELSE UserSets([page EXCEPT !.selected = wallet["solana"], !.sourceWallet = wallet["solana"]])
    /\ UNCHANGED excused

\* The pick becomes the selection, whatever the page shows by then: two dispatches,
\* each with a render.
Picked(e) ==
    /\ e \in picking
    /\ Few
    /\ picking' = picking \ {e}
    /\ \E due \in {Due(page, wallet)} :
       \E first \in {Flushed([page EXCEPT !.selected = e], page, wallet, due)} :
       \E next \in {Due(first, wallet)} :
          /\ page' = Flushed([first EXCEPT !.sourceWallet = e], first, wallet, next)
          /\ loads' = Loading(Loading(loads, Started(page, wallet, due), {}), Started(first, wallet, next), {})
          /\ excused' = (excused /\ ~Restarted(page, wallet, due) /\ ~Restarted(first, wallet, next))
    /\ UNCHANGED wallet

PickFails(e) ==
    /\ e \in picking
    /\ picking' = picking \ {e}
    /\ UNCHANGED <<page, loads, wallet, excused>>

\* Next, and the header of the first step.
Leave ==
    /\ ~page.left
    /\ page.selected # None
    /\ UserSets([page EXCEPT !.left = TRUE])
    /\ UNCHANGED excused

Return ==
    /\ page.left
    /\ UserSets([page EXCEPT !.left = FALSE])
    /\ UNCHANGED excused

\* A wallet connects, disconnects, or shows another account. The list stays if nothing
\* was selected with yet another one.
WalletChanges(chain, account) ==
    /\ account # wallet[chain]
    /\ Few
    /\ wallet' = [wallet EXCEPT ![chain] = account]
    /\ Arrives(page, {})
    /\ UNCHANGED picking

\* getSolanaParsedTokenAccounts: the answer is taken, whatever the page shows by then.
SolanaAnswers(s, list) ==
    /\ loads[s] > 0
    /\ Arrives([page EXCEPT !.list = list], {s})
    /\ UNCHANGED <<wallet, picking>>

\* The first update of the local state runs the effects that are due, so that what they
\* cancel is not taken.
EthereumAnswers ==
    /\ Settled
    /\ page.loading # None
    /\ \E kept \in {[page EXCEPT !.covalent = TRUE]} :
       \E due \in {Due(kept, wallet)} :
          page' = Flushed([kept EXCEPT !.list = Received(page.loading)], kept, wallet, due)
    /\ UNCHANGED <<loads, wallet, picking, excused>>

\* A failure goes to the store first.
EthereumFails ==
    /\ page.loading # None
    /\ \E due \in {Due(page, wallet)} :
          page' = Flushed([page EXCEPT !.list = Failed, !.loading = None], page, wallet, due)
    /\ loads' = Loading(loads, Started(page, wallet, Due(page, wallet)), {})
    /\ excused' = ~Restarted(page, wallet, Due(page, wallet))
    /\ UNCHANGED <<wallet, picking>>

Answers ==
    \/ \E s \in SolAccounts : SolanaAnswers(s, Received(s)) \/ SolanaAnswers(s, Failed)
    \/ EthereumAnswers
    \/ EthereumFails

Next ==
    \/ Flush
    \/ \E chain \in Chains : ChooseSourceChain(chain)
    \/ Refresh
    \/ Pick
    \/ \E e \in EthAccounts : Picked(e) \/ PickFails(e)
    \/ Leave
    \/ Return
    \/ \E chain \in Chains : \E account \in Accounts[chain] \cup {None} : WalletChanges(chain, account)
    \/ Answers

Spec == Init /\ [][Next]_vars

\* React runs the effects that are due. What is loaded is answered in the end, also if
\* the user goes on, and not always between a render and its effects.
Fairness == WF_vars(Flush) /\ SF_vars(Settled /\ Answers)

FairSpec == Spec /\ Fairness

----------------------------------------------------------------------------

TypeOK ==
    /\ page \in Page
    /\ loads \in [SolAccounts -> Nat]
    /\ wallet \in [Chains -> Wallets \cup {None}]
    /\ \A chain \in Chains : wallet[chain] \in Accounts[chain] \cup {None}
    /\ picking \subseteq EthAccounts
    /\ excused \in BOOLEAN

\* A selector with a wallet.
Connected == Shown(page, wallet) /\ Current(page, wallet) # None

\* Once the effects have run, what is selected was picked with the account that is
\* connected now: a pick that was answered after the chain, the wallet or the step had
\* changed does not stay (useGetSourceParsedTokenAccounts.ts:517-532,
\* SourceTokenSelector.tsx:55-71).
SelectedWithWallet ==
    Settled /\ Connected /\ page.selected # None =>
        page.selected = Current(page, wallet) /\ page.sourceWallet = page.selected

\* The wallet effect has run for another account than before.
AccountChanged ==
    /\ page.ran # None /\ page'.ran # None
    /\ page.ran.wallet[2] # None
    /\ page'.ran.wallet[2] \notin {None, page.ran.wallet[2]}

\* The list is reset when the account changes, as the comment of the wallet effect says
\* (useGetSourceParsedTokenAccounts.ts:515-516). The effect does this only if something
\* was selected with another account (:517-522).
ListResetOnChange ==
    [][AccountChanged /\ page.list.status = "received" => page'.list # page.list]_vars

\* The list of an account that stays connected comes or shows an error, while the
\* selector is shown.
\* The exceptions are on Ethereum: when the chain is chosen again while the selector
\* keeps the list of before, and when the list is reloaded after it has failed to load,
\* nothing loads it (useGetSourceParsedTokenAccounts.ts:645, :714).
ListComes ==
    \A account \in Wallets :
        Connected /\ Current(page, wallet) = account ~>
            \/ ~(Connected /\ Current(page, wallet) = account)
            \/ page.list.status \in {"received", "failed"}
            \/ excused
=============================================================================
