------------------------------- MODULE Wallet -------------------------------
(***************************************************************************)
(* The page "My Wallet" (pages/Wallet.jsx): balance, transaction history   *)
(* and top-up.  Balance and history are abstracted to the number of        *)
(* transactions booked when they were read, so that older and newer ones   *)
(* compare.  The page loads when it is opened and after each top-up it     *)
(* was answered, never by itself.                                          *)
(***************************************************************************)
EXTENDS Client

CONSTANTS Amount, ValidAmount   \* what may be typed; what parseFloat finds above 0

ASSUME WalletAssumption == ValidAmount \subseteq Amount /\ None \notin Nat

VARIABLES
    ledger,         \* the server: transactions booked on the wallet
    balance,        \* the page: the ledger the balance shown was read from
    transactions,   \* the page: the ledger the history shown was read from
    topping,        \* loading: the buttons are disabled
    credited,       \* history: the last ledger a top-up was reported for
    mixedLoads,     \* history: a top-up was clicked before a load was answered
    failedRead      \* history: a read failed since the page was opened

walletVars == <<ledger, balance, transactions, topping, credited, mixedLoads, failedRead>>
walletView == <<balance, transactions, topping, credited, mixedLoads, failedRead>>

Reads == {"balance", "transactions"}

WalletInit ==
    /\ ledger = 0
    /\ balance = None
    /\ transactions = 0
    /\ topping = FALSE
    /\ credited = 0
    /\ mixedLoads = FALSE
    /\ failedRead = FALSE

\* The card shows a dash before the first answer; an empty history says so.
WalletScreen ==
    [balance |-> IF balance = None THEN "-" ELSE "amount",
     history |-> IF transactions = 0 THEN "No transactions yet" ELSE "rows"]

TopUpOffered == ~topping

OpenWallet ==
    /\ ~mounted /\ mounted' = TRUE
    /\ Spend
    /\ Room /\ SendAll(Fresh, "wallet", Reads)
    /\ UNCHANGED walletVars

\* The fields start again from their first values when it is next opened.
LeaveWallet ==
    /\ Unmount
    /\ balance' = None
    /\ transactions' = 0
    /\ topping' = FALSE
    /\ credited' = 0
    /\ mixedLoads' = FALSE
    /\ failedRead' = FALSE
    /\ UNCHANGED ledger

\* The server answers one of the two reads, or that read fails.
ServeRead(c, r) ==
    /\ Fulfil(c, "wallet", r, ledger)
    /\ UNCHANGED <<moves, mounted, walletVars>>

FailRead(c, r) ==
    /\ Drop(c, "wallet", r)
    /\ failedRead' = TRUE
    /\ UNCHANGED <<moves, mounted, ledger, balance, transactions, topping, credited, mixedLoads>>

\* Both reads are settled: what was fulfilled is shown.
fetchData(c) ==
    /\ Settled(c, "wallet")
    /\ balance' = Brought(c, "balance", balance)
    /\ transactions' = Brought(c, "transactions", transactions)
    /\ Take(c)
    /\ UNCHANGED <<moves, mounted, ledger, topping, credited, mixedLoads, failedRead>>

\* Mutant of handleTopUp: adds the amount to the balance when it is clicked.
MutantHandleTopUp(amount) ==
    /\ mounted /\ TopUpOffered /\ amount \in ValidAmount
    /\ Spend
    /\ Send("topup", None)
    /\ balance' = IF balance = None THEN None ELSE balance + 1
    /\ topping' = TRUE
    /\ mixedLoads' = (mixedLoads \/ Awaits("wallet"))
    /\ UNCHANGED <<mounted, ledger, transactions, credited, failedRead>>

\* A quick amount or the typed one; an invalid amount sends nothing.
handleTopUp(amount) ==
    /\ mounted
    /\ TopUpOffered
    /\ amount \in ValidAmount
    /\ Spend
    /\ Send("topup", None)
    /\ topping' = TRUE
    /\ mixedLoads' = (mixedLoads \/ Awaits("wallet"))
    /\ UNCHANGED <<mounted, ledger, balance, transactions, credited, failedRead>>

\* Mutant of ToppedUp: does not load again.
MutantToppedUp(c) ==
    /\ Answered(c, "topup")
    /\ Take(c)
    /\ balance' = wire[c].answer.new_balance
    /\ credited' = wire[c].answer.new_balance
    /\ topping' = FALSE
    /\ UNCHANGED <<moves, mounted, ledger, transactions, mixedLoads, failedRead>>

\* new_balance is shown, fetchData starts and is not awaited: the buttons
\* are enabled again while it is under way.
ToppedUp(c) ==
    /\ Answered(c, "topup")
    /\ balance' = wire[c].answer.new_balance
    /\ credited' = wire[c].answer.new_balance
    /\ topping' = FALSE
    /\ SendAll(c, "wallet", Reads)
    /\ UNCHANGED <<moves, mounted, ledger, transactions, mixedLoads, failedRead>>

TopUpFailed(c) ==
    /\ Rejected(c, "topup")
    /\ topping' = FALSE
    /\ UNCHANGED <<moves, mounted, ledger, balance, transactions, credited,
                   mixedLoads, failedRead>>

\* POST /wallet/add: one transaction, answered with the balance after it.
ServeTopUp(c) ==
    /\ Sent(c, "topup")
    /\ ledger' = ledger + 1
    /\ Reply(c, "answered", [new_balance |-> ledger + 1])
    /\ UNCHANGED <<moves, mounted, walletView>>

\* The exit gate charges a session, an administrator credits the wallet.
BookedByOthers ==
    /\ ledger' = ledger + 1
    /\ Spend
    /\ UNCHANGED <<wire, mounted, walletView>>

WalletAnswer(c) == fetchData(c) \/ ToppedUp(c) \/ TopUpFailed(c)
WalletServe(c) == ServeTopUp(c) \/ \E r \in Reads : ServeRead(c, r)

WalletNext ==
    \/ OpenWallet
    \/ LeaveWallet
    \/ BookedByOthers
    \/ \E amount \in Amount : handleTopUp(amount)
    \/ \E c \in Call : \/ WalletAnswer(c) \/ WalletServe(c)
                       \/ \E r \in Reads : FailRead(c, r)

WalletTypeOK ==
    /\ ledger \in Nat
    /\ balance \in Nat \cup {None}
    /\ transactions \in Nat
    /\ credited \in Nat
    /\ {topping, mixedLoads, failedRead} \subseteq BOOLEAN

(***************************************************************************)
(* The page shows nothing the server did not book: neither amount is ahead *)
(* of the ledger (a top-up is shown from its answer, not when clicked).    *)
(***************************************************************************)
NothingInvented ==
    /\ balance # None => balance <= ledger
    /\ transactions <= ledger

(***************************************************************************)
(* When no answer is outstanding the balance and the history include the   *)
(* user's own last top-up, unless that top-up was clicked while an earlier *)
(* load was under way (whose older answer may arrive last and stays, as    *)
(* the page does not poll) or a read failed.                               *)
(***************************************************************************)
OwnTopUpShown ==
    mounted /\ Quiet /\ credited > 0 /\ ~mixedLoads /\ ~failedRead
        => /\ balance >= credited /\ transactions >= credited
           /\ WalletScreen = [balance |-> "amount", history |-> "rows"]
=============================================================================
