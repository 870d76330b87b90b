--------------------------- MODULE TransactionsTab ---------------------------
(***************************************************************************)
(* The tab "Transactions" of the admin panel: one page of the transactions *)
(* that match a filter.  Every change of the filter goes back to page 1;   *)
(* every change of the filter or the page loads anew, with the controls    *)
(* of the filter enabled meanwhile and those of the page hidden until some *)
(* load has ended.  Five filters of the form are abstracted to one.        *)
(***************************************************************************)
EXTENDS Client, PageBar

CONSTANTS
    Filter, AllTxns,   \* the filters; the one that is cleared
    PageLimit,         \* rows per page
    MaxTxns            \* bound: transactions that match a filter

ASSUME TransactionsAssumption ==
    AllTxns \in Filter /\ PageLimit \in Nat \ {0} /\ MaxTxns \in Nat

VARIABLES
    matching,      \* the server: how many transactions match each filter
    deleted,       \* history: transactions went with a deleted user
    txns,          \* the filter and page the rows shown belong to
    total,         \* the total of that answer
    pageNo,
    txnFilter,
    txnLoading,
    selected,      \* the details of a row lie over the page
    strayFetch     \* history: loads overlapped or one failed

txnsVars == <<matching, deleted, txns, total, pageNo, txnFilter, txnLoading, selected, strayFetch>>
txnsView == <<txns, total, pageNo, txnFilter, txnLoading, selected, strayFetch>>

NoTxns == [filter |-> AllTxns, page |-> 1, rows |-> 0]

TransactionsInit ==
    /\ matching \in [Filter -> {0, MaxTxns}]
    /\ \A f \in Filter : matching[f] <= matching[AllTxns]
    /\ deleted = FALSE
    /\ txns = NoTxns
    /\ total = 0
    /\ pageNo = 1
    /\ txnFilter = AllTxns
    /\ txnLoading = TRUE
    /\ selected = FALSE
    /\ strayFetch = FALSE

totalPages == TotalPages(total, PageLimit)

\* The skeleton, the empty table, or rows with their Details buttons.
TransactionTable ==
    IF txnLoading THEN "skeleton"
    ELSE IF txns.rows = 0 THEN "No transactions found" ELSE "rows"

\* Mutant of PagesOffered: Previous and Next are always enabled.
MutantPagesOffered ==
    IF txnLoading \/ totalPages <= 1 THEN {}
    ELSE PageNumbers(pageNo, totalPages).numbers \cup {pageNo - 1, pageNo + 1}

\* Previous, the numbers of the bar, and Next: hidden while a load is under
\* way and when all fits on one page.
PagesOffered ==
    IF txnLoading \/ totalPages <= 1 THEN {}
    ELSE PageNumbers(pageNo, totalPages).numbers
           \cup (IF pageNo = 1 THEN {} ELSE {pageNo - 1})
           \cup (IF pageNo = totalPages THEN {} ELSE {pageNo + 1})

fetchTxns(f, p) ==
    /\ Send("transactions", [filter |-> f, page |-> p])
    /\ txnLoading' = TRUE
    /\ strayFetch' = (strayFetch \/ Awaits("transactions"))

OpenTransactions ==
    /\ ~mounted /\ mounted' = TRUE
    /\ Spend
    /\ Send("transactions", [filter |-> AllTxns, page |-> 1])
    /\ UNCHANGED txnsVars

\* The fields start again from their first values when it is next opened.
LeaveTransactions ==
    /\ Unmount
    /\ txns' = NoTxns
    /\ total' = 0
    /\ pageNo' = 1
    /\ txnFilter' = AllTxns
    /\ txnLoading' = TRUE
    /\ selected' = FALSE
    /\ strayFetch' = FALSE
    /\ deleted' = FALSE
    /\ UNCHANGED matching

\* Mutant of resetPage: keeps the page.
MutantResetPage(f) ==
    /\ mounted /\ ~selected
    /\ f # txnFilter
    /\ Spend
    /\ txnFilter' = f
    /\ fetchTxns(f, pageNo)
    /\ UNCHANGED <<mounted, matching, deleted, txns, total, pageNo, selected>>

\* resetPage: the filter and page 1 are set in one render; a click on the
\* filter that is chosen goes back to page 1.
resetPage(f) ==
    /\ mounted /\ ~selected
    /\ f # txnFilter \/ pageNo # 1
    /\ Spend
    /\ txnFilter' = f
    /\ pageNo' = 1
    /\ fetchTxns(f, 1)
    /\ UNCHANGED <<mounted, matching, deleted, txns, total, selected>>

clearFilters == txnFilter # AllTxns /\ resetPage(AllTxns)

\* Mutant of setPage: does not load again.
MutantSetPage(p) ==
    /\ mounted /\ ~selected
    /\ p \in PagesOffered /\ p # pageNo
    /\ Spend
    /\ pageNo' = p
    /\ UNCHANGED <<wire, mounted, matching, deleted, txns, total, txnFilter, txnLoading, selected, strayFetch>>

setPage(p) ==
    /\ mounted /\ ~selected
    /\ p \in PagesOffered /\ p # pageNo
    /\ Spend
    /\ pageNo' = p
    /\ fetchTxns(txnFilter, p)
    /\ UNCHANGED <<mounted, matching, deleted, txns, total, txnFilter, selected>>

RefreshTxns ==
    /\ mounted /\ ~selected
    /\ Spend
    /\ fetchTxns(txnFilter, pageNo)
    /\ UNCHANGED <<mounted, matching, deleted, txns, total, pageNo, txnFilter, selected>>

TxnsLoaded(c) ==
    /\ \/ /\ Answered(c, "transactions") /\ Take(c)
          /\ txns' = [filter |-> wire[c].arg.filter, page |-> wire[c].arg.page,
                      rows |-> wire[c].answer.rows]
          /\ total' = wire[c].answer.total
          /\ UNCHANGED strayFetch
       \/ /\ Rejected(c, "transactions")
          /\ strayFetch' = TRUE
          /\ UNCHANGED <<txns, total>>
    /\ txnLoading' = FALSE
    /\ UNCHANGED <<moves, mounted, matching, deleted, pageNo, txnFilter, selected>>

\* TransactionModal shows the row as it was when Details was clicked.
setSelected(shown) ==
    /\ mounted /\ selected # shown
    /\ shown => TransactionTable = "rows"
    /\ selected' = shown
    /\ UNCHANGED <<wire, moves, mounted, matching, deleted, txns, total, pageNo, txnFilter,
                   txnLoading, strayFetch>>

\* GET /admin/transactions: the total, and the rows behind the offset.
list_transactions(c) ==
    /\ Sent(c, "transactions")
    /\ LET n      == matching[wire[c].arg.filter]
           behind == n - (wire[c].arg.page - 1) * PageLimit
       IN  Reply(c, "answered",
                 [total |-> n, rows |-> IF behind <= 0 THEN 0
                                        ELSE IF behind < PageLimit THEN behind ELSE PageLimit])
    /\ UNCHANGED <<moves, mounted, txnsVars>>

\* The gates and the wallets book more; a deleted user takes his with him.
LedgerChanges(f) ==
    /\ Spend
    /\ \/ /\ matching[AllTxns] < MaxTxns
          /\ matching' = [g \in Filter |-> matching[g] + IF g \in {f, AllTxns} THEN 1 ELSE 0]
          /\ UNCHANGED deleted
       \/ /\ matching[f] > 0
          /\ matching' = [g \in Filter |-> matching[g] - IF g \in {f, AllTxns} THEN 1 ELSE 0]
          /\ deleted' = (deleted \/ mounted)
    /\ \A g \in Filter : matching'[g] <= matching'[AllTxns]
    /\ UNCHANGED <<wire, mounted, txnsView>>

TransactionsAnswer(c) == TxnsLoaded(c)
TransactionsServe(c)  == list_transactions(c)

TransactionsNext ==
    \/ OpenTransactions
    \/ LeaveTransactions
    \/ \E f \in Filter : resetPage(f) \/ LedgerChanges(f)
    \/ clearFilters
    \/ \E p \in PagesOffered : setPage(p)
    \/ RefreshTxns
    \/ \E shown \in BOOLEAN : setSelected(shown)
    \/ \E c \in Call : TransactionsAnswer(c) \/ TransactionsServe(c)

TransactionsTypeOK ==
    /\ matching \in [Filter -> 0 .. MaxTxns]
    /\ txns \in [filter : Filter, page : Nat, rows : 0 .. PageLimit]
    /\ total \in 0 .. MaxTxns
    /\ pageNo \in Nat \ {0}
    /\ txnFilter \in Filter
    /\ {deleted, txnLoading, selected, strayFetch} \subseteq BOOLEAN

(***************************************************************************)
(* When no answer is outstanding the rows are those of the filter and the  *)
(* page that are highlighted, unless loads overlapped or one failed: the   *)
(* answer of the older filter may be the last one taken.                   *)
(***************************************************************************)
RowsOfPageShown ==
    mounted /\ Quiet /\ ~strayFetch => txns.filter = txnFilter /\ txns.page = pageNo

(***************************************************************************)
(* When no answer is outstanding the page shown exists, so that "No        *)
(* transactions found" means what it says.  It fails after an overlap: the *)
(* total of an older filter offers pages that the new one does not have,   *)
(* and on such a page the bar to leave it may be hidden.                   *)
(***************************************************************************)
PageShownExists ==
    mounted /\ Quiet /\ ~strayFetch /\ ~deleted =>
        /\ pageNo <= totalPages
        /\ TransactionTable = "No transactions found" => total = 0

(***************************************************************************)
(* Whatever page and total the answers left behind: as long as that page   *)
(* exists, the bar drawn for it has it, its neighbours, the first and the  *)
(* last page, no page that does not exist, and an ellipsis exactly where a *)
(* page is left out.                                                       *)
(***************************************************************************)
BarUsable == pageNo <= totalPages => BarOK(pageNo, totalPages)
=============================================================================
