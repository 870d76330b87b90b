------------------------------ MODULE PageBar ------------------------------
(***************************************************************************)
(* The page numbers under the table of transactions: all of them up to     *)
(* seven pages, else the first, the last and a window of up to five, with  *)
(* an ellipsis for the pages left out on either side.                      *)
(***************************************************************************)
EXTENDS Integers

Smaller(a, b) == IF a <= b THEN a ELSE b
Larger(a, b)  == IF a >= b THEN a ELSE b

\* Math.max(1, Math.ceil(total / limit))
TotalPages(total, limit) == Larger(1, (total + limit - 1) \div limit)

WindowLow(page, pages)  == Larger(2, Smaller(page - 2, pages - 5))
\* Mutant of WindowHigh: one page short.
MutantWindowHigh(page, pages) ==
    Smaller(pages - 1, WindowLow(page, pages) + 3)

WindowHigh(page, pages) == Smaller(pages - 1, WindowLow(page, pages) + 4)

\* The numbers in the bar, and whether an ellipsis stands before or behind
\* the window.
PageNumbers(page, pages) ==
    LET lo == WindowLow(page, pages)
        hi == WindowHigh(page, pages)
    IN  IF pages <= 7
        THEN [numbers |-> 1 .. pages, before |-> FALSE, behind |-> FALSE]
        ELSE [numbers |-> {1, pages} \cup lo .. hi, before |-> lo > 2, behind |-> hi < pages - 1]

(***************************************************************************)
(* On an existing page the bar has that page, its neighbours, the first    *)
(* and the last one, only pages that exist, and an ellipsis exactly where  *)
(* a page is left out.                                                     *)
(***************************************************************************)
BarOK(page, pages) ==
    LET bar == PageNumbers(page, pages)
    IN  /\ bar.numbers \subseteq 1 .. pages
        /\ {1, page, pages} \subseteq bar.numbers
        /\ page > 1 => page - 1 \in bar.numbers
        /\ page < pages => page + 1 \in bar.numbers
        /\ bar.before <=> \E p \in 1 .. page : p \notin bar.numbers
        /\ bar.behind <=> \E p \in page .. pages : p \notin bar.numbers
=============================================================================
