------------------------------- MODULE Paging -------------------------------
(***************************************************************************)
(* Lists page by page: buildPagination (packages/utils), the lists of the  *)
(* services that count, compute the offset and then read, and a reader who *)
(* asks for the next page as long as there is one.                         *)
(***************************************************************************)
EXTENDS Integers, FiniteSets

CONSTANTS
    MaxRows,        \* bound on the rows of the table
    AskedSizes,     \* pageSize of a request, whatever a caller may send
    AskedPages,     \* page of a request
    DEFAULT_SIZE, MAX_SIZE       \* 20 and 100

ASSUME PagingAssumption ==
    /\ MaxRows \in Nat /\ AskedSizes \subseteq Int /\ AskedPages \subseteq Int
    /\ DEFAULT_SIZE \in Nat \ {0} /\ MAX_SIZE \in Nat /\ MAX_SIZE >= DEFAULT_SIZE

VARIABLES
    total,          \* rows of the table, numbered in its order
    size,           \* page size asked for
    reader          \* pages walked so far (0 after a single request), rows received,
                    \* whether one came twice, whether there are more pages

PagingVars == <<total, size, reader>>

AtLeast(n, floor) == IF n < floor THEN floor ELSE n
AtMost(n, cap) == IF n > cap THEN cap ELSE n

TotalPagesMutant(rows, pageSize) == AtLeast(rows \div pageSize, 1)

TotalPages(rows, pageSize) == AtLeast((rows + pageSize - 1) \div pageSize, 1)

\* buildPagination, on the numbers the DTOs let through; 0 is replaced by the
\* default, anything else is clamped.
BuildPagination(page, pageSize, rows) ==
    LET per == AtMost(AtLeast(IF pageSize = 0 THEN DEFAULT_SIZE ELSE pageSize, 1), MAX_SIZE)
        pages == TotalPages(rows, per)
        at == AtMost(AtLeast(IF page = 0 THEN 1 ELSE page, 1), pages)
    IN  [page |-> at, pageSize |-> per, totalPages |-> pages, offset |-> (at - 1) * per,
         hasNext |-> at < pages]

\* list: the rows of the page asked for.
PageOf(page, pageSize) ==
    LET p == BuildPagination(page, pageSize, total)
    IN  (p.offset + 1)..AtMost(p.offset + p.pageSize, total)

PagingInit ==
    /\ total \in 0..MaxRows
    /\ size \in AskedSizes
    /\ reader = [page |-> 0, rows |-> {}, twice |-> FALSE, more |-> TRUE]

\* The reader asks for the first page, then for the next one.
ReadNext ==
    /\ reader.more
    /\ LET page == PageOf(reader.page + 1, size) IN
       reader' = [page |-> reader.page + 1, rows |-> reader.rows \cup page,
                  twice |-> reader.twice \/ page \cap reader.rows # {},
                  more |-> BuildPagination(reader.page + 1, size, total).hasNext]
    /\ UNCHANGED <<total, size>>

\* A request for any page, answered with the metadata of the page it gets.
ReadAny ==
    /\ \E page \in AskedPages :
          reader' = [page |-> 0, rows |-> PageOf(page, size), twice |-> FALSE, more |-> FALSE]
    /\ ~reader.more
    /\ UNCHANGED <<total, size>>

PagingNext == ReadNext \/ ReadAny

-----------------------------------------------------------------------------
(* Properties *)

\* Reader and table are of their types.
PagingTypeOK ==
    /\ total \in 0..MaxRows /\ size \in AskedSizes
    /\ reader \in [page : 0..(MaxRows + 1), rows : SUBSET (1..MaxRows), twice : BOOLEAN,
                   more : BOOLEAN]

\* Whatever size is asked for, a reader who follows the pages of a table that does
\* not change receives every row exactly once, and a page out of range is answered
\* with rows whenever there are any.
WalkSeesAll ==
    /\ ~reader.twice
    /\ ~reader.more => IF reader.page > 0 THEN reader.rows = 1..total
                       ELSE total > 0 => reader.rows # {}
=============================================================================
