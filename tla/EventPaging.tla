----------------------------- MODULE EventPaging -----------------------------
(***************************************************************************)
(* How GSN reads events: ContractInteractor's _getPastEventsPaginated with *)
(* getLogsPagesForRange, splitRange, _getPastEvents and getBlockNumber     *)
(* (common/src/ContractInteractor.ts).                                     *)
(*                                                                         *)
(* A query over a range of blocks is read page by page.  A page that fails *)
(* is asked for again; when the node goes on saying it holds too many      *)
(* events, the range is cut into four times as many pages and read from    *)
(* its start.  Meanwhile the chain grows and other queries run over the    *)
(* same interactor.  The chain and the node are external.                  *)
(***************************************************************************)
EXTENDS Naturals, Sequences, FiniteSets, SequencesExt

CONSTANTS
    Callers,        \* who may have a query under way
    Events,         \* what RelayHub may emit
    MaxBlocks,      \* bound: blocks mined
    MaxPageSize,    \* pastEventsQueryMaxPageSize, or Unlimited
    MaxPageCount,   \* pastEventsQueryMaxPageCount
    ResponseLimit,  \* the events the node returns at most for one request
    MaxAttempts,    \* how often a page is asked for (100 in the code)
    MaxSplit,       \* pages above which it is not split again (16 in the code)
    MaxHeadReads    \* how often a lagging head is read (11 in the code)

Unlimited == 0      \* Number.MAX_SAFE_INTEGER
Latest == 0         \* the block tag; blocks are numbered from 1

ASSUME EventPagingAssumption ==
    /\ {MaxBlocks, MaxPageSize, MaxPageCount, ResponseLimit, MaxSplit} \subseteq Nat
    /\ MaxAttempts \in Nat \ {0} /\ MaxHeadReads \in Nat \ {0}

VARIABLES
    blocks,             \* the chain: the events of each block, in order
    lastBlockNumber,    \* the highest head the interactor was told of
    query               \* the query of each caller

pagingVars == <<blocks, lastBlockNumber, query>>

Tip == Len(blocks)

\* No query under way.
NoQuery == [phase |-> "none", from |-> 0, to |-> 0, head |-> 0, pages |-> 0, next |-> 0,
            attempts |-> 0, wanted |-> {}, events |-> <<>>]

\* An event as eth_getLogs returns it: what it says and where it is.
LogAt(b, k) == [block |-> b, index |-> k, event |-> blocks[b][k]]
LogsOfBlock(b, wanted) == {LogAt(b, k) : k \in {i \in DOMAIN blocks[b] : blocks[b][i] \in wanted}}

\* The logs of a range, blocks not yet mined included in vain.  What reads them looks at
\* their blocks: their order is left open.
LogsInRange(from, to, wanted) ==
    UNION {LogsOfBlock(b, wanted) : b \in from .. IF to = Latest \/ to > Tip THEN Tip ELSE to}
Logs(from, to, wanted) == SetToSeq(LogsInRange(from, to, wanted))

Ceiling(a, b) == (a + b - 1) \div b

\* getLogsPagesForRange
PagesFor(from, to) ==
    IF MaxPageSize = Unlimited \/ to < from THEN 1 ELSE Ceiling(to + 1 - from, MaxPageSize)

\* splitRange, for a range of numbers or for a single part.
SplitRangeSkipping(from, to, parts) ==
    LET size == Ceiling(to + 1 - from, parts)
    IN  IF parts = 1 THEN <<[from |-> from, to |-> to]>>
        ELSE [k \in 1..Ceiling(to + 1 - from, size) |->
                [from |-> from + (k - 1) * size,
                 to   |-> IF from + k * size > to THEN to ELSE from + k * size - 2]]
SplitRange(from, to, parts) ==
    LET size == Ceiling(to + 1 - from, parts)
    IN  IF parts = 1 THEN <<[from |-> from, to |-> to]>>
        ELSE [k \in 1..Ceiling(to + 1 - from, size) |->
                [from |-> from + (k - 1) * size,
                 to   |-> IF from + k * size > to THEN to ELSE from + k * size - 1]]

Part(q) == SplitRange(q.from, q.to, q.pages)[q.next]

TooMany(q) == Cardinality(LogsInRange(Part(q).from, Part(q).to, q.wanted)) > ResponseLimit

-----------------------------------------------------------------------------

PagingInit ==
    /\ blocks = << <<>> >>
    /\ lastBlockNumber = 0
    /\ query = [c \in Callers |-> NoQuery]

\* The range is known: it must not be empty, nor take more pages than allowed.
Paged(q) ==
    LET pages == PagesFor(q.from, q.to)
    IN  IF \/ q.to # Latest /\ q.from > q.to
           \/ pages > MaxPageCount
        THEN [q EXCEPT !.phase = "failed"]
        ELSE [q EXCEPT !.phase = "pages", !.pages = pages, !.next = 1]

\* A query for some events begins; with pages of a limited size, 'latest' is replaced by
\* the number of the head.
AskEvents(c, from, to, wanted) ==
    LET q == [NoQuery EXCEPT !.from = from, !.to = to, !.wanted = wanted]
    IN  query' = [query EXCEPT ![c] = IF MaxPageSize # Unlimited /\ to = Latest
                                      THEN [q EXCEPT !.phase = "head"]
                                      ELSE Paged(q)]

\* getBlockNumber: a backend of the node says where the chain is.  One that is behind what
\* the interactor already knows is asked again.
ReadHead(c, b) ==
    LET q == query[c]
    IN  /\ q.phase = "head"
        /\ IF b >= lastBlockNumber
           THEN /\ lastBlockNumber' = b
                /\ query' = [query EXCEPT ![c] =
                       Paged([q EXCEPT !.head = b, !.attempts = 0,
                                       !.to = IF q.from > b THEN q.from ELSE b])]
           ELSE /\ query' = [query EXCEPT ![c] =
                       IF q.attempts + 1 = MaxHeadReads THEN [q EXCEPT !.phase = "failed"]
                       ELSE [q EXCEPT !.attempts = @ + 1]]
                /\ UNCHANGED lastBlockNumber
        /\ UNCHANGED blocks

\* A page is read, and after the last one the query has its events.
ReadPage(c) ==
    LET q == query[c]
        parts == SplitRange(q.from, q.to, q.pages)
    IN  /\ q.phase = "pages"
        /\ ~TooMany(q)
        /\ query' = [query EXCEPT ![c] =
               [q EXCEPT !.events = @ \o Logs(Part(q).from, Part(q).to, q.wanted),
                         !.attempts = 0,
                         !.next = @ + 1,
                         !.phase = IF q.next = Len(parts) THEN "found" ELSE "pages"]]
        /\ UNCHANGED <<blocks, lastBlockNumber>>

\* The request for a page fails.  After the last attempt a page with too many events makes
\* the query start over with smaller pages, keeping what it has, and any other ends it.
PageFails(c, tooMany) ==
    LET q == query[c]
        smaller == [q EXCEPT !.pages = 4 * @, !.next = 1, !.attempts = 0]
    IN  /\ q.phase = "pages"
        /\ tooMany = TooMany(q)
        /\ query' = [query EXCEPT ![c] =
               IF q.attempts + 1 < MaxAttempts THEN [q EXCEPT !.attempts = @ + 1]
               ELSE IF tooMany /\ q.pages <= MaxSplit /\ q.to # Latest THEN smaller
               ELSE [q EXCEPT !.phase = "failed"]]
        /\ UNCHANGED <<blocks, lastBlockNumber>>

\* A block is mined.
MineBlock(events) ==
    /\ Tip < MaxBlocks
    /\ blocks' = Append(blocks, events)
    /\ UNCHANGED <<lastBlockNumber, query>>

-----------------------------------------------------------------------------

PagingTypeOK ==
    /\ blocks \in Seq(Seq(Events)) /\ Tip <= MaxBlocks
    /\ lastBlockNumber \in 0..MaxBlocks
    /\ \A c \in Callers : query[c].phase \in {"none", "head", "pages", "found", "failed"}

\* A query that succeeds has every event it asked for that was mined by the block it took
\* for the head, however often the range was split and whatever the node refused meanwhile.
EveryEventReturned ==
    \A c \in Callers :
        LET q == query[c]
        IN  q.phase = "found" /\ q.to # Latest =>
                LogsInRange(q.from, IF q.head = 0 \/ q.to < q.head THEN q.to ELSE q.head, q.wanted)
                    \subseteq ToSet(q.events)

=============================================================================
