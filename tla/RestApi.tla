------------------------------ MODULE RestApi ------------------------------
(***************************************************************************)
(* What is read back from the notification database: the queries of        *)
(* NotificationDB.py and the handlers of the REST API (neo/api/REST/       *)
(* RestApi.py).  A handler never awaits, so it is answered from one state. *)
(* How an event is printed is left out; an answer is a record with the     *)
(* events of one page, or a message instead.                               *)
(***************************************************************************)
EXTENDS Invocation

CONSTANTS
    PageLengths,    \* the values of pagesize that requests name
    DefaultLength   \* of a request that names none

ASSUME RestAssumption ==
    PageLengths \subseteq Nat /\ DefaultLength \in Nat \ {0}

(***************************************************************************)
(* The database.                                                           *)
(***************************************************************************)
\* The rows whose key begins with owner, in the order of their keys.  The row that
\* counts them has four bytes and is passed over.
Listed(rows, owner) ==
    LET own == {r \in rows : r[1][1] = owner}
        before(r) == Cardinality({s \in own : s[1][2] < r[1][2]})
    IN [i \in 1 .. Cardinality(own) |-> (CHOOSE r \in own : before(r) = i - 1)[2]]

GetByBlock(n) == Listed(byBlock, n)
GetByAddr(address) == Listed(byAddr, address)
GetByContract(contract) == Listed(byContract, contract)

(***************************************************************************)
(* Pages.  A request names a page and a page length, or leaves them to be  *)
(* 1 and DefaultLength.                                                    *)
(***************************************************************************)
FormatMessage(text) ==
    [message |-> text, total |-> 0, results |-> << >>, page |-> 0, pages |-> 0]

\* A Python slice: a bound below 0 counts from the end.
Bound(i, total) == IF i < 0 THEN Max({0, total + i}) ELSE Min({i, total})
SliceOf(events, from, to) == SubSeq(events, Bound(from, Len(events)) + 1, Bound(to, Len(events)))

Pages(total, length) == (total + length - 1) \div length

\* A length of 0 divides by zero, which no handler catches.
FormatNotifications(events, asked, length) ==
    LET page == IF asked = 0 THEN 1 ELSE asked
        start == length * (page - 1)
    IN IF length = 0 THEN FormatMessage("error")
       ELSE [message |-> IF start > Len(events) THEN "page greater" ELSE "",
             total |-> Len(events),
             results |-> SliceOf(events, start, start + length),
             page |-> page,
             pages |-> Pages(Len(events), length)]

(***************************************************************************)
(* The handlers.                                                           *)
(***************************************************************************)
RestByBlock(n, page, length) ==
    IF n > height THEN FormatMessage("higher than current")
    ELSE IF n < 0 THEN FormatMessage("could not get")
    ELSE FormatNotifications(GetByBlock(n), page, length)

RestByAddr(address, page, length) ==
    FormatNotifications(GetByAddr(address), page, length)

RestByContract(contract, page, length) ==
    FormatNotifications(GetByContract(contract), page, length)

\* Blockchain.GetTransaction knows the transactions of the blocks that are there.
HeightOf(tx) == IF tx[1] \in 1 .. height THEN tx[1] ELSE -1

RestByTx(tx, page, length) ==
    IF HeightOf(tx) = -1 THEN FormatMessage("could not find")
    ELSE FormatNotifications(SelectSeq(GetByBlock(HeightOf(tx)), LAMBDA ev : ev.tx = tx),
                             page, length)

(***************************************************************************)
(* Properties.                                                             *)
(***************************************************************************)
Times(ev, events) == Cardinality({i \in DOMAIN events : events[i] = ev})

\* The pages of an answer show every event of the list once and in order, and there
\* is nothing after the last of them.
Paged(Answer(_, _), events) ==
    \A length \in (PageLengths \ {0}) \cup {DefaultLength} :
        LET last == Answer(1, length).pages
            page == [p \in 1 .. last + 1 |-> Answer(p, length).results]
        IN /\ \A i \in DOMAIN events :
                  page[((i - 1) \div length) + 1][((i - 1) % length) + 1] = events[i]
           /\ \A p \in 1 .. last : Len(page[p]) \in 1 .. length
           /\ page[last + 1] = << >> \/ last = 0

\* What the REST API answers about the events of the chain, whenever the event loop
\* comes to a request.  Wherever the program was stopped, an event found by its block
\* or its contract is found by both of its addresses, once.  An event whose writing
\* was finished is shown once among the events of its block and among those of its
\* transaction, unless a block before went without on_persist_completed.  No row of an
\* earlier block is overwritten, and the pages of an answer leave no event out.
EventsFiled == LoopFree =>
    /\ \A r \in byBlock \cup byContract : \A a \in {r[2].to, r[2].from} :
           Times(r[2], GetByAddr(a)) = 1
    /\ \A f \in filed :
           IF f.late THEN Cardinality({r \in byBlock : r[2] = f.ev}) = 1
           ELSE /\ Times(f.ev, RestByBlock(f.ev.block, 1, DefaultLength).results) = 1
                /\ f.ev.tx[1] # 0 =>
                       Times(f.ev, RestByTx(f.ev.tx, 1, DefaultLength).results) = 1
    /\ \A n \in 1 .. height :
           Paged(LAMBDA page, length : RestByBlock(n, page, length), GetByBlock(n))
    /\ \A a \in {r[1][1] : r \in byAddr} :
           Paged(LAMBDA page, length : RestByAddr(a, page, length), GetByAddr(a))
    /\ \A c \in {r[1][1] : r \in byContract} :
           Paged(LAMBDA page, length : RestByContract(c, page, length), GetByContract(c))
=============================================================================
