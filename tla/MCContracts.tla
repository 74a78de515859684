---------------------------- MODULE MCContracts ----------------------------
(* Three contracts and two suffixes, one of which contains the script hash   *)
(* of the first; a second value of a row, to see it changed.  Each plan has  *)
(* databases of its own to begin with.                                       *)
EXTENDS Contracts

CONSTANTS A, B, C, plainKey, namesA

MCHash == {A, B, C}
MCSuffix == {plainKey, namesA}
MCKey == ({"contract"} \X MCHash) \union (MCHash \X MCSuffix)
MCMentions == [s \in MCSuffix |-> IF s = namesA THEN {A} ELSE {}]
MCReplica == [k \in MCKey |-> IF k[1] = "contract" THEN "missing" ELSE "copies"]
MCRank == [k \in MCKey |-> IF k[1] = "contract" THEN 1 ELSE 2]
NeverDead == [k \in MCKey |-> {}]

Times(n, names) == [i \in 1..n |-> names]

\* Rows; contracts made and their contexts; contracts destroyed and made again; migrations.
Reading ==
    <<{"call"}, {"context", "readOnlyContext"}>> \o Times(3, {"call", "context", "get", "put", "delete"})
Making ==
    <<{"call", "publish"}, {"create", "contract", "publish"}>>
        \o Times(2, {"call", "contextOf", "put", "create", "destroy", "contract"})
Destroying == Times(5, {"call", "create", "destroy"})
Migrating ==
    <<{"call"}, {"context", "create"}, {"get", "put", "delete", "migrate", "call"},
      {"call", "put", "delete", "migrate"}, {"migrate", "create"}>>

\* A row put under a suffix that names A, handed over by A's migration, and then written
\* by the contract it made, in this execution or another, and by its first owner.
Lending ==
    <<{"call"}, {"context"}, {"put"}, {"call"}, {"migrate"}, {"call"}, {"context"}, {"put"},
      {"call"}, {"context"}, {"put"}>>
Borrowing == <<{"call"}, {"contract"}, {"contextOf"}, {"put"}>>

\* Rows read, written and deleted while they are listed, in one execution and in the second.
Listing ==
    <<{"call"}, {"context"}>> \o Times(2, {"get", "put", "delete"}) \o <<{"find"}, {"next"}>>
        \o Times(6, {"get", "put", "delete", "next"})
ListingLater ==
    <<{"call"}, {"context"}, {"get", "put", "delete"}, {"call"}, {"context"}, {"put", "delete", "find"}, {"find", "next"}>>
        \o Times(3, {"get", "put", "delete", "next"})

MCPlans == {Reading, Making, Destroying, Migrating, Lending, Borrowing, Listing, ListingLater}

\* The databases that have these contracts, in one of these states, and some of these rows.
With(contracts, states, rows) ==
    {store \in [MCKey -> {"plain", "storing", "x", Null}] :
        /\ \A c \in MCHash : store[Contract(c)] \in IF c \in contracts THEN states ELSE {Null}
        /\ \A k \in MCHash \X MCSuffix : store[k] \in IF k \in rows THEN {"x", Null} ELSE {Null}}

AnyState == {"plain", "storing", Null}
StoresOf(p) ==
    CASE p = Reading -> With({A, B}, AnyState, {A, B} \X {namesA} \union {<<A, plainKey>>})
      [] p = Making -> With({A, B}, AnyState, {<<A, namesA>>})
      [] p = Destroying -> With({A}, AnyState, {A} \X MCSuffix)
      [] p = Migrating -> With({A, B}, {"storing", Null}, {<<A, plainKey>>, <<B, namesA>>})
      [] p = Lending -> With({A, B}, {"storing"}, {})
      [] p = Borrowing -> With({A, B}, {"storing"}, {A, B} \X {namesA})
      [] p \in {Listing, ListingLater} -> With({A}, {"storing"}, {A} \X MCSuffix)
MCStores == [p \in MCPlans |-> StoresOf(p)]
=============================================================================
