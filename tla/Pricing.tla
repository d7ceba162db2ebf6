------------------------------ MODULE Pricing ------------------------------
(***************************************************************************)
(* The prices of models: table prices and the copy of it in each process,  *)
(* model/pricing.go.  An operation looks at the copy (p.Prices, without    *)
(* the lock), executes statements, and has Init read the table and swap    *)
(* the copy.  The column model is no key: a row that is inserted again is  *)
(* a second row.  The default prices of the first start and the rows of    *)
(* model infos are left out.                                               *)
(***************************************************************************)
EXTENDS Naturals, FiniteSets, Sequences

CONSTANTS Names,          \* what rows are called: models, and patterns
          Patterns,       \* those that end in *, each of which matches all
          PriceForms,     \* rows that a form or the price service may hold
          Batches,        \* names that were and that are selected in a batch
          InitTables,     \* tables at start-up
          Servers,        \* processes
          Master,         \* the one that runs cron jobs and reloads nothing
          Editors,        \* goroutines that run operations
          Loop,           \* the one of SyncChannelCache, on each other server
          MaxPriceEdits, MaxPriceFails

ASSUME PricingAssumption ==
    /\ Patterns \subseteq Names /\ Master \in Servers
    /\ PriceForms \subseteq [model : Names, price : Nat, locked : BOOLEAN]
    /\ InitTables \subseteq SUBSET [model : Names, price : Nat, locked : BOOLEAN]
    /\ \A table \in InitTables : \A r, q \in table : r.model = q.model => r = q
    /\ Batches \subseteq [originals : SUBSET Names, names : SUBSET Names]
    /\ Loop \in [Servers \ {Master} -> Editors]

VARIABLES prices,      \* the table
          copy,        \* per server: Prices and Match
          task,        \* what each goroutine is about to do
          held,        \* a transaction that was never ended holds rows
          priceEdits, priceFails,
          lock,        \* history: the locked prices as administrators set them
          outdated     \* history: names written by one who knew an older table

priceVars == <<prices, copy, task, held, priceEdits, priceFails, lock, outdated>>

DefaultPrice == [model |-> "", price |-> 0, locked |-> FALSE]

RowsOf(table, m) == {r \in table : r.model = m}
NamesIn(table) == {r.model : r \in table}
LockedIn(table) == {r.model : r \in {q \in table : q.locked}}

\* Maps of the rows by name: of two rows of one name the later read stays.
Maps(table) == {s \in SUBSET table : \A m \in NamesIn(table) : Cardinality(RowsOf(s, m)) = 1}
NewCopy(map) == [prices |-> map, match |-> NamesIn(map) \cap Patterns]

\* The price that a request is charged by: Match is in no order.
GetPrice(v, m) ==
    IF m \in NamesIn(v.prices) THEN RowsOf(v.prices, m)
    ELSE IF v.match = {} THEN {DefaultPrice}
    ELSE UNION {IF w \in NamesIn(v.prices) THEN RowsOf(v.prices, w) ELSE {DefaultPrice} : w \in v.match}

Idle == [pc |-> "idle"]

LocksOf(table) == [m \in Names |-> {r.price : r \in {q \in table : q.model = m /\ q.locked}}]

PricingInit ==
    /\ prices \in InitTables
    /\ copy = [s \in Servers |-> NewCopy(prices)]
    /\ task = [e \in Editors |-> Idle]
    /\ held = FALSE /\ priceEdits = 0 /\ priceFails = 0
    /\ lock = LocksOf(prices) /\ outdated = {}

----------------------------------------------------------------------------
(* Statements.  One deletes rows by name, all or those that are not        *)
(* locked, writes a form over rows, and inserts rows.                      *)

Delete(names) == [del |-> names, spare |-> FALSE, upd |-> {}, form |-> DefaultPrice, ins |-> {}]
DeleteNotLock(names) == [Delete(names) EXCEPT !.spare = TRUE]
Insert(rows) == [Delete({}) EXCEPT !.ins = rows]

Kept(st) == {r \in prices : r.model \notin st.del \/ (st.spare /\ r.locked)}
After(st) == {IF r.model \in st.upd THEN [st.form EXCEPT !.model = r.model] ELSE r : r \in Kept(st)} \cup st.ins

\* What an operation does: statements one after the other (those of a
\* transaction are one), then Init or, after BatchDeletePrices, a deletion in
\* the copy.  known: the names and locks it had before it.
Does(e, s, todo, then, sync, known) ==
    /\ priceEdits < MaxPriceEdits /\ priceEdits' = priceEdits + 1
    /\ task[e] = Idle
    /\ task' = [task EXCEPT ![e] = [pc |-> "exec", at |-> s, todo |-> todo, then |-> then,
                                    sync |-> sync, known |-> known]]
    /\ UNCHANGED <<prices, copy, held, priceFails, lock, outdated>>

Has(s) == NamesIn(copy[s].prices)
Known(table) == [names |-> NamesIn(table), locks |-> LockedIn(table)]
KnownAt(s) == Known(copy[s].prices)

AddPrice(e, s, row) ==
    /\ row.model \notin Has(s)
    /\ Does(e, s, <<Insert({row})>>, "read", FALSE, KnownAt(s))

UpdatePrice(e, s, m, row) ==
    /\ m \in Has(s) /\ (row.model = m \/ row.model \notin Has(s))
    /\ Does(e, s, <<Delete({m}), Insert({row})>>, "read", FALSE, KnownAt(s))

DeletePrice(e, s, m) ==
    /\ m \in Has(s)
    /\ Does(e, s, <<Delete({m})>>, "read", FALSE, KnownAt(s))

BatchDeletePrices(e, s, names) == Does(e, s, <<Delete(names)>>, "drop", FALSE, KnownAt(s))

\* The names that were selected come with the form; the copy is not consulted.
BatchSetPrices(e, s, originals, names, row) ==
    Does(e, s,
         <<[del |-> originals \ names, spare |-> FALSE, upd |-> originals \cap names, form |-> row,
            ins |-> {[row EXCEPT !.model = m] : m \in names \ originals}]>>,
         "read", FALSE, [names |-> originals, locks |-> {}])

\* SyncPriceWithoutOverwrite, SyncPriceOnlyUpdate, SyncPriceWithOverwrite, for
\* one who knows the table as known: what they insert and their statement.
SyncNew(mode, rows, known) ==
    {r \in rows : \/ mode = "add" /\ r.model \notin known.names
                  \/ mode = "update" /\ r.model \in known.names \ known.locks
                  \/ mode = "overwrite" /\ r.model \notin known.locks}

\* Mutant: locked rows are deleted with the others.
SyncStatement_LockedToo(mode, new) ==
    IF mode = "add" THEN Insert(new)
    ELSE [Delete(IF mode = "update" THEN NamesIn(new) ELSE Names) EXCEPT !.ins = new]

SyncStatement(mode, new) ==
    IF mode = "add" THEN Insert(new)
    ELSE [DeleteNotLock(IF mode = "update" THEN NamesIn(new) ELSE Names) EXCEPT !.ins = new]

\* With nothing to insert the modes update and overwrite return before they end
\* their transaction; that of overwrite has deleted rows by then.
SyncPricing(e, s, mode, rows, known, then) ==
    LET new == SyncNew(mode, rows, known)
    IN  \/ /\ new # {}
           /\ Does(e, s, <<SyncStatement(mode, new)>>, then, TRUE, known)
        \/ /\ new = {} /\ task[e] = Idle /\ priceEdits < MaxPriceEdits /\ priceEdits' = priceEdits + 1
           /\ held' = (held \/ (mode = "overwrite" /\ \E r \in prices : ~r.locked))
           /\ UNCHANGED <<prices, copy, task, priceFails, lock, outdated>>

\* The cron job of the master.  Its Pricing is one of its own, fresh from the
\* table; Init of that one, at the end, leaves the server's copy as it was.
UpdatePriceByPriceService(e, mode, rows) ==
    SyncPricing(e, Master, mode, rows, Known(prices), "end")

Operation(e) ==
    \E s \in Servers :
       \/ \E row \in PriceForms : AddPrice(e, s, row)
       \/ \E row \in PriceForms, m \in Names : UpdatePrice(e, s, m, row)
       \/ \E m \in Names : DeletePrice(e, s, m)
       \/ \E b \in Batches : BatchDeletePrices(e, s, b.names)
       \/ \E row \in PriceForms, b \in Batches : BatchSetPrices(e, s, b.originals, b.names, row)
       \/ \E row \in PriceForms, mode \in {"add", "update", "overwrite"} :
             SyncPricing(e, s, mode, {row}, KnownAt(s), "read")
       \/ \E row \in PriceForms, mode \in {"add", "update", "overwrite"} :
             s = Master /\ UpdatePriceByPriceService(e, mode, {row})

----------------------------------------------------------------------------
(* The steps of a goroutine.                                               *)

Execute(e) ==
    LET t     == task[e]
        st    == Head(t.todo)
        names == NamesIn(st.ins)
    IN  /\ t.pc = "exec"
        /\ prices' = After(st)
        /\ lock' = IF t.sync THEN lock
                   ELSE [m \in Names |-> IF m \in st.del \cup st.upd \cup names
                                         THEN LocksOf(prices')[m] ELSE lock[m]]
        /\ outdated' = outdated \cup
              {m \in names : \/ (m \in t.known.names) # (m \in NamesIn(prices))
                             \/ t.sync /\ (m \in t.known.locks) # (m \in LockedIn(prices))}
        /\ task' = [task EXCEPT ![e] =
              IF Len(t.todo) > 1 THEN [t EXCEPT !.todo = Tail(@), !.known.names = @ \ st.del]
              ELSE IF t.then = "end" THEN Idle
              ELSE [pc |-> t.then, at |-> t.at, todo |-> t.todo]]
        /\ UNCHANGED <<copy, held, priceEdits, priceFails>>

\* An error ends the operation, Init or not; so does, on SQLite always and
\* elsewhere for the rows it deleted, a transaction that was left open.
Fail(e) ==
    /\ task[e].pc \in {"exec", "read"}
    /\ \/ priceFails < MaxPriceFails /\ priceFails' = priceFails + 1
       \/ held /\ task[e].pc = "exec" /\ UNCHANGED priceFails
    /\ task' = [task EXCEPT ![e] = Idle]
    /\ UNCHANGED <<prices, copy, held, priceEdits, lock, outdated>>

DropFromCopy(e) ==
    LET t == task[e]
    IN  /\ t.pc = "drop"
        /\ copy' = [copy EXCEPT ![t.at].prices = {r \in @ : r.model \notin Head(t.todo).del}]
        /\ task' = [task EXCEPT ![e] = Idle]
        /\ UNCHANGED <<prices, held, priceEdits, priceFails, lock, outdated>>

\* Init reads the table.  When it is empty the copy stays.
InitRead(e) ==
    /\ task[e].pc = "read"
    /\ \/ prices = {} /\ task' = [task EXCEPT ![e] = Idle]
       \/ prices # {} /\ \E map \in Maps(prices) :
             task' = [task EXCEPT ![e] = [pc |-> "swap", at |-> task[e].at, new |-> NewCopy(map)]]
    /\ UNCHANGED <<prices, copy, held, priceEdits, priceFails, lock, outdated>>

InitSwap(e) ==
    /\ task[e].pc = "swap"
    /\ copy' = [copy EXCEPT ![task[e].at] = task[e].new]
    /\ task' = [task EXCEPT ![e] = Idle]
    /\ UNCHANGED <<prices, held, priceEdits, priceFails, lock, outdated>>

\* Mutant: the loop reloads the other tables only.
Reload_Forgets(s) == task[Loop[s]] = Idle /\ UNCHANGED priceVars

\* SyncChannelCache calls Init again and again, but not on the master.
Reload(s) ==
    /\ task[Loop[s]] = Idle
    /\ task' = [task EXCEPT ![Loop[s]] = [pc |-> "read", at |-> s]]
    /\ UNCHANGED <<prices, copy, held, priceEdits, priceFails, lock, outdated>>

Loops == {Loop[s] : s \in Servers \ {Master}}

PriceStep(e) == Execute(e) \/ Fail(e) \/ DropFromCopy(e) \/ InitRead(e) \/ InitSwap(e)

PricingNext ==
    \/ \E e \in Editors \ Loops : Operation(e)
    \/ \E e \in Editors : PriceStep(e)
    \/ \E s \in Servers \ {Master} : Reload(s)

PricingSpec == PricingInit /\ [][PricingNext]_priceVars

----------------------------------------------------------------------------
\* The price a model should have, by the table.
RightPrices(m) ==
    IF m \in NamesIn(prices) THEN RowsOf(prices, m)
    ELSE IF NamesIn(prices) \cap Patterns = {} THEN {DefaultPrice}
    ELSE UNION {RowsOf(prices, w) : w \in Patterns}

\* A model has one row, and a price that an administrator locked is the one of
\* that row whatever price lists are applied ("the overwrite mode does not
\* update locked models", price.go:62), unless the name was written by an
\* operation that knew an older table, where the locked row gets a rival.
PricesStand ==
    \A m \in Names \ outdated :
       /\ Cardinality(RowsOf(prices, m)) <= 1
       /\ \A p \in lock[m] : RowsOf(prices, m) = {[model |-> m, price |-> p, locked |-> TRUE]}

\* A server that reloads charges by the rows of the table, unless there are
\* none: then it goes by the last it had.
CopyAgrees ==
    \A s \in Servers \ {Master} :
       prices = {} \/ \A m \in Names : GetPrice(copy[s], m) \subseteq RightPrices(m)
=============================================================================
