-------------------------- MODULE RelationalSchema --------------------------
(***************************************************************************)
(* A PostgreSQL schema as far as the migrations can disagree about it: the *)
(* tables with their columns, the foreign keys, the native enum types, and *)
(* the values of enum-like columns that some row holds.  A migration is a  *)
(* sequence of statements; a statement that PostgreSQL would refuse makes  *)
(* the whole transaction fail.  Indexes, defaults, nullability and the     *)
(* rows a migration seeds are left out.                                    *)
(***************************************************************************)
EXTENDS SequencesExt

\* What the migrations say, one operator per kind of statement.
Table(t, columns, refs) == [op |-> "create", table |-> t, columns |-> columns, refs |-> refs]
Drop(t) == [op |-> "drop", table |-> t]
Add(t, columns, refs) == [op |-> "add", table |-> t, columns |-> columns, refs |-> refs]
Lose(t, columns) == [op |-> "remove", table |-> t, columns |-> columns]
Rename(t, name) == [op |-> "rename", table |-> t, name |-> name]
CreateType(type, values) == [op |-> "create_type", type |-> type, values |-> values]
DropType(type) == [op |-> "drop_type", type |-> type]
AddValue(type, value) == [op |-> "add_value", type |-> type, values |-> {value}]
Retype(t, column, type) == [op |-> "retype", table |-> t, column |-> column, type |-> type]
Update(t, column, old, new) == [op |-> "update", table |-> t, column |-> column, old |-> old, new |-> new]

Drops(names) == [i \in DOMAIN names |-> Drop(names[i])]

\* refs: <<table, column, referenced table>>; typed: <<table, column, enum type>>;
\* rows: <<table, column, value>> for the values that some row holds.
EmptySchema == [ok |-> TRUE, tables |-> [t \in {} |-> {}], refs |-> {},
                types |-> [t \in {} |-> {}], typed |-> {}, rows |-> {}]

\* Whether PostgreSQL carries the statement out.
Possible(s, o) ==
    LET here == DOMAIN s.tables IN
    CASE o.op = "create" -> o.table \notin here /\ {r[2] : r \in o.refs} \subseteq here \cup {o.table}
      [] o.op = "drop" -> o.table \in here /\ \A r \in s.refs : r[3] = o.table => r[1] = o.table
      [] o.op = "add" -> /\ o.table \in here /\ o.columns \cap s.tables[o.table] = {}
                         /\ {r[2] : r \in o.refs} \subseteq here
      [] o.op = "remove" -> o.table \in here /\ o.columns \subseteq s.tables[o.table]
      [] o.op = "rename" -> o.table \in here /\ o.name \notin here
      [] o.op = "create_type" -> o.type \notin DOMAIN s.types
      [] o.op = "drop_type" -> \A u \in s.typed : u[3] # o.type
      [] o.op = "add_value" -> o.type \in DOMAIN s.types
      [] o.op = "retype" ->
            /\ o.table \in here /\ o.column \in s.tables[o.table]
            /\ o.type # "VARCHAR" =>
                  /\ o.type \in DOMAIN s.types
                  /\ \A v \in s.rows : v[1] = o.table /\ v[2] = o.column => v[3] \in s.types[o.type]
      [] o.op = "update" -> o.table \in here

Of(tuples, t) == {x \in tuples : x[1] = t}

Moved(tuples, t, name) == {[x EXCEPT ![1] = IF @ = t THEN name ELSE @] : x \in tuples}

Keep(f, names) == [t \in DOMAIN f \cap names |-> f[t]]

Effect(s, o) ==
    CASE o.op \in {"create", "add"} ->
            [s EXCEPT !.tables = (o.table :> o.columns
                                             \cup (IF o.op = "add" THEN s.tables[o.table] ELSE {})) @@ @,
                      !.refs = @ \cup {<<o.table, r[1], r[2]>> : r \in o.refs}]
      [] o.op = "drop" ->
            [s EXCEPT !.tables = Keep(@, DOMAIN @ \ {o.table}), !.refs = @ \ Of(@, o.table),
                      !.typed = @ \ Of(@, o.table), !.rows = @ \ Of(@, o.table)]
      [] o.op = "remove" ->
            [s EXCEPT !.tables[o.table] = @ \ o.columns,
                      !.refs = {r \in @ : ~(r[1] = o.table /\ r[2] \in o.columns)}]
      [] o.op = "rename" ->
            [s EXCEPT !.tables = (o.name :> s.tables[o.table]) @@ Keep(@, DOMAIN @ \ {o.table}),
                      !.refs = {[r EXCEPT ![3] = IF @ = o.table THEN o.name ELSE @]
                                : r \in Moved(@, o.table, o.name)}]
      [] o.op \in {"create_type", "add_value"} ->
            [s EXCEPT !.types = (o.type :> o.values
                                           \cup (IF o.op = "add_value" THEN s.types[o.type] ELSE {})) @@ @]
      [] o.op = "drop_type" -> [s EXCEPT !.types = Keep(@, DOMAIN @ \ {o.type})]
      [] o.op = "retype" ->
            [s EXCEPT !.typed = {u \in @ : ~(u[1] = o.table /\ u[2] = o.column)}
                                \cup (IF o.type = "VARCHAR" THEN {} ELSE {<<o.table, o.column, o.type>>})]
      [] o.op = "update" ->
            [s EXCEPT !.rows = {IF v = <<o.table, o.column, o.old>> THEN <<o.table, o.column, o.new>> ELSE v
                                : v \in @}]

\* The statements of one migration; after one that fails nothing is done.
Run(s, migration) ==
    FoldLeft(LAMBDA done, o : IF done.ok /\ Possible(done, o) THEN Effect(done, o)
                              ELSE [done EXCEPT !.ok = FALSE],
             s, migration)
=============================================================================
