----------------------------- MODULE SchemaEvolution -----------------------------
(***************************************************************************)
(* The evolution of one table: two definitions of a module are compared    *)
(* (tools/schema_evolution.py), the change of a type is judged             *)
(* (tools/type_evolution.py), a migration is written under a reviewed      *)
(* policy (tools/alembic_migration.py), and PostgreSQL runs it in one      *)
(* transaction on whatever the application stored meanwhile.  How a        *)
(* migration is published, executed and recovered is MigrationExecution.   *)
(*                                                                         *)
(* A value is the room it takes, and whether it is ciphertext: lower and   *)
(* upper keep it, trim may not.  A name of a database object stands for    *)
(* what the name is made of: kind, columns and, for an index, the digest   *)
(* of its predicate.  A partial index leaves out the rows with a null.     *)
(* Check constraints and expression indexes can only refuse a migration    *)
(* and are left out; so are relationships, which change with their foreign *)
(* key.                                                                    *)
(***************************************************************************)
EXTENDS Integers, FiniteSets, SequencesExt

CONSTANTS
    Definitions,    \* the definitions that are proposed
    Policies,       \* the policies that are reviewed
    Position,       \* the order of the column names
    Values,         \* the room that the values of the application take
    Trimmed,        \* Trimmed[n]: the room of a value of room n without its spaces
    Owners,         \* the rows that a foreign key can refer to
    Envelope,       \* what encryption adds to a value
    MaxRows,        \* bound: rows of the table
    MaxMigrations   \* bound: migrations in force

Definition(fields, indexes, uniques) ==
    [fields |-> fields, indexes |-> indexes, uniques |-> uniques, options |-> {}]
Absent == [Definition({}, {}, {}) EXCEPT !.options = {"absent"}]
Unbounded == 0       \* no maximum length
NoDefault == -1
NullDefault == -2    \* the literal None
Callable == -3       \* a reference to a function
Field(name, type) ==
    [name |-> name, type |-> type, nullable |-> FALSE, unique |-> FALSE, index |-> FALSE,
     default |-> NoDefault, fk |-> FALSE, encrypted |-> FALSE, rules |-> 0]
Index(columns, unique, partial) == [columns |-> columns, unique |-> unique, partial |-> partial]
NoPolicy == [backfills |-> {}, removals |-> {}, verified |-> {}, constraints |-> FALSE, assertions |-> {}]

Null == [room |-> -1, sealed |-> FALSE]
Plain(n) == [room |-> n, sealed |-> FALSE]
Sealed(n) == [room |-> n + Envelope, sealed |-> TRUE]
Cells == [room : Int, sealed : BOOLEAN]

Types == [kind : STRING, size : Nat, scale : Nat, values : Seq(STRING)]
FieldRecords ==
    [name : DOMAIN Position, type : Types, nullable : BOOLEAN, unique : BOOLEAN, index : BOOLEAN,
     default : Int, fk : BOOLEAN, encrypted : BOOLEAN, rules : Nat]

ASSUME EvolutionAssumption ==
    /\ \A d \in Definitions :
          /\ DOMAIN d = DOMAIN Absent /\ d.options # Absent.options
          /\ IsFiniteSet(d.fields) /\ IsFiniteSet(d.indexes) /\ IsFiniteSet(d.uniques)
          /\ d.fields \subseteq FieldRecords
          /\ \A f \in d.fields : f.type.kind = "int" => f.type.scale = 0
    /\ Position \in [DOMAIN Position -> Nat] /\ IsInjective(Position)
    /\ \A policy \in Policies :
          IsFiniteSet(policy.assertions) /\ \A b \in policy.backfills : b.value \in Cells
    /\ Values \subseteq Nat /\ Envelope \in Nat /\ Trimmed \in [DOMAIN Trimmed -> Nat]

(***************************************************************************)
(* What is a definition?  The planner validates both, the renderer what it *)
(* reads in the changes.                                                   *)
(***************************************************************************)
Names(d) == {f.name : f \in d.fields}
IsEnum(t) == t.kind = "enum"
ValidEnum(t) == t.values # <<>> /\ IsInjective(t.values)

ValidString(t) == t.size >= 0
ValidDecimal(t) == t.size >= 1 /\ t.scale <= t.size
ValidEncryption(f) ==
    f.encrypted => f.type.kind \in {"str", "text"} /\ ~f.unique /\ ~f.index /\ ~f.fk /\ f.default = NoDefault

ValidField(f) ==
    /\ f.type.kind = "str" => ValidString(f.type)
    /\ f.type.kind = "decimal" => ValidDecimal(f.type)
    /\ f.type.kind = "enum" => ValidEnum(f.type)
    /\ ValidEncryption(f)

ColumnsOf(d) == {f.name : f \in {g \in d.fields : ~g.encrypted}}

Valid(d) ==
    /\ \A f \in d.fields : ValidField(f)
    /\ Cardinality(Names(d)) = Cardinality(d.fields)
    /\ \A x \in d.indexes : x.columns # {} /\ x.columns \subseteq ColumnsOf(d)
    /\ \A cs \in d.uniques : Cardinality(cs) >= 2 /\ cs \subseteq ColumnsOf(d)

(***************************************************************************)
(* The difference of two definitions.  A plan stands for the changes that  *)
(* it lists; a pair is a field of both.                                    *)
(***************************************************************************)
Plan(old, new) == [old |-> old, new |-> new]
Added(p) == {f \in p.new.fields : f.name \notin Names(p.old)}
Removed(p) == {f \in p.old.fields : f.name \notin Names(p.new)}
Pairs(p) == {c \in p.old.fields \X p.new.fields : c[1].name = c[2].name}

Enums(p) == {c \in Pairs(p) : c[1].type # c[2].type /\ IsEnum(c[1].type) /\ IsEnum(c[2].type)}
Retyped(p) == {c \in Pairs(p) : c[1].type # c[2].type} \ Enums(p)
Redefaulted(p) == {c \in Pairs(p) : c[1].default # c[2].default}
Referring(p) == {c \in Pairs(p) : ~c[1].fk /\ c[2].fk}
MadeUnique(p) == {c \in Pairs(p) : ~c[1].unique /\ c[2].unique}

\* an index of a field is an index of one column; here, those of the fields of both
FieldIndex(f) == Index({f.name}, FALSE, FALSE)
FieldIndexes(fs) == {FieldIndex(f) : f \in {g \in fs : g.index}}
IndexesBefore(p) == p.old.indexes \cup FieldIndexes({c[1] : c \in Pairs(p)})
IndexesAfter(p) == p.new.indexes \cup FieldIndexes({c[2] : c \in Pairs(p)})
IndexesRemoved(p) == IndexesBefore(p) \ IndexesAfter(p)
IndexesAdded(p) == IndexesAfter(p) \ IndexesBefore(p)

Empty(p) == p.old = p.new

\* what no migration is written for
Unsupported(p) ==
    \/ Removed(p) # {}
    \/ \E c \in Pairs(p) : \/ c[1].nullable # c[2].nullable
                           \/ c[1].encrypted # c[2].encrypted
                           \/ c[1].rules # c[2].rules
                           \/ c[1].unique /\ ~c[2].unique
                           \/ c[1].fk /\ ~c[2].fk
    \/ p.old.uniques \ p.new.uniques # {}
    \/ p.old # Absent /\ p.old.options # p.new.options

(***************************************************************************)
(* How safe is a difference?  Judged change by change, without the rows.   *)
(***************************************************************************)
AdditionSafety(f) ==
    IF (f.nullable \/ f.default # NoDefault) /\ ~f.fk /\ ~f.unique /\ ~f.encrypted
    THEN "SAFE_ADDITIVE" ELSE "REQUIRES_DATA_MIGRATION"

PairSafety(old, new) ==
    LET appended == IsEnum(old.type) /\ IsEnum(new.type) /\ IsPrefix(old.type.values, new.type.values)
    IN  {safety \in {"SAFE_ADDITIVE", "REQUIRES_DATA_MIGRATION", "POTENTIALLY_DESTRUCTIVE", "UNSUPPORTED"} :
            CASE safety = "SAFE_ADDITIVE" ->
                   \/ old.type # new.type /\ appended
                   \/ ~old.nullable /\ new.nullable
                   \/ ~old.index /\ new.index
              [] safety = "REQUIRES_DATA_MIGRATION" ->
                   \/ old.nullable /\ ~new.nullable
                   \/ ~old.unique /\ new.unique
                   \/ old.default # new.default
                   \/ ~old.fk /\ new.fk
                   \/ ~old.encrypted /\ new.encrypted
              [] safety = "POTENTIALLY_DESTRUCTIVE" ->
                   \/ old.type # new.type /\ ~appended
                   \/ old.unique /\ ~new.unique
                   \/ old.index /\ ~new.index
                   \/ old.fk /\ ~new.fk
                   \/ old.encrypted /\ ~new.encrypted
              [] OTHER -> old.rules # new.rules}

Judged(changes, safety) == IF changes = {} THEN {} ELSE {safety}

OptionSafety(old, new) ==
    Judged({"soft_delete"} \cap (new \ old), "SAFE_ADDITIVE")
        \cup Judged({"soft_delete", "tenant"} \cap (old \ new), "POTENTIALLY_DESTRUCTIVE")
        \cup Judged(({"tenant"} \cap (new \ old))
                        \cup {o \in {"audit", "version"} : (o \in old) # (o \in new)},
                    "REQUIRES_DATA_MIGRATION")

\* mutant: what is added is called safe, though it may be unique
NamedSafetyOfAdditions(old, new) ==
    Judged(old \ new, "POTENTIALLY_DESTRUCTIVE") \cup Judged(new \ old, "SAFE_ADDITIVE")

NamedSafety(old, new) ==
    Judged(old \ new, "POTENTIALLY_DESTRUCTIVE") \cup Judged(new \ old, "REQUIRES_DATA_MIGRATION")

Safeties(p) ==
    IF p.old = Absent THEN {"SAFE_ADDITIVE"}
    ELSE {AdditionSafety(f) : f \in Added(p)}
            \cup Judged(Removed(p), "POTENTIALLY_DESTRUCTIVE")
            \cup (UNION {PairSafety(c[1], c[2]) : c \in Pairs(p)})
            \cup NamedSafety(p.old.indexes, p.new.indexes)
            \cup NamedSafety(p.old.uniques, p.new.uniques)
            \cup OptionSafety(p.old.options, p.new.options)

\* the worst of them
ClassifyPlan(p) ==
    CASE Empty(p)                                  -> "UNCHANGED"
      [] "UNSUPPORTED" \in Safeties(p)             -> "UNSUPPORTED"
      [] "POTENTIALLY_DESTRUCTIVE" \in Safeties(p) -> "POTENTIALLY_DESTRUCTIVE"
      [] "REQUIRES_DATA_MIGRATION" \in Safeties(p) -> "REQUIRES_POLICY"
      [] OTHER                                     -> "SAFE_ADDITIVE"

(***************************************************************************)
(* Is the change of a type safe?                                           *)
(***************************************************************************)
ClassifyStrings(old, new) ==
    IF old.size # Unbounded /\ (new.size = Unbounded \/ new.size > old.size) THEN "SAFE_WIDENING"
    ELSE IF old.size = new.size THEN "UNSUPPORTED"
    ELSE "POTENTIALLY_DESTRUCTIVE"

\* mutant: a wider number is taken for a wider column, whatever its scale
ClassifyDecimalsByPrecision(old, new) ==
    IF new.size > old.size THEN "SAFE_WIDENING"
    ELSE IF new.size < old.size \/ new.scale < old.scale THEN "POTENTIALLY_DESTRUCTIVE"
    ELSE "REQUIRES_VALIDATION"

ClassifyDecimals(old, new) ==
    IF new.scale = old.scale /\ new.size > old.size THEN "SAFE_WIDENING"
    ELSE IF new.size < old.size \/ new.scale < old.scale THEN "POTENTIALLY_DESTRUCTIVE"
    ELSE "REQUIRES_VALIDATION"

Classify(old, new) ==
    CASE old.kind = "str" /\ new.kind = "str"         -> ClassifyStrings(old, new)
      [] old.kind = "str" /\ new.kind = "text"        -> "SAFE_WIDENING"
      [] old.kind = "decimal" /\ new.kind = "decimal" -> ClassifyDecimals(old, new)
      [] old.kind = "int" /\ new.kind = "decimal"     ->
           IF new.size >= 19 /\ new.scale = 0 THEN "SAFE_WIDENING" ELSE "REQUIRES_VALIDATION"
      [] old.kind = "float" /\ new.kind = "int"       -> "POTENTIALLY_DESTRUCTIVE"
      [] old.kind = "text" /\ new.kind = "str"        -> "REQUIRES_VALIDATION"
      [] old.kind = "uuid" /\ new.kind = "str"        -> "REQUIRES_TRANSFORMATION_POLICY"
      [] OTHER                                        -> "UNSUPPORTED"

AppendOnly(old, new) == IsStrictPrefix(old.values, new.values)

(***************************************************************************)
(* What a migration does, one step for every change, in the order of the   *)
(* kinds and then of the names; each with the operation that undoes it.    *)
(***************************************************************************)
Check(a) == [op |-> "assert", that |-> a]
CreateIndex(x) == [op |-> "add_index", index |-> x]
DropIndex(x) == [op |-> "drop_index", index |-> x]
AddUnique(columns) == [op |-> "add_unique", columns |-> columns]
AddReference(f) == [op |-> "add_fk", name |-> f.name]
AlterType(f) == [op |-> "alter_type", name |-> f.name, type |-> f.type]
SetDefault(f) == [op |-> "set_default", name |-> f.name, default |-> f.default]
DropField(f) == [op |-> "drop_column", name |-> f.name]
DropReference(f) == [op |-> "drop_fk", name |-> f.name]
DropUnique(columns) == [op |-> "drop_unique", columns |-> columns]
If(condition, op) == IF condition THEN <<op>> ELSE <<>>

Required(f) == ~f.nullable /\ f.default = NoDefault
Column(f) == [name |-> f.name, type |-> IF f.encrypted THEN [f.type EXCEPT !.kind = "text"] ELSE f.type,
              nullable |-> f.nullable, default |-> f.default]

\* mutant: the column is filled, and left as it is
RequiredAdditionUnchecked(f, backfill) ==
    <<[op |-> "add_column", column |-> [Column(f) EXCEPT !.nullable = TRUE]]>>
        \o If(f.unique, AddUnique({f.name}))
        \o <<[op |-> "fill", name |-> f.name, by |-> backfill]>>

\* nullable, filled, proved to be full, and only then required
RequiredAddition(f, backfill) ==
    <<[op |-> "add_column", column |-> [Column(f) EXCEPT !.nullable = TRUE]]>>
        \o If(f.unique, AddUnique({f.name}))
        \o <<[op |-> "fill", name |-> f.name, by |-> backfill],
             Check([kind |-> "null_count", fields |-> {f.name}, count |-> 0]),
             [op |-> "require", name |-> f.name]>>

Addition(f) ==
    <<[op |-> "add_column", column |-> Column(f)]>>
        \o If(f.unique, AddUnique({f.name}))
        \o If(f.fk, AddReference(f))
        \o If(f.index, CreateIndex(FieldIndex(f)))

BackfillOf(policy, name) == CHOOSE b \in policy.backfills : b.target = name
AdditionOf(f, policy) == IF Required(f) THEN RequiredAddition(f, BackfillOf(policy, f.name)) ELSE Addition(f)

Raise == [op |-> "raise"]
Step(up, down) == [up |-> up, down |-> down]

InOrder(names) ==
    CHOOSE s \in [1..Cardinality(names) -> names] : \A i, j \in DOMAIN s : i < j => Position[s[i]] < Position[s[j]]
FieldNamed(fields, name) == CHOOSE f \in fields : f.name = name
PairNamed(pairs, name) == CHOOSE c \in pairs : c[1].name = name
Each(seq, F(_)) == [i \in 1..Len(seq) |-> F(seq[i])]
EachField(fields, F(_)) == Each(InOrder({f.name : f \in fields}), LAMBDA n : F(FieldNamed(fields, n)))
EachPair(pairs, F(_)) == Each(InOrder({c[1].name : c \in pairs}), LAMBDA n : F(PairNamed(pairs, n)))

TableSteps(p) ==
    IF p.old # Absent THEN <<>>
    ELSE <<Step(<<[op |-> "create_table", definition |-> p.new]>>, [op |-> "drop_table"])>>

AddedSteps(p, policy) ==
    IF p.old = Absent THEN <<>>
    ELSE EachField(Added(p), LAMBDA f : Step(AdditionOf(f, policy), DropField(f)))

RetypedSteps(p) ==
    EachPair(Retyped(p) \cup Enums(p), LAMBDA c : Step(<<AlterType(c[2])>>, Raise))

DefaultSteps(p) ==
    EachPair(Redefaulted(p), LAMBDA c : Step(<<SetDefault(c[2])>>, SetDefault(c[1])))

ReferenceSteps(p) ==
    EachPair(Referring(p), LAMBDA c : Step(<<AddReference(c[2])>>, DropReference(c[2])))

UniquesAdded(p) == {{c[1].name} : c \in MadeUnique(p)} \cup (p.new.uniques \ p.old.uniques)
UniqueSteps(p) == Each(SetToSeq(UniquesAdded(p)), LAMBDA cs : Step(<<AddUnique(cs)>>, DropUnique(cs)))

IndexRemovals(p) == Each(SetToSeq(IndexesRemoved(p)), LAMBDA x : Step(<<DropIndex(x)>>, CreateIndex(x)))

IndexAdditions(p) == Each(SetToSeq(IndexesAdded(p)), LAMBDA x : Step(<<CreateIndex(x)>>, DropIndex(x)))

Steps(p, policy) ==
    IF p.old = Absent THEN TableSteps(p)
    ELSE IndexRemovals(p) \o AddedSteps(p, policy) \o RetypedSteps(p) \o DefaultSteps(p)
            \o ReferenceSteps(p) \o UniqueSteps(p) \o IndexAdditions(p)

\* a migration is a sequence of groups of operations; the assertions of the
\* policy come first
UpgradeOf(steps, policy) ==
    Each(SetToSeq(policy.assertions), LAMBDA a : <<Check(a)>>) \o Each(steps, LAMBDA s : s.up)

DowngradeOf(steps) == Reverse(Each(steps, LAMBDA s : <<s.down>>))

(***************************************************************************)
(* What the policy must have reviewed, and what can be written at all.     *)
(***************************************************************************)
ValidTransform(b) ==
    IF b.kind = "literal" THEN b.source = "" ELSE b.source # "" /\ b.value = Null

ValidAssertion(a) ==
    /\ a.fields # {} /\ a.count >= 0
    /\ a.kind # "unique" => Cardinality(a.fields) = 1

ValidPolicy(policy) ==
    /\ \A b \in policy.backfills : ValidTransform(b) /\ b.source # b.target
    /\ \A b, c \in policy.backfills : b.target = c.target => b = c
    /\ \A a \in policy.assertions : ValidAssertion(a)

\* the states of the changes are validated again, whoever planned them
ValidPlan(p) ==
    IF p.old = Absent THEN Valid(p.new)
    ELSE /\ \A f \in Added(p) : ValidField(f)
         /\ \A x \in IndexesRemoved(p) \cup IndexesAdded(p) : x.columns # {}
         /\ \A cs \in p.new.uniques \ p.old.uniques : Cardinality(cs) >= 2
         /\ \A c \in Retyped(p) : ValidField(c[1]) /\ ValidField(c[2])
         /\ \A c \in Enums(p) : /\ AppendOnly(c[1].type, c[2].type)
                                /\ ValidEnum(c[1].type) /\ ValidEnum(c[2].type)

NeedsProof(p) ==
    {c[1].name : c \in Redefaulted(p) \cup Referring(p) \cup MadeUnique(p)}
        \cup {f.name : f \in {g \in Added(p) : ~Required(g) /\ (g.unique \/ g.fk)}}

Literal(default) == default # Callable
HasSql(t) == t.kind \in {"str", "text", "int", "float", "decimal", "enum", "uuid"}

Renderable(p, policy) ==
    /\ ~Empty(p) /\ ~Unsupported(p)
    /\ ValidPlan(p)
    /\ \A f \in Added(p) : HasSql(f.type) /\ Literal(f.default)
    /\ \A c \in Redefaulted(p) : Literal(c[1].default) /\ Literal(c[2].default)
    /\ p.old = Absent => policy.backfills = {} /\ \A f \in p.new.fields : ~IsEnum(f.type)
    /\ p.old # Absent =>
          /\ {b.target : b \in policy.backfills} = {f.name : f \in {g \in Added(p) : Required(g)}}
          /\ \A c \in Retyped(p) : Classify(c[1].type, c[2].type) = "SAFE_WIDENING"
          /\ IndexesRemoved(p) \subseteq policy.removals
          /\ NeedsProof(p) \subseteq policy.verified
          /\ p.new.uniques \ p.old.uniques # {} => policy.constraints

(***************************************************************************)
(* PostgreSQL: a table, and what an operation does to it or refuses.       *)
(***************************************************************************)
NoTable == [exists |-> FALSE, columns |-> {}, indexes |-> {}, uniques |-> {}, fks |-> {}]

\* a number is counted in hundredths, and keeps the scale of its column
Unit(scale) == CASE scale = 0 -> 100 [] scale = 1 -> 10 [] OTHER -> 1
Place(type, v) == IF type.kind \notin {"int", "decimal"} \/ v = Null THEN v
                  ELSE [v EXCEPT !.room = (@ \div Unit(type.scale)) * Unit(type.scale)]

Fits(type, v) ==
    \/ v = Null
    \/ CASE type.kind = "str"     -> type.size = Unbounded \/ v.room <= type.size
         [] type.kind = "decimal" -> type.size - type.scale > 3 \/ v.room < 10 ^ (type.size - type.scale + 2)
         [] type.kind = "enum"    -> v.room \in 1..Len(type.values)
         [] OTHER                 -> TRUE

SetColumn(t, name, F(_)) == [t EXCEPT !.columns = {IF c.name = name THEN F(c) ELSE c : c \in @}]
ColumnNames(t) == {c.name : c \in t.columns}

Distinct(rows, columns) ==
    \A i, j \in DOMAIN rows :
        i # j /\ (\A n \in columns : rows[i][n] # Null) => \E n \in columns : rows[i][n] # rows[j][n]

\* a table and rows that PostgreSQL holds together
Holds(t, rows) ==
    \A i \in DOMAIN rows :
        /\ \A c \in t.columns : Fits(c.type, rows[i][c.name]) /\ (rows[i][c.name] = Null => c.nullable)
        /\ \A n \in t.fks : rows[i][n] = Null \/ rows[i][n].room \in Owners

AllDistinct(t, rows) ==
    \A columns \in t.uniques \cup {x.columns : x \in {y \in t.indexes : y.unique}} : Distinct(rows, columns)

Extended(row, name, v) == [n \in DOMAIN row \cup {name} |-> IF n = name THEN v ELSE row[n]]
Without(row, name) == [n \in DOMAIN row \ {name} |-> row[n]]

\* no default and None are NULL
Start(c) == IF c.default \in {NoDefault, NullDefault} THEN Null ELSE Place(c.type, Plain(c.default))
TypeOf(t, name) == (CHOOSE c \in t.columns : c.name = name).type

Retype(t, rows, o) ==
    [table |-> SetColumn(t, o.name, LAMBDA c : [c EXCEPT !.type = o.type]),
     rows |-> [i \in DOMAIN rows |-> [rows[i] EXCEPT ![o.name] = Place(o.type, @)]]]

Fill(t, rows, o) ==
    LET From(row) ==
            CASE o.by.kind = "literal" -> o.by.value
              [] o.by.kind = "trim"    -> [row[o.by.source] EXCEPT !.room = IF @ \in DOMAIN Trimmed THEN Trimmed[@] ELSE @]
              [] OTHER                 -> row[o.by.source]
    IN  [table |-> t, rows |-> [i \in DOMAIN rows |-> [rows[i] EXCEPT ![o.name] = Place(TypeOf(t, o.name), From(rows[i]))]]]

DropColumn(t, rows, o) ==
    [table |-> [t EXCEPT !.columns = {c \in @ : c.name # o.name}, !.fks = @ \ {o.name},
                         !.uniques = {cs \in @ : o.name \notin cs},
                         !.indexes = {x \in @ : o.name \notin x.columns}],
     rows |-> [i \in DOMAIN rows |-> Without(rows[i], o.name)]]

CreateTable(d) ==
    [exists |-> TRUE, columns |-> {Column(f) : f \in d.fields}, indexes |-> d.indexes,
     uniques |-> d.uniques \cup {{f.name} : f \in {g \in d.fields : g.unique}},
     fks |-> {f.name : f \in {g \in d.fields : g.fk}}]

\* create_all takes the indexes of the fields with the table, and makes the enum
\* types; a default is then left to the application, and a field both unique
\* and indexed gets one unique index, so that those make another table
Baseline(d) == [CreateTable(d) EXCEPT !.indexes = @ \cup FieldIndexes(d.fields)]
Founding(d) == Valid(d) /\ \A f \in d.fields : f.default = NoDefault /\ ~(f.unique /\ f.index)

\* what an assertion counts: rows, rows without a value, or values that repeat
Count(rs, a) ==
    CASE a.kind = "row_count"  -> Len(rs)
      [] a.kind = "null_count" -> Cardinality({i \in DOMAIN rs : \A n \in a.fields : rs[i][n] = Null})
      [] OTHER                 ->
           LET Key(i) == [n \in a.fields |-> rs[i][n]]
           IN  Cardinality({Key(i) : i \in {j \in DOMAIN rs : \E k \in DOMAIN rs \ {j} : Key(j) = Key(k)}})

\* op.add_column makes no enum type, and an enum that is added has none yet
Applicable(t, rs, o) ==
    CASE o.op = "raise"        -> FALSE
      [] o.op = "create_table" -> ~t.exists /\ \A x \in o.definition.indexes : x.columns \subseteq Names(o.definition)
      [] o.op = "assert"       ->
           /\ t.exists /\ (o.that.kind # "row_count" => o.that.fields \subseteq ColumnNames(t))
           /\ Count(rs, o.that) = o.that.count
      [] o.op = "add_column"   -> o.column.name \notin ColumnNames(t) /\ ~IsEnum(o.column.type)
      [] o.op = "fill"         -> o.by.source \in {""} \cup ColumnNames(t)
      [] o.op = "add_index"    -> o.index \notin t.indexes /\ o.index.columns \subseteq ColumnNames(t)
      [] o.op = "drop_index"   -> o.index \in t.indexes
      [] o.op = "add_unique"   -> o.columns \notin t.uniques
      [] o.op = "drop_unique"  -> o.columns \in t.uniques
      [] o.op = "add_fk"       -> o.name \notin t.fks
      [] o.op = "drop_fk"      -> o.name \in t.fks
      [] OTHER                 -> TRUE

Effect(t, rows, o) ==
    CASE o.op = "create_table" -> [table |-> CreateTable(o.definition), rows |-> rows]
      [] o.op = "drop_table"   -> [table |-> NoTable, rows |-> <<>>]
      [] o.op = "add_column"   ->
           [table |-> [t EXCEPT !.columns = @ \cup {o.column}],
            rows |-> [i \in DOMAIN rows |-> Extended(rows[i], o.column.name, Start(o.column))]]
      [] o.op = "drop_column"  -> DropColumn(t, rows, o)
      [] o.op = "fill"         -> Fill(t, rows, o)
      [] o.op = "require"      ->
           [table |-> SetColumn(t, o.name, LAMBDA c : [c EXCEPT !.nullable = FALSE]), rows |-> rows]
      [] o.op = "alter_type"   -> Retype(t, rows, o)
      [] o.op = "set_default"  ->
           [table |-> SetColumn(t, o.name, LAMBDA c : [c EXCEPT !.default = o.default]), rows |-> rows]
      [] o.op = "add_index"    -> [table |-> [t EXCEPT !.indexes = @ \cup {o.index}], rows |-> rows]
      [] o.op = "drop_index"   ->
           [table |-> [t EXCEPT !.indexes = @ \ {o.index}], rows |-> rows]
      [] o.op = "add_unique"   -> [table |-> [t EXCEPT !.uniques = @ \cup {o.columns}], rows |-> rows]
      [] o.op = "drop_unique"  -> [table |-> [t EXCEPT !.uniques = @ \ {o.columns}], rows |-> rows]
      [] o.op = "add_fk"       -> [table |-> [t EXCEPT !.fks = @ \cup {o.name}], rows |-> rows]
      [] o.op = "drop_fk"      -> [table |-> [t EXCEPT !.fks = @ \ {o.name}], rows |-> rows]
      [] OTHER                 -> [table |-> t, rows |-> rows]

\* one transaction: the first operation that is refused undoes them all
Aborted == [ok |-> FALSE, table |-> NoTable, rows |-> <<>>]
Perform(run, o) ==
    IF run.ok /\ Applicable(run.table, run.rows, o)
    THEN LET next == Effect(run.table, run.rows, o)
         IN  IF Holds(next.table, next.rows) /\ AllDistinct(next.table, next.rows)
             THEN [ok |-> TRUE, table |-> next.table, rows |-> next.rows] ELSE Aborted
    ELSE Aborted

Group(run, ops) ==
    LET after[i \in 0..Len(ops)] == IF i = 0 THEN run ELSE Perform(after[i - 1], ops[i])
    IN  after[Len(ops)]

Transaction(t, rs, groups) ==
    LET after[i \in 0..Len(groups)] ==
            IF i = 0 THEN [ok |-> TRUE, table |-> t, rows |-> rs] ELSE Group(after[i - 1], groups[i])
    IN  after[Len(groups)]

(***************************************************************************)
(* The life of the table.  "applied" remembers the migrations in force,    *)
(* the last one at the end: the definition it started from, and its        *)
(* downgrade.                                                              *)
(***************************************************************************)
VARIABLES definition, table, rows, applied
evolutionVars == <<definition, table, rows, applied>>

\* no table at all, or a definition that SchemaLifecycle.initialize accepted
EvolutionInit ==
    /\ \/ definition = Absent /\ table = NoTable
       \/ \E d \in Definitions : Founding(d) = TRUE /\ definition = d /\ table = Baseline(d)
    /\ rows = <<>> /\ applied = <<>>

Upgrade(new, policy) ==
    LET p == Plan(definition, new)
    IN  /\ Len(applied) < MaxMigrations
        /\ (Valid(new) /\ ValidPolicy(policy) /\ Renderable(p, policy)) = TRUE
        /\ LET steps == Steps(p, policy)
               run == Transaction(table, rows, UpgradeOf(steps, policy))
           IN  /\ run.ok
               /\ definition' = new /\ table' = run.table /\ rows' = run.rows
               /\ applied' = Append(applied, [before |-> definition, down |-> DowngradeOf(steps)])

Undone == Transaction(table, rows, Last(applied).down)

Downgrade ==
    /\ applied # <<>>
    /\ Undone.ok
    /\ definition' = Last(applied).before
    /\ table' = Undone.table /\ rows' = Undone.rows
    /\ applied' = Front(applied)

\* what the application stores in a field: a nullable one may be left out
Stored(f) ==
    {IF f.encrypted THEN Sealed(v) ELSE Place(f.type, Plain(v)) :
        v \in {w \in Values : Fits(f.type, Plain(w))}}
        \cup (IF f.nullable THEN {Null} ELSE {})

Write ==
    /\ table.exists /\ Len(rows) < MaxRows
    /\ \E row \in {r \in [Names(definition) -> UNION {Stored(f) : f \in definition.fields}] :
                      \A f \in definition.fields : r[f.name] \in Stored(f)} :
          LET next == Append(rows, row)
          IN  (Holds(table, next) /\ AllDistinct(table, next)) = TRUE /\ rows' = next
    /\ UNCHANGED <<definition, table, applied>>

EvolutionNext ==
    \/ \E new \in Definitions, policy \in Policies : Upgrade(new, policy)
    \/ Downgrade
    \/ Write

EvolutionSpec == EvolutionInit /\ [][EvolutionNext]_evolutionVars

-----------------------------------------------------------------------------
(***************************************************************************)
(* Properties                                                              *)
(***************************************************************************)

\* A migration loses nothing that was stored: every row is still there, with
\* the value it had in every column it had.  What is a safe widening is judged
\* without looking at the rows (type_evolution.py).
RowsKept ==
    [][Len(applied') > Len(applied) =>
          /\ DOMAIN rows' = DOMAIN rows
          /\ \A i \in DOMAIN rows : \A n \in DOMAIN rows[i] : rows'[i][n] = rows[i][n]]_evolutionVars

\* Whatever migrations were applied and undone, the columns and the unique
\* constraints are those of the definition in force, and it admits every row:
\* nothing required is null and every value fits.  A widened encrypted column
\* is the exception: it takes the type of the plain text.
DatabaseFollows ==
    definition # Absent =>
        /\ \A f \in {g \in definition.fields : ~g.encrypted} : Column(f) \in table.columns
        /\ ColumnNames(table) = Names(definition)
        /\ table.uniques = CreateTable(definition).uniques
        /\ \A i \in DOMAIN rows : \A f \in definition.fields :
              /\ rows[i][f.name] = Null => f.nullable
              /\ f.encrypted \/ Fits(f.type, rows[i][f.name])

\* A definition that validates, differs by additions that are called safe and
\* can be written without a policy migrates on whatever rows there are.  It
\* takes defaults that are values of the column: a default of None is taken for
\* one, and the length of a string default is not looked at.  And it takes that
\* no enum is added: that is called safe too, and op.add_column fails on a type
\* that nothing has made (only a new table refuses enums).
NoEnumAdded(p) == \A f \in Added(p) : ~IsEnum(f.type)
DefaultsFit(p) ==
    \A f \in Added(p) : f.default # NoDefault => f.default # NullDefault /\ Fits(f.type, Plain(f.default))
SafeNeverFails ==
    \A new \in {d \in Definitions : Valid(d)} :
        LET p == Plan(definition, new)
        IN  ClassifyPlan(p) = "SAFE_ADDITIVE" /\ Renderable(p, NoPolicy) /\ DefaultsFit(p) /\ NoEnumAdded(p)
               => Transaction(table, rows, UpgradeOf(Steps(p, NoPolicy), NoPolicy)).ok

\* "The database stores only authenticated, versioned ciphertext."
EncryptedStaysSealed ==
    \A i \in DOMAIN rows : \A f \in {g \in definition.fields : g.encrypted} :
        rows[i][f.name] = Null \/ rows[i][f.name].sealed
=============================================================================
