---------------------------- MODULE FieldDeclarations ----------------------------
(***************************************************************************)
(* How the declarations of a module are read (tools/core/*_parser.py,      *)
(* tools/validators/field_validator.py, tools/core/module_definition.py).  *)
(* A field is declared by a name, a type and modifiers, which an author    *)
(* adds one after the other; what has been declared so far is either       *)
(* refused or a module.  The text is abstracted: a modifier is a kind and  *)
(* what it says, an expression the names it reads, a type well formed.     *)
(***************************************************************************)
EXTENDS Integers, Sequences, SequencesExt

CONSTANTS
    FieldNames,
    BadNames,       \* of these, the ones that are no public identifiers
    TargetOf,       \* what a name ending in "_id" points at, where one does
    Modifiers,      \* the modifiers at hand: [kind, says]
    NewFields,      \* the types of a new field
    Contexts,       \* what may be declared already
    Options,        \* the options of a module: [soft, audit, version, tenant, indexes]
    ModuleName, ModuleTable,
    TrustedValidators,
    LinearPatterns, \* the patterns whose search is known to end in linear time
    MaxFields, MaxModifiers   \* bounds

VARIABLES declared, option
declarationVars == <<declared, option>>

Kinds == {"pk", "nullable", "unique", "index", "default", "length", "min_length", "min", "max", "regex",
          "format", "validator", "computed", "hybrid", "encrypted", "fk", "one_to_one", "one_to_many",
          "self_relationship", "scope", "cascade_delete", "passive_deletes"}
ASSUME DeclarationsAssumption ==
    /\ \A m \in Modifiers : m.kind \in Kinds
    /\ \A ds \in Contexts :
          /\ ds \in Seq(ToSet(ds))
          /\ \A i \in DOMAIN ds :
                /\ DOMAIN ds[i] = {"name", "type", "target", "modifiers"}
                /\ ds[i].modifiers \in Seq(ToSet(ds[i].modifiers))
                /\ \A j \in DOMAIN ds[i].modifiers : ds[i].modifiers[j].kind \in Kinds

Numeric == {"int", "float", "decimal"}
Textual == {"str", "text"}
KeyTypes == {"int", "uuid", "str"}
Generated == {"id", "created_at", "updated_at", "deleted_at"}
ReservedNames == Generated \cup {"metadata", "registry"}
AuditNames == {"created_by", "updated_by", "created_at", "updated_at"}
TenantKey == "tenant_id"

Refused == [kind |-> "refused"]
Has(f, kind) == f[kind] # {}
Value(f, kind) == CHOOSE v \in f[kind] : TRUE
ValidName(n) == n \notin BadNames /\ n # "none"

-----------------------------------------------------------------------------
(* One field.                                                              *)

FieldParts ==
    Kinds \cup {"kind", "name", "type", "relation", "relationName", "class", "key", "backref"}

Unmodified(d) ==
    [part \in FieldParts |->
        CASE part = "validator"        -> <<>>
          [] part \in Kinds \ {"validator"} -> {}
          [] part = "kind"             -> "field"
          [] part \in {"name", "type"} -> d[part]
          [] OTHER                     -> "none"]

\* many_to_many is a relationship by its type, and takes only a scope
Collection(d) ==
    LET f == [Unmodified(d) EXCEPT !.relation = "many_to_many", !.relationName = d.name,
                                        !.class = d.target, !.backref = ModuleTable]
    IN  IF d.target = ModuleName \/ ~ValidName(d.name) \/ Len(d.modifiers) > 1 THEN Refused
        ELSE IF d.modifiers = <<>> THEN f
        ELSE IF d.modifiers[1].kind = "scope" THEN [f EXCEPT !.scope = {d.modifiers[1].says}] ELSE Refused

Refer(f, target) ==
    LET n == IF f.name \in DOMAIN TargetOf THEN TargetOf[f.name] ELSE target.table
    IN  [f EXCEPT !.fk = {target}, !.relation = "many_to_one", !.relationName = n, !.class = n]

\* validators run in the order they are given in
Rule(f, v) == IF v \in ToSet(f.validator) THEN Refused ELSE [f EXCEPT !.validator = Append(@, v)]

\* mutant: the relationship is configured when its modifier is read
ModifyAtOnce(f, m) ==
    IF f = Refused THEN Refused
    ELSE IF Has(f, "regex") THEN [f EXCEPT !.regex = {Append(Value(f, "regex"), m)}]
    ELSE CASE m.kind = "regex" -> [f EXCEPT !.regex = {<<m>>}]
           [] m.kind = "validator" -> Rule(f, m.says)
           [] m.kind \notin {"regex", "validator"} /\ Has(f, m.kind) -> Refused
           [] m.kind = "fk" /\ ~Has(f, "fk") -> Refer(f, m.says)
           [] m.kind \in {"one_to_many", "self_relationship"} /\ ~Has(f, "fk") -> Refused
           [] OTHER -> [f EXCEPT ![m.kind] = {m.says}]

\* What follows a pattern is part of it; before it every modifier but a
\* validator is given once.
Modify(f, m) ==
    IF f = Refused THEN Refused
    ELSE IF Has(f, "regex") THEN [f EXCEPT !.regex = {Append(Value(f, "regex"), m)}]
    ELSE CASE m.kind = "regex" -> [f EXCEPT !.regex = {<<m>>}]
           [] m.kind = "validator" -> Rule(f, m.says)
           [] m.kind \notin {"regex", "validator"} /\ Has(f, m.kind) -> Refused
           [] m.kind = "fk" /\ ~Has(f, "fk") -> Refer(f, m.says)
           [] OTHER -> [f EXCEPT ![m.kind] = {m.says}]

ValidFormat(f) == Has(f, "format") => f.type \in Textual /\ f.relation # "many_to_many"
ValidCustomValidators(f) ==
    f.validator # <<>> => f.relation # "many_to_many" /\ ToSet(f.validator) \subseteq TrustedValidators

OneToOne(f) ==
    IF ~Has(f, "fk") \/ f.type \in {"array", "json"} THEN Refused
    ELSE [f EXCEPT !.relation = "one_to_one", !.unique = {"yes"}, !.backref = ModuleName]

\* what a foreign key needs for a collection on the other side
Collectable(f) ==
    Has(f, "fk") /\ f.type \in KeyTypes /\ ~Has(f, "pk") /\ ~Has(f, "unique") /\ ~Has(f, "computed")

ConfigureSelf(f) ==
    LET collection == Value(f, "self_relationship")
    IN  IF /\ Collectable(f) /\ Value(f, "fk").table = ModuleTable
           /\ {n \in {f.relationName, collection} :
                  ValidName(n) /\ n \notin ReservedNames \cup {"relationship", "backref"}} = {f.relationName, collection}
        THEN [f EXCEPT !.class = ModuleName, !.relation = "self_many_to_one",
                       !.key = Value(f, "fk").column, !.backref = collection]
        ELSE Refused

ConfigureOneToMany(f) ==
    LET to == Value(f, "one_to_many")
        target == IF to.class = "default" THEN f.class ELSE to.class
    IN  IF /\ Collectable(f) /\ f.relation # "one_to_one"
           /\ ValidName(target) /\ ValidName(to.collection) /\ to.collection \notin ReservedNames
           /\ ValidName(f.relationName) /\ f.relationName \notin ReservedNames
           /\ target # ModuleName /\ Value(f, "fk").table # ModuleTable
        THEN [f EXCEPT !.class = target, !.key = Value(f, "fk").column, !.backref = to.collection]
        ELSE Refused

Configured(f) ==
    LET one == IF Has(f, "one_to_one") THEN OneToOne(f) ELSE f
    IN  IF one = Refused THEN Refused
        ELSE IF Has(f, "self_relationship")
             THEN IF Has(f, "one_to_one") \/ Has(f, "one_to_many") THEN Refused ELSE ConfigureSelf(one)
        ELSE IF Has(f, "one_to_many") THEN ConfigureOneToMany(one)
        ELSE one

\* one modifier after the other
Modified(d) ==
    LET after[i \in 0 .. Len(d.modifiers)] ==
            IF i = 0 THEN Unmodified(d) ELSE Modify(after[i - 1], d.modifiers[i])
    IN  after[Len(d.modifiers)]

ParseField(d) ==
    IF d.type = "many_to_many" THEN Collection(d)
    ELSE LET f == Modified(d)
         IN  IF f = Refused \/ (Has(f, "pk") /\ Has(f, "nullable")) THEN Refused
             ELSE IF ValidFormat(f) /\ ValidCustomValidators(f) THEN Configured(f) ELSE Refused

-----------------------------------------------------------------------------
(* The fields of a module together.                                        *)

Others(fs, i) == {fs[j] : j \in DOMAIN fs \ {i}}
NamesOf(fs) == {fs[i].name : i \in DOMAIN fs}

OneToManyNames(fs) ==
    \A i \in DOMAIN fs :
        fs[i].relation = "many_to_one" /\ fs[i].backref # "none" =>
            /\ fs[i].relationName \notin NamesOf(fs)
            /\ \A o \in Others(fs, i) :
                  /\ o.relationName # fs[i].relationName
                  /\ ~(o.class = fs[i].class /\ o.backref = fs[i].backref)

\* mutant: only the names of fields are compared with those of a self relationship
SelfNamesOfFields(fs, i) == {fs[i].relationName, fs[i].backref} \cap NamesOf(fs) = {}

SelfNames(fs, i) ==
    LET names == {fs[i].relationName, fs[i].backref}
    IN  /\ names \cap NamesOf(fs) = {}
        /\ \A o \in Others(fs, i) :
              o.relationName \notin names /\ ~(o.class = fs[i].class /\ o.backref \in names)

PrimaryKeys(fs) == {i \in DOMAIN fs : Has(fs[i], "pk")}

SelfRelationships(fs) ==
    LET selves == {i \in DOMAIN fs : fs[i].relation = "self_many_to_one"}
        keys == {[name |-> fs[i].name, type |-> fs[i].type] : i \in PrimaryKeys(fs)}
        key == IF keys = {} THEN [name |-> "id", type |-> "int"] ELSE CHOOSE k \in keys : TRUE
    IN  selves # {} =>
            /\ \A i, j \in PrimaryKeys(fs) : i = j /\ ~Has(fs[i], "computed")
            /\ keys = {} => "id" \notin NamesOf(fs)
            /\ \A i \in selves :
                  /\ fs[i].key = key.name /\ fs[i].type = key.type /\ fs[i].name # key.name
                  /\ fs[i].relationName # fs[i].backref
                  /\ SelfNames(fs, i)

\* an encrypted, computed or hybrid field is nothing else
HasNone(f, kinds) == \A k \in kinds : ~Has(f, k)

Encrypted(f) ==
    Has(f, "encrypted") =>
        /\ f.type \in Textual /\ f.relationName = "none" /\ f.name \notin Generated
        /\ HasNone(f, {"pk", "unique", "index", "default", "fk", "computed", "hybrid", "cascade_delete",
                       "passive_deletes"})

StoredField(f) == HasNone(f, {"computed", "hybrid", "encrypted"})
Reads(fs, names) == {fs[i] : i \in {j \in DOMAIN fs : fs[j].name \in names}}

Computed(fs, f) ==
    Has(f, "computed") =>
        LET read == Value(f, "computed")
        IN  /\ f.type \in Numeric /\ HasNone(f, {"pk", "default", "fk"}) /\ f.name \notin Generated
            /\ read # {} /\ read \subseteq NamesOf(fs)
            /\ \A s \in Reads(fs, read) :
                  /\ StoredField(s) /\ s.type \in Numeric
                  /\ f.type = "int" => s.type = "int"
                  /\ Has(s, "nullable") => Has(f, "nullable")

KindOf(type) == IF type \in Numeric THEN type ELSE "text"

\* the kind of a sum of the kinds of its operands
SumKind(kinds) ==
    CASE kinds = {"text"}                          -> "text"
      [] "text" \in kinds /\ kinds # {"text"}      -> "none"
      [] {"decimal", "float"} \subseteq kinds      -> "none"
      [] "decimal" \in kinds /\ "float" \notin kinds /\ "text" \notin kinds -> "decimal"
      [] kinds \in {{"float"}, {"float", "int"}}   -> "float"
      [] OTHER                                     -> "int"

Hybrid(fs, f) ==
    Has(f, "hybrid") =>
        LET read == Value(f, "hybrid")
            kind == SumKind({KindOf(s.type) : s \in Reads(fs, read)})
        IN  /\ f.type \in Numeric \cup Textual /\ f.relationName = "none" /\ f.name \notin Generated
            /\ HasNone(f, {"computed", "pk", "default", "fk", "unique", "index", "cascade_delete", "passive_deletes"})
            /\ read # {} /\ read \subseteq NamesOf(fs) \ {f.name}
            /\ \A s \in Reads(fs, read) :
                  /\ StoredField(s) /\ s.type \in Numeric \cup Textual \cup {"choice", "enum"}
                  /\ Has(s, "nullable") => Has(f, "nullable")
            /\ kind = KindOf(f.type) \/ (f.type \in {"float", "decimal"} /\ kind = "int")

Cascades(fs) ==
    LET deleting == {i \in DOMAIN fs : Has(fs[i], "cascade_delete")}
    IN  /\ \A i \in DOMAIN fs : Has(fs[i], "passive_deletes") => i \in deleting
        /\ deleting # {} => \A i \in DOMAIN fs : {fs[i].name, fs[i].relationName} \cap {"backref", "relationship"} = {}
        /\ \A i \in deleting :
              /\ fs[i].relation \in {"many_to_one", "one_to_one", "self_many_to_one"} /\ fs[i].backref # "none"
              /\ Has(fs[i], "fk") /\ fs[i].type \in KeyTypes /\ ~Has(fs[i], "computed")
              /\ Value(fs[i], "fk").table = ModuleTable => fs[i].relation = "self_many_to_one"
              /\ \A n \in {fs[i].relationName, fs[i].class, fs[i].backref} : ValidName(n) /\ n \notin ReservedNames
              /\ fs[i].relationName \notin NamesOf(fs)
              /\ \A o \in Others(fs, i) :
                    /\ o.relationName # fs[i].relationName
                    /\ ~(o.class = fs[i].class /\ o.backref = fs[i].backref)

Bounded(f) ==
    /\ Has(f, "length") => f.type \in {"str"} /\ Value(f, "length") >= 1
    /\ Has(f, "min_length") => f.type \in Textual /\ Value(f, "min_length") >= 0
    /\ Has(f, "min_length") /\ Has(f, "length") => Value(f, "min_length") <= Value(f, "length")
    /\ Has(f, "min") \/ Has(f, "max") => f.type \in Numeric
    /\ Has(f, "min") /\ Has(f, "max") => Value(f, "min") <= Value(f, "max")
    /\ Has(f, "regex") => f.type \in Textual /\ Value(f, "regex") \in LinearPatterns

ValidFields(fs) ==
    /\ \A i, j \in DOMAIN fs : fs[i].name = fs[j].name => i = j
    /\ \A i \in DOMAIN fs : ValidName(fs[i].name) /\ Bounded(fs[i])

-----------------------------------------------------------------------------
(* The module.                                                             *)

Scopes(fs) == UNION {fs[i].scope : i \in DOMAIN fs}
AllNames(fs) == NamesOf(fs) \cup {fs[i].relationName : i \in DOMAIN fs}

ValidModule(fs, o) ==
    /\ o.tenant => TenantKey \notin NamesOf(fs)
    /\ "tenant" \in Scopes(fs) => o.tenant
    /\ o.audit => AllNames(fs) \cap AuditNames = {}
    /\ o.version => "version_id" \notin AllNames(fs)
    /\ o.soft => /\ "deleted_at" \notin AllNames(fs)
                 /\ \A i, j \in PrimaryKeys(fs) : i = j

\* the columns an index may name, and those of the table
IndexColumns(fs, o) ==
    {fs[i].name : i \in {j \in DOMAIN fs : fs[j].relation # "many_to_many" /\ HasNone(fs[j], {"hybrid", "encrypted"})}}
        \cup {"created_at", "updated_at"}
        \cup (IF PrimaryKeys(fs) = {} THEN {"id"} ELSE {})
        \cup (IF o.soft THEN {"deleted_at"} ELSE {})
        \cup (IF o.audit THEN {"created_by", "updated_by"} ELSE {})
        \cup (IF o.version THEN {"version_id"} ELSE {})

Columns(fs, o) == IndexColumns(fs, o) \cup (IF o.tenant THEN {TenantKey} ELSE {})

ValidIndexes(fs, o) ==
    \A i \in DOMAIN o.indexes : /\ ToSet(o.indexes[i]) \subseteq IndexColumns(fs, o)
                                /\ IsInjective(o.indexes[i])
                                /\ \A j \in DOMAIN o.indexes : o.indexes[i] = o.indexes[j] => i = j

\* the scope that is not declared is that of the module
Scoped(f, o) == IF o.tenant /\ f.relationName # "none" /\ f.scope = {} THEN [f EXCEPT !.scope = {"tenant"}] ELSE f

Parse(ds, o) ==
    LET fs == [i \in DOMAIN ds |-> ParseField(ds[i])]
    IN  IF \E i \in DOMAIN fs : fs[i] = Refused THEN <<Refused>>
        ELSE IF /\ ValidFields(fs) /\ OneToManyNames(fs) /\ SelfRelationships(fs) /\ Cascades(fs)
                /\ \A i \in DOMAIN fs : Encrypted(fs[i]) /\ Computed(fs, fs[i]) /\ Hybrid(fs, fs[i])
                /\ ValidIndexes(fs, o) /\ ValidModule(fs, o)
             THEN [i \in DOMAIN fs |-> Scoped(fs[i], o)]
             ELSE <<Refused>>

Accepted(module) == module # <<Refused>>

-----------------------------------------------------------------------------
DeclarationInit == declared \in Contexts /\ option \in Options

DeclareField(n, d) ==
    /\ Len(declared) < MaxFields
    /\ declared' = Append(declared, [name |-> n, type |-> d.type, target |-> d.target, modifiers |-> <<>>])
    /\ UNCHANGED option

AddModifier(m) ==
    /\ Len(declared) = MaxFields
    /\ LET d == declared[MaxFields]
       IN  /\ Len(d.modifiers) < MaxModifiers
           /\ \A i, j \in DOMAIN d.modifiers : d.modifiers[i] = d.modifiers[j] => i = j
           /\ declared' = [declared EXCEPT ![MaxFields].modifiers = Append(@, m)]
    /\ UNCHANGED option

DeclarationNext ==
    \/ \E n \in FieldNames, d \in NewFields : DeclareField(n, d)
    \/ \E m \in Modifiers : AddModifier(m)

-----------------------------------------------------------------------------
Swap(s, i) == [s EXCEPT ![i] = s[i + 1], ![i + 1] = s[i]]

\* modifiers whose order says nothing: no pattern has begun, and not both are validators
Exchangeable(ms, i) ==
    /\ \A j \in 1 .. i + 1 : ms[j].kind # "regex"
    /\ ms[i].kind # "validator" \/ ms[i + 1].kind # "validator"

\* Modifiers before a pattern may be given in any order that keeps validators
\* in theirs, and fields in any order at all: neighbours that change places are
\* read as the same module, or refused as before.
OrderIrrelevant ==
    LET module == Parse(declared, option)
    IN  /\ \A f \in DOMAIN declared : \A i \in 1 .. Len(declared[f].modifiers) - 1 :
              Exchangeable(declared[f].modifiers, i) =>
                  Parse([declared EXCEPT ![f].modifiers = Swap(@, i)], option) = module
        /\ \A f \in 1 .. Len(declared) - 1 :
              LET swapped == Parse(Swap(declared, f), option)
              IN  IF Accepted(module) THEN swapped = Swap(module, f) ELSE ~Accepted(swapped)

\* In a module that is accepted, what a collection, a cascade or a self
\* relationship adds to the generated class is told apart there.  Its
\* relationship has the name of no column, the tenant's key excepted, which only
\* fields are compared with.  That and the collection of a self relationship
\* have the name of no field, of no column every table may have, and of no other
\* relationship or such collection; with the columns of audits, versions and
\* tenants the collection is not compared, and may have their names.
RelationshipNamesDistinct ==
    LET fs == Parse(declared, option)
        managed == Columns(fs, option) \ NamesOf(fs)
        added(f) == {f.relationName} \cup IF f.relation = "self_many_to_one" THEN {f.backref} ELSE {}
    IN  Accepted(fs) =>
            \A i \in DOMAIN fs :
                \/ fs[i].relation = "self_many_to_one"
                \/ fs[i].relation = "many_to_one" /\ fs[i].backref # "none"
                \/ Has(fs[i], "cascade_delete")
                => /\ fs[i].relationName \notin managed \ {TenantKey}
                   /\ added(fs[i]) \cap (NamesOf(fs) \cup Generated) = {}
                   /\ \A j \in DOMAIN fs \ {i} : added(fs[j]) \cap added(fs[i]) = {}
=============================================================================
