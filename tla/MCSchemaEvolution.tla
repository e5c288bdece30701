---------------------------- MODULE MCSchemaEvolution ----------------------------
(***************************************************************************)
(* A table of one or two columns through definitions that differ in one    *)
(* thing each: a wider column, a number with another scale, an enum with   *)
(* another value, a required, an optional and a defaulted column, a        *)
(* reference, an index, unique or not, and a unique constraint; and        *)
(* through what is refused: an index over what is no column, a default of  *)
(* None, other rules, soft deletion, an enum that is added.                *)
(***************************************************************************)
EXTENDS SchemaEvolution

Str(n) == [kind |-> "str", size |-> n, scale |-> 0, values |-> <<>>]
Dec(n, s) == [kind |-> "decimal", size |-> n, scale |-> s, values |-> <<>>]
Enum(vs) == [kind |-> "enum", size |-> 0, scale |-> 0, values |-> vs]

Code == [Field("code", Str(2)) EXCEPT !.nullable = TRUE]
Price == Field("price", Dec(2, 1))
Note == Field("note", Str(4))
State(vs) == [Field("state", Enum(vs)) EXCEPT !.nullable = TRUE]
Owner == [Field("owner", Str(Unbounded)) EXCEPT !.nullable = TRUE]
Secret == [Field("note", Str(2)) EXCEPT !.encrypted = TRUE]
OnCode(unique) == {Index({"code"}, unique, TRUE)}
Wide == Index({"code", "note"}, FALSE, FALSE)

MCDefinitions == {
    Definition({Code}, {}, {}),
    Definition({Code}, OnCode(TRUE), {}),
    Definition({Code}, OnCode(FALSE), {}),
    Definition({[Code EXCEPT !.type = Str(4)]}, {}, {}),
    Definition({[Code EXCEPT !.index = TRUE, !.unique = TRUE]}, {}, {}),
    Definition({Code, Note}, {}, {}),
    Definition({Code, Note}, {Wide}, {{"code", "note"}}),
    Definition({Code, Secret}, {}, {}),
    Definition({Code, [Secret EXCEPT !.type = Str(4)]}, {}, {}),
    Definition({Code, State(<<"a">>)}, {}, {}),
    Definition({Code, State(<<"a", "b">>)}, {}, {}),
    Definition({Price}, {}, {}),
    Definition({[Price EXCEPT !.type = Dec(3, 1), !.default = 1]}, {}, {}),
    Definition({[Price EXCEPT !.type = Dec(3, 0)]}, {}, {}),
    Definition({Code, [Owner EXCEPT !.fk = TRUE]}, {}, {}),
    Definition({Code, Owner}, {}, {}),
    Definition({Code, [Owner EXCEPT !.index = TRUE]}, {}, {}),
    Definition({Code, [Owner EXCEPT !.unique = TRUE, !.default = 1]}, {}, {}),
    Definition({Code, [Note EXCEPT !.default = 1]}, {}, {}),
    Definition({Code, [Note EXCEPT !.default = NullDefault]}, {}, {}),
    Definition({[Code EXCEPT !.rules = 1]}, {}, {}),
    Definition({Code}, {Wide}, {}),
    [Definition({Code}, {}, {}) EXCEPT !.options = {"soft_delete"}] }

By(kind, source, value) == {[target |-> "note", kind |-> kind, source |-> source, value |-> value]}
Is(kind, field, n) == {[kind |-> kind, fields |-> {field}, count |-> n]}
Reviewed(backfills, assertions) ==
    [backfills |-> backfills, removals |-> OnCode(TRUE) \cup OnCode(FALSE) \cup {Wide},
     verified |-> {"code", "price", "owner", "state"}, constraints |-> TRUE, assertions |-> assertions]

MCPolicies == {NoPolicy, Reviewed({}, {}), Reviewed({}, Is("unique", "code", 0)),
               Reviewed(By("literal", "", Plain(4)), Is("row_count", "code", 1)),
               Reviewed(By("trim", "code", Null), {}),
               Reviewed(By("copy_field", "code", Null), Is("null_count", "code", 0)),
               Reviewed(By("lower", "note", Null), {})}
MCTrimmed == [n \in {4} |-> 1]
MCPosition == [code |-> 1, note |-> 2, owner |-> 3, price |-> 4, state |-> 5]
MCValues == {1, 4, 150}
MCOwners == {1}
=============================================================================
