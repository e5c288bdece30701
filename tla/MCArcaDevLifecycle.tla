------------------------- MODULE MCArcaDevLifecycle -------------------------
(***************************************************************************)
(* Two questions a stage.  The architecture questions share their scope    *)
(* and the second is advisory, as is the first model question, the identity *)
(* of an entity without one; the other two model questions name one        *)
(* relationship from either end; the backend questions overlap in their    *)
(* operations.                                                             *)
(***************************************************************************)
EXTENDS ArcaDevLifecycle

MCQuestions == {"p1", "p2", "a1", "a2", "m1", "m2", "m3", "b1", "b2"}
MCPlan == {"p1", "p2"}
MCArchitecture == {"a1", "a2"}
MCModel == {"m1", "m2", "m3"}
MCBackend == {"b1", "b2"}
MCBlocking == MCQuestions \ {"a2", "m1"}

\* x and X fold together; bad contradicts the IDEA, out excludes a capability
MCValues == {"x", "X", "y", "bad"}
MCFold == [v \in MCValues |-> IF v = "X" THEN "x" ELSE v]
MCScope == [q \in MCQuestions |-> IF q \in MCArchitecture THEN "shared" ELSE q]
MCForeign == {<<"a2", "y">>}

Claim(slot, entity, related, values) ==
    [slot |-> slot, entity |-> entity, related |-> related, values |-> values]

MCModelClaims == [p \in MCQuestions \X MCValues |->
    CASE p = <<"m1", "x">> -> {Claim("identity", "build", None, "uuid")}
      [] p = <<"m2", "x">> -> {Claim("relationship", "game", "build", "owns")}
      [] p = <<"m2", "y">> -> {Claim("relationship", "game", None, "independent"),
                               Claim("relationship", "build", None, "independent")}
      [] p = <<"m3", "x">> -> {Claim("relationship", "build", "game", "owned")}
      [] p = <<"m3", "X">> -> {Claim("relationship", "build", "game", "owns")}
      [] p = <<"m3", "y">> -> {Claim("relationship", "build", None, "independent")}
      [] OTHER -> {}]

MCFrozenModelClash == {<<"m3", "y">>}

MCMirror == [v \in {"owns", "owned", "independent", "uuid"} |->
    CASE v = "owns" -> "owned" [] v = "owned" -> "owns" [] OTHER -> v]

Profile(operations, values) ==
    {[slot |-> "retry", operations |-> operations, models |-> {"build"},
      components |-> {"worker"}, values |-> values]}

MCBackendClaims == [p \in MCQuestions \X MCValues |->
    CASE p = <<"b1", "x">> -> Profile({"sync", "release"}, "once")
      [] p = <<"b1", "y">> -> Profile({"sync", "release"}, "twice")
      [] p = <<"b2", "x">> -> Profile({"release"}, "once")
      [] p = <<"b2", "y">> -> Profile({"release"}, "twice")
      [] OTHER -> {}]

\* the choices offered for each question
MCOffers == [q \in MCQuestions |->
    CASE q = "p1" -> {"x", "y", "bad"} [] q = "p2" -> {"x", "y"}
      [] q = "a1" -> {"x", "y"}        [] q = "a2" -> {"x", "X", "y"}
      [] q = "m1" -> {"x", "y"}        [] q = "m2" -> {"x", "y"}
      [] q = "m3" -> {"x", "X", "y"}   [] OTHER -> {"x", "y"}]

\* destructive wording only with the first choice; priors among the offers
MCInputs ==
    {a \in [question : MCQuestions, value : MCValues, wording : {"plain", "removes"},
            prior : MCValues \cup {None}] :
        /\ a.value \in MCOffers[a.question]
        /\ a.wording = "removes" => a.value = "x" /\ a.question \in MCArchitecture
        /\ a.prior # None => a.prior \in MCOffers[a.question] /\ a.prior # "bad"}
=============================================================================
