----------------------------- MODULE DataTypes -----------------------------
(***************************************************************************)
(* The data types of frappy/datatypes.py: what converting, validating,     *)
(* importing, exporting and comparing them does.                           *)
(*                                                                         *)
(* A data type is a record with its kind, a value a record with its kind   *)
(* k: "int", "float", "bool" and "member" (of an enum) with a number n,    *)
(* "str" with characters c, "list" with elements l (python lists and       *)
(* tuples), "dict" with a function d on the keys, "none".  Numbers are     *)
(* counted in halves, so that there are fractions; they are not negative.  *)
(* A scaled integer has the scale 1.  Resolutions are not modelled.        *)
(***************************************************************************)
EXTENDS Integers, Sequences

\* the default of maxchars, longer than any string here
Unlimited == 9

-----------------------------------------------------------------------------
(* data types and values *)

IntRange(lo, hi) == [kind |-> "int", lo |-> 2 * lo, hi |-> 2 * hi]
FloatRange(lo, hi) == [kind |-> "double", lo |-> lo, hi |-> hi]
ScaledInteger(lo, hi) == [kind |-> "scaled", lo |-> lo, hi |-> hi]
BoolType == [kind |-> "bool"]
EnumType(codes) == [kind |-> "enum", codes |-> codes]       \* name -> code
StringType(lo, hi) == [kind |-> "string", lo |-> lo, hi |-> hi]
ArrayOf(m, lo, hi) == [kind |-> "array", of |-> m, lo |-> lo, hi |-> hi]
TupleOf(ms) == [kind |-> "tuple", ms |-> ms]
LimitsType(m) == [kind |-> "limit", ms |-> <<m, m>>]
StructOf(fs, opt) == [kind |-> "struct", fs |-> fs, opt |-> opt]

N(i) == [k |-> "int", n |-> 2 * i]
F(h) == [k |-> "float", n |-> h]
B(b) == [k |-> "bool", n |-> IF b THEN 2 ELSE 0]
S(c) == [k |-> "str", c |-> c]
L(l) == [k |-> "list", l |-> l]
D(d) == [k |-> "dict", d |-> d]
Member(name, code) == [k |-> "member", c |-> name, n |-> 2 * code]
NoValue == [k |-> "none"]

Ok(v) == [ok |-> TRUE, v |-> v]
Error == [ok |-> FALSE]

Number(v) == v.k \in {"int", "float", "bool"}
Sequenced(v) == v.k \in {"str", "list"}
\* iterating a str gives its characters
Items(v) == IF v.k = "list" THEN v.l ELSE [i \in DOMAIN v.c |-> S(<<v.c[i]>>)]

\* round() in units of 1: half to even
Round(h) == IF h % 2 = 1 /\ (h \div 2) % 2 = 1 THEN h \div 2 + 1 ELSE h \div 2
Clamp(lo, n, hi) == IF n < lo THEN lo ELSE IF n > hi THEN hi ELSE n
Shorter(a, b) == IF Len(a) < Len(b) THEN Len(a) ELSE Len(b)

\* the results of the elements, or an error when one of them is an error
AllOk(rs) == IF \A i \in DOMAIN rs : rs[i].ok
             THEN Ok(L([i \in DOMAIN rs |-> rs[i].v])) ELSE Error
FieldsOk(rs) == IF \A f \in DOMAIN rs : rs[f].ok
                THEN Ok(D([f \in DOMAIN rs |-> rs[f].v])) ELSE Error

-----------------------------------------------------------------------------
(* conversion: DataType.__call__ *)

\* check_type of arrays, tuples and structs
ArrayTyped(t, v) == Sequenced(v) /\ Len(Items(v)) >= t.lo /\ Len(Items(v)) <= t.hi
TupleTyped(t, v) == Sequenced(v) /\ Len(Items(v)) = Len(t.ms)
StructTyped(t, v, allowOptional) ==
    /\ v.k = "dict"
    /\ DOMAIN v.d \subseteq DOMAIN t.fs
    /\ DOMAIN t.fs \ (IF allowOptional THEN t.opt ELSE {}) \subseteq DOMAIN v.d

\* keys with None count as missing
Given(v) == {f \in DOMAIN v.d : v.d[f].k # "none"}

\* a member is looked up by its name, its code, a float or bool equal to it, or an
\* other member
EnumLookup(t, v) ==
    LET named == {c \in DOMAIN t.codes :
                     IF v.k = "str" THEN c = v.c
                     ELSE (Number(v) \/ v.k = "member") /\ 2 * t.codes[c] = v.n}
    IN IF named = {} THEN Error
       ELSE LET c == CHOOSE x \in named : TRUE IN Ok(Member(c, t.codes[c]))

CallInt(v) == IF Number(v) /\ v.n % 2 = 0 THEN Ok([k |-> "int", n |-> v.n]) ELSE Error
CallFloat(v) == IF Number(v) THEN Ok(F(v.n)) ELSE Error
CallScaled(v) == IF Number(v) THEN Ok(F(2 * Round(v.n))) ELSE Error
CallBool(v) ==
    IF (Number(v) \/ v.k = "member") /\ v.n \in {0, 2} THEN Ok([k |-> "bool", n |-> v.n]) ELSE Error
CallString(t, v) ==
    IF v.k = "str" /\ Len(v.c) >= t.lo /\ (t.hi = Unlimited \/ Len(v.c) <= t.hi) THEN Ok(v) ELSE Error

RECURSIVE Call(_, _)
CallArray(t, v) ==
    IF ArrayTyped(t, v) THEN AllOk([i \in DOMAIN Items(v) |-> Call(t.of, Items(v)[i])]) ELSE Error
CallTuple(t, v) ==
    IF TupleTyped(t, v) THEN AllOk([i \in DOMAIN t.ms |-> Call(t.ms[i], Items(v)[i])]) ELSE Error
CallStruct(t, v) ==
    IF StructTyped(t, v, FALSE) THEN FieldsOk([f \in Given(v) |-> Call(t.fs[f], v.d[f])]) ELSE Error
Call(t, v) ==
    CASE t.kind = "int" -> CallInt(v)
      [] t.kind = "double" -> CallFloat(v)
      [] t.kind = "scaled" -> CallScaled(v)
      [] t.kind = "bool" -> CallBool(v)
      [] t.kind = "enum" -> EnumLookup(t, v)
      [] t.kind = "string" -> CallString(t, v)
      [] t.kind = "array" -> CallArray(t, v)
      [] t.kind \in {"tuple", "limit"} -> CallTuple(t, v)
      [] t.kind = "struct" -> CallStruct(t, v)

-----------------------------------------------------------------------------
(* limits: DataType.validate *)

\* a slip: members of a struct left out are not taken from the previous value
NotCompleted(new, old) == new

\* members of a struct left out are taken from the previous value
Completed(new, old) == [f \in DOMAIN new \cup DOMAIN old |-> IF f \in DOMAIN new THEN new[f] ELSE old[f]]

ValidNumber(t, v) == LET r == Call(t, v) IN IF r.ok /\ r.v.n >= t.lo /\ r.v.n <= t.hi THEN r ELSE Error
ValidScaled(t, v) ==
    IF Number(v) /\ v.n > t.lo - 2 /\ v.n < t.hi + 2
    THEN Ok(F(Clamp(2 * Round(t.lo), 2 * Round(v.n), 2 * Round(t.hi)))) ELSE Error
Ordered(r) == IF r.ok /\ r.v.l[2].n < r.v.l[1].n THEN Error ELSE r

RECURSIVE Validate(_, _, _)
\* the first n elements, the previous value given along
ValidElements(ms, v, prev, n) ==
    AllOk([i \in 1..n |-> Validate(ms[i], Items(v)[i], IF prev.k = "none" THEN NoValue ELSE Items(prev)[i])])
\* zip() with the previous value, when it is not empty
ValidArray(t, v, prev) ==
    IF ~ArrayTyped(t, v) THEN Error
    ELSE IF prev.k = "none" \/ Len(Items(prev)) = 0
    THEN AllOk([i \in DOMAIN Items(v) |-> Validate(t.of, Items(v)[i], NoValue)])
    ELSE ValidElements([i \in 1..t.hi |-> t.of], v, prev, Shorter(Items(v), Items(prev)))
ValidTuple(t, v, prev) == IF TupleTyped(t, v) THEN ValidElements(t.ms, v, prev, Len(t.ms)) ELSE Error
ValidStruct(t, v, prev) ==
    IF ~StructTyped(t, v, TRUE) THEN Error
    ELSE LET new == FieldsOk([f \in Given(v) |-> Validate(t.fs[f], v.d[f], NoValue)])
             old == IF prev.k = "none" THEN << >> ELSE prev.d
         IN IF new.ok THEN Ok(D(Completed(new.v.d, old))) ELSE Error
Validate(t, v, prev) ==
    CASE t.kind \in {"int", "double"} -> ValidNumber(t, v)
      [] t.kind = "scaled" -> ValidScaled(t, v)
      [] t.kind \in {"bool", "enum", "string"} -> Call(t, v)
      [] t.kind = "array" -> ValidArray(t, v, prev)
      [] t.kind = "tuple" -> ValidTuple(t, v, prev)
      [] t.kind = "limit" -> Ordered(ValidTuple(t, v, prev))
      [] t.kind = "struct" -> ValidStruct(t, v, prev)

-----------------------------------------------------------------------------
(* transport: import_value, export_value *)

ImportScaled(w) == IF Number(w) THEN Ok(F(2 * (w.n \div 2))) ELSE Error

RECURSIVE Import(_, _)
ImportArray(t, w) ==
    IF Sequenced(w) THEN AllOk([i \in DOMAIN Items(w) |-> Import(t.of, Items(w)[i])]) ELSE Error
\* what zip() gives: elements beyond the members are dropped
ImportTuple(t, w) ==
    IF Sequenced(w) THEN AllOk([i \in 1..Shorter(Items(w), t.ms) |-> Import(t.ms[i], Items(w)[i])])
    ELSE Error
ImportStruct(t, w) ==
    IF StructTyped(t, w, TRUE) THEN FieldsOk([f \in DOMAIN w.d |-> Import(t.fs[f], w.d[f])]) ELSE Error
Import(t, w) ==
    CASE t.kind = "scaled" -> ImportScaled(w)
      [] t.kind = "array" -> ImportArray(t, w)
      [] t.kind \in {"tuple", "limit"} -> ImportTuple(t, w)
      [] t.kind = "struct" -> ImportStruct(t, w)
      [] OTHER -> Call(t, w)

ExportEnum(t, v) == LET r == Call(t, v) IN IF r.ok THEN Ok([k |-> "int", n |-> r.v.n]) ELSE Error

RECURSIVE Export(_, _)
ExportArray(t, v) ==
    IF ArrayTyped(t, v) THEN AllOk([i \in DOMAIN v.l |-> Export(t.of, v.l[i])]) ELSE Error
ExportTuple(t, v) ==
    IF TupleTyped(t, v) THEN AllOk([i \in DOMAIN t.ms |-> Export(t.ms[i], v.l[i])]) ELSE Error
ExportStruct(t, v) ==
    IF StructTyped(t, v, FALSE) THEN FieldsOk([f \in DOMAIN v.d |-> Export(t.fs[f], v.d[f])]) ELSE Error
Export(t, v) ==
    CASE t.kind \in {"int", "double", "string"} -> Ok(v)
      [] t.kind = "scaled" -> Ok(N(Round(v.n)))
      [] t.kind = "bool" -> Call(t, v)
      [] t.kind = "enum" -> ExportEnum(t, v)
      [] t.kind = "array" -> ExportArray(t, v)
      [] t.kind \in {"tuple", "limit"} -> ExportTuple(t, v)
      [] t.kind = "struct" -> ExportStruct(t, v)

\* a slip: maxchars is left out of the description
DescribedShort(t) == IF t.kind = "string" /\ t.lo > 0 THEN [t EXCEPT !.hi = t.lo] ELSE t

\* the data type a client makes from the description: export_datatype, get_datatype
RECURSIVE Described(_)
Described(t) ==
    CASE t.kind = "string" ->
            [t EXCEPT !.hi = IF @ = Unlimited /\ t.lo > 0 THEN t.lo ELSE @]
      [] t.kind = "scaled" -> [t EXCEPT !.lo = 2 * Round(@), !.hi = 2 * Round(@)]
      [] t.kind = "array" -> [t EXCEPT !.of = Described(@)]
      [] t.kind \in {"tuple", "limit"} -> TupleOf([i \in DOMAIN t.ms |-> Described(t.ms[i])])
      [] t.kind = "struct" -> [t EXCEPT !.fs = [f \in DOMAIN @ |-> Described(@[f])]]
      [] OTHER -> t

\* a slip: the high limit is not looked at
TakesLow(o, t) == Validate(o, F(t.lo), NoValue).ok

\* both limits of a range are valid for the other one
TakesRange(o, t) == Validate(o, F(t.lo), NoValue).ok /\ Validate(o, F(t.hi), NoValue).ok

\* no way out of the branch for enums and bool
IntFits(t, o) == o.kind \in {"int", "double", "scaled"} /\ TakesRange(o, t)
FloatFits(t, o) == o.kind \in {"double", "scaled"} /\ TakesRange(o, t)
BoolFits(o) == Call(o, B(FALSE)).ok /\ Call(o, B(TRUE)).ok
EnumFits(t, o) == \A c \in DOMAIN t.codes : Call(o, Member(c, t.codes[c])).ok
StringFits(t, o) ==
    o.kind = "string" /\ t.lo >= o.lo /\ (o.hi = Unlimited \/ (t.hi # Unlimited /\ t.hi <= o.hi))

\* DataType.compatible
RECURSIVE Compatible(_, _)
ArrayFits(t, o) == o.kind = "array" /\ t.lo >= o.lo /\ t.hi <= o.hi /\ Compatible(t.of, o.of)
TupleFits(t, o) ==
    /\ o.kind \in {"tuple", "limit"} /\ Len(t.ms) = Len(o.ms)
    /\ \A i \in DOMAIN t.ms : Compatible(t.ms[i], o.ms[i])
StructFits(t, o) ==
    /\ o.kind = "struct" /\ DOMAIN t.fs \subseteq DOMAIN o.fs
    /\ \A f \in DOMAIN t.fs : Compatible(t.fs[f], o.fs[f])
    /\ DOMAIN o.fs \ o.opt \subseteq DOMAIN t.fs
Compatible(t, o) ==
    CASE t.kind = "int" -> IntFits(t, o)
      [] t.kind \in {"double", "scaled"} -> FloatFits(t, o)
      [] t.kind = "bool" -> BoolFits(o)
      [] t.kind = "enum" -> EnumFits(t, o)
      [] t.kind = "string" -> StringFits(t, o)
      [] t.kind = "array" -> ArrayFits(t, o)
      [] t.kind \in {"tuple", "limit"} -> TupleFits(t, o)
      [] t.kind = "struct" -> StructFits(t, o)

RECURSIVE Default(_)
Default(t) ==
    CASE t.kind = "int" -> [k |-> "int", n |-> t.lo]
      [] t.kind \in {"double", "scaled"} -> F(t.lo)
      [] t.kind = "bool" -> B(FALSE)
      [] t.kind = "enum" ->
            LET c == CHOOSE c \in DOMAIN t.codes : \A x \in DOMAIN t.codes : t.codes[c] <= t.codes[x]
            IN Member(c, t.codes[c])
      [] t.kind = "string" -> S([i \in 1..t.lo |-> " "])
      [] t.kind = "array" -> L([i \in 1..t.lo |-> Default(t.of)])
      [] t.kind \in {"tuple", "limit"} -> L([i \in DOMAIN t.ms |-> Default(t.ms[i])])
      [] t.kind = "struct" -> D([f \in DOMAIN t.fs |-> Default(t.fs[f])])

-----------------------------------------------------------------------------
(* the reference: what a request asks for *)

\* the values a wire value denotes, members left out of a struct being those of old:
\* a set with one value, or without any
RECURSIVE Asked(_, _, _)
Asked(t, w, old) ==
    LET Pick(sets) == {f \in [DOMAIN sets -> UNION {sets[i] : i \in DOMAIN sets}] :
                          \A i \in DOMAIN sets : f[i] \in sets[i]}
        Old(i) == IF Sequenced(old) /\ i <= Len(Items(old)) THEN Items(old)[i] ELSE NoValue
    IN
    CASE t.kind = "array" ->
            IF ~ArrayTyped(t, w) THEN {}
            ELSE {L(f) : f \in Pick([i \in DOMAIN Items(w) |-> Asked(t.of, Items(w)[i], Old(i))])}
      [] t.kind \in {"tuple", "limit"} ->
            IF ~TupleTyped(t, w) THEN {}
            ELSE {L(f) : f \in {g \in Pick([i \in DOMAIN t.ms |-> Asked(t.ms[i], Items(w)[i], Old(i))]) :
                                   t.kind = "limit" => g[1].n <= g[2].n}}
      [] t.kind = "struct" ->
            IF ~StructTyped(t, w, TRUE) THEN {}
            ELSE {D(f) : f \in Pick([f \in DOMAIN t.fs |->
                    IF f \in DOMAIN w.d
                    THEN Asked(t.fs[f], w.d[f],
                               IF old.k = "dict" /\ f \in DOMAIN old.d THEN old.d[f] ELSE NoValue)
                    ELSE IF old.k = "dict" /\ f \in DOMAIN old.d THEN {old.d[f]} ELSE {}])}
      [] OTHER -> LET r == Import(t, w)
                      s == IF r.ok THEN Validate(t, r.v, NoValue) ELSE Error
                  IN IF s.ok THEN {s.v} ELSE {}

-----------------------------------------------------------------------------
(* For TLC: one or two data types of every kind, and values to try.        *)

OnOff == [x \in {<<"o">>, <<"n">>} |-> IF x = <<"o">> THEN 0 ELSE 1]
Flat == StructOf([a |-> IntRange(0, 1), b |-> IntRange(0, 2)], {"b"})

\* the code does what is expected of it with these
PlainTypes ==
    {IntRange(0, 2), IntRange(1, 2), FloatRange(1, 4), FloatRange(0, 3), ScaledInteger(0, 4),
     ScaledInteger(2, 4), BoolType, EnumType(OnOff),
     StringType(1, 2), StringType(0, 1), ArrayOf(IntRange(0, 2), 2, 2),
     ArrayOf(StringType(1, 1), 2, 2),
     TupleOf(<<IntRange(0, 2), BoolType>>), LimitsType(FloatRange(0, 4)), Flat,
     TupleOf(<<FloatRange(0, 4), FloatRange(0, 3)>>)}

\* arrays of any length, structs in structs, strings without a limit, a type which is
\* a mandatory part of an other one
AllTypes ==
    PlainTypes \cup
    {ArrayOf(IntRange(0, 2), 0, 3), ScaledInteger(0, 3), StructOf([s |-> Flat], {}),
     StringType(1, Unlimited),
     StructOf([a |-> IntRange(0, 1), b |-> IntRange(0, 2)], {})}

Scalars == {N(i) : i \in 0..3} \cup {F(h) : h \in {1, 3, 5}} \cup {B(TRUE), NoValue}
Strings == {S(<< >>), S(<<"o">>), S(<<"n">>), S(<<"o", "n">>), S(<<"o", "n", "o">>)}
Lists == {L(<< >>)} \cup {L(<<x>>) : x \in {N(1), S(<<"o">>)}}
         \cup {L(<<x, y>>) : x \in {N(0), N(2), F(1)}, y \in {N(1), N(3), B(TRUE)}}
         \cup {L(<<S(<<"o">>), S(<<"n">>)>>)}
Dicts == {D([x \in k |-> v]) : k \in {{}, {"a"}, {"b"}, {"a", "b"}, {"a", "c"}}, v \in {N(1), N(2), NoValue}}
         \cup {D([s |-> D([a |-> N(1)])]), D([s |-> D([a |-> N(1), b |-> N(2)])])}
PlainWires == Scalars \cup Strings \cup Lists \cup Dicts

\* no module assigns None in a struct
Complete == {v \in PlainWires : v.k = "dict" => Given(v) = DOMAIN v.d}

\* an array of any length
OpenArrays == {ArrayOf(IntRange(0, 2), 0, 3)}

=============================================================================
