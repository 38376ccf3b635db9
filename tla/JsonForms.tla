---- MODULE JsonForms ----
(* How the files of the program are read and written.  A file is a JSON
   document; a structure of the code names the form it takes there, the fields
   it must have and the words it accepts, and refuses what it does not name
   (`deny_unknown_fields`).  The functions that turn a parsed structure into a
   value of the program, and back, are the tables `wire` and `domain` of a form
   and the operators of the modules that extend this one.

   The parser itself (serde) is modelled from how the code declares its
   structures: a field standing twice, a field nobody asked for, a missing
   field that is not optional, a number out of its range, an unknown word and
   a value of another kind are refused; the order of fields is not seen. *)
EXTENDS Integers, Sequences, FiniteSets, SequencesExt, FiniteSetsExt, Functions, TLC

CONSTANTS Narrow, Wide   \* the greatest u32, and the greatest u64 and i64

FormsAssumption == Narrow \in Nat /\ Wide \in Nat /\ Narrow < Wide

(* ---------------- documents ---------------- *)

Num(n) == [num |-> n]
Str(s) == [str |-> s]
Bool(b) == [bool |-> b]
Arr(docs) == [arr |-> docs]
\* `twice`: the names that stand in the object more than once.
Obj(entries) == [obj |-> entries, twice |-> {}]
Null == [null |-> 0]

(* ---------------- forms ---------------- *)

Number(lo, hi) == [form |-> "number", lo |-> lo, hi |-> hi]
U32 == Number(0, Narrow)
U64 == Number(0, Wide)
I64 == Number(-Wide - 1, Wide)
Flag == [form |-> "flag"]
\* A word of a closed list, or a text seen through the few values that matter.
Word(wire, domain) == [form |-> "word", wire |-> wire, domain |-> domain]
Text(words) == Word(words, words)
List(of) == [form |-> "list", of |-> of]
\* A list of one length.
Array(size, of) == [form |-> "array", size |-> size, of |-> of]
\* Left out when there is none, or written as null.
Optional(of) == [form |-> "optional", of |-> of, skips |-> TRUE]
Nullable(of) == [form |-> "optional", of |-> of, skips |-> FALSE]
Struct(fields) == [form |-> "struct", fields |-> fields, strict |-> TRUE]
\* A structure that reads its own fields and passes over all others.
Envelope(fields) == [form |-> "struct", fields |-> fields, strict |-> FALSE]
\* An enum with its variant's word among its fields: variants <<wire, domain, fields>>.
Tagged(tag, variants) == [form |-> "tagged", tag |-> tag, variants |-> variants]
NoFields == <<>>
\* A quotient, kept in lowest terms with a positive denominator.
Ratio == [form |-> "ratio"]
\* JSON kept as it is for a later reader.
Raw(like) == [form |-> "raw", like |-> like]

(* ---------------- reading: <<>> or <<the value>> ---------------- *)

RationalWire == Struct([numerator |-> I64, denominator |-> I64])
Magnitude(n) == IF n < 0 THEN -n ELSE n
Divides(d, n) == Magnitude(n) % d = 0
\* Rational::new, for a denominator that is not zero.
Reduced(quotient) ==
    LET sign == IF quotient.denominator < 0 THEN -1 ELSE 1
        n == sign * quotient.numerator
        d == sign * quotient.denominator
        divisor == Max({c \in 1..Max({Magnitude(n), d}) : Divides(c, n) /\ Divides(c, d)})
    IN  IF n = 0 THEN [numerator |-> 0, denominator |-> 1]
        ELSE [numerator |-> n \div divisor, denominator |-> d \div divisor]

Allowed(reads) ==
    IF \E i \in DOMAIN reads : reads[i] = <<>> THEN <<>> ELSE << [i \in DOMAIN reads |-> reads[i][1]] >>

RECURSIVE Read(_, _)

ReadFields(fields, entries) ==
    Allowed([name \in DOMAIN fields |->
                IF name \in DOMAIN entries THEN Read(fields[name], entries[name])
                ELSE IF fields[name].form = "optional" THEN << <<>> >> ELSE <<>>])

\* A variant without fields does not look at what else stands beside its tag.
ReadVariant(shape, doc) ==
    LET tags == IF shape.tag \in DOMAIN doc.obj /\ shape.tag \notin doc.twice
                    /\ "str" \in DOMAIN doc.obj[shape.tag]
                THEN {i \in DOMAIN shape.variants : shape.variants[i][1] = doc.obj[shape.tag].str} ELSE {}
        variant == shape.variants[CHOOSE i \in tags : TRUE]
        named == [variant |-> variant[2]]
        rest == Restrict(doc.obj, DOMAIN doc.obj \ {shape.tag})
        read == ReadFields(variant[3], rest)
    IN  IF tags = {} THEN <<>>
        ELSE IF variant[3] = NoFields THEN <<named>>
        ELSE IF doc.twice # {} \/ ~(DOMAIN rest \subseteq DOMAIN variant[3]) \/ read = <<>> THEN <<>>
        ELSE <<named @@ read[1]>>

Read(shape, doc) ==
    CASE shape.form = "number" ->
            IF "num" \in DOMAIN doc /\ doc.num \in shape.lo..shape.hi THEN <<doc.num>> ELSE <<>>
      [] shape.form = "flag" -> IF "bool" \in DOMAIN doc THEN <<doc.bool>> ELSE <<>>
      [] shape.form = "word" ->
            IF "str" \in DOMAIN doc /\ doc.str \in Range(shape.wire)
            THEN <<shape.domain[CHOOSE i \in DOMAIN shape.wire : shape.wire[i] = doc.str]>> ELSE <<>>
      [] shape.form = "list" ->
            IF "arr" \in DOMAIN doc THEN Allowed([i \in DOMAIN doc.arr |-> Read(shape.of, doc.arr[i])]) ELSE <<>>
      [] shape.form = "array" ->
            IF "arr" \in DOMAIN doc /\ Len(doc.arr) = shape.size
            THEN Allowed([i \in DOMAIN doc.arr |-> Read(shape.of, doc.arr[i])]) ELSE <<>>
      [] shape.form = "ratio" ->
            LET read == Read(RationalWire, doc) IN
            IF read = <<>> \/ read[1].denominator = 0 THEN <<>>
            ELSE IF Reduced(read[1]).numerator > Wide \/ Reduced(read[1]).denominator > Wide THEN <<>>
            ELSE <<Reduced(read[1])>>
      [] shape.form = "optional" ->
            IF "null" \in DOMAIN doc THEN << <<>> >>
            ELSE LET read == Read(shape.of, doc) IN IF read = <<>> THEN <<>> ELSE <<read>>
      [] shape.form = "struct" ->
            IF "obj" \in DOMAIN doc /\ doc.twice \cap (IF shape.strict THEN doc.twice ELSE DOMAIN shape.fields) = {}
               /\ (shape.strict => DOMAIN doc.obj \subseteq DOMAIN shape.fields)
            THEN ReadFields(shape.fields, doc.obj) ELSE <<>>
      [] shape.form = "tagged" -> IF "obj" \in DOMAIN doc THEN ReadVariant(shape, doc) ELSE <<>>
      [] shape.form = "raw" -> <<doc>>

(* ---------------- writing ---------------- *)

RECURSIVE Written(_, _)

WrittenFields(fields, value) ==
    [name \in {n \in DOMAIN fields : ~(fields[n].form = "optional" /\ fields[n].skips /\ value[n] = <<>>)}
        |-> Written(fields[name], value[name])]

Written(shape, value) ==
    CASE shape.form = "number" -> Num(value)
      [] shape.form = "flag" -> Bool(value)
      [] shape.form = "word" -> Str(shape.wire[CHOOSE i \in DOMAIN shape.domain : shape.domain[i] = value])
      [] shape.form = "ratio" -> Written(RationalWire, value)
      [] shape.form \in {"list", "array"} -> Arr([i \in DOMAIN value |-> Written(shape.of, value[i])])
      [] shape.form = "optional" -> IF value = <<>> THEN Null ELSE Written(shape.of, value[1])
      [] shape.form = "struct" -> Obj(WrittenFields(shape.fields, value))
      [] shape.form = "tagged" ->
            LET variant == shape.variants[CHOOSE i \in DOMAIN shape.variants : shape.variants[i][2] = value.variant]
            IN  Obj((shape.tag :> Str(variant[1])) @@ WrittenFields(variant[3], value))
      [] shape.form = "raw" -> value

(* ---------------- a document changed in one place ---------------- *)

RECURSIVE Tampers(_, _)

TamperedEntries(fields, doc) ==
    LET present == DOMAIN doc.obj
        Inside == UNION { {[doc EXCEPT !.obj[name] = other] : other \in Tampers(fields[name], doc.obj[name])}
                          : name \in present \cap DOMAIN fields }
    IN  Inside
        \cup {[doc EXCEPT !.obj = Restrict(doc.obj, present \ {name})] : name \in present}
        \cup {[doc EXCEPT !.twice = {name}] : name \in present}
        \cup {[doc EXCEPT !.obj = ("stray" :> Null) @@ doc.obj]}

Tampers(shape, doc) ==
    CASE shape.form = "number" -> {Num(n) : n \in {-Wide - 1, -1, 0, doc.num + 1, Narrow + 1, Wide + 1} \ {doc.num}} \cup {Str("?")}
      [] shape.form = "flag" -> {Bool(~doc.bool), Null}
      [] shape.form = "word" ->
            LET at == CHOOSE i \in DOMAIN shape.wire : shape.wire[i] = doc.str
                following == {shape.wire[((at + step - 1) % Len(shape.wire)) + 1] : step \in 1..5}
            IN  {Str(word) : word \in (following \cup {"?"}) \ {doc.str}} \cup {Num(0)}
      [] shape.form = "ratio" -> Tampers(RationalWire, doc)
      [] shape.form \in {"list", "array"} ->
            UNION { {Arr([doc.arr EXCEPT ![i] = other]) : other \in Tampers(shape.of, doc.arr[i])} : i \in DOMAIN doc.arr }
            \cup {Arr(RemoveAt(doc.arr, i)) : i \in DOMAIN doc.arr}
            \cup {Arr(InsertAt(doc.arr, i, doc.arr[i])) : i \in DOMAIN doc.arr}
            \cup ({Arr([doc.arr EXCEPT ![i] = doc.arr[i + 1], ![i + 1] = doc.arr[i]]) : i \in 1..(Len(doc.arr) - 1)} \ {doc})
            \cup {Null}
      [] shape.form = "optional" -> IF doc = Null THEN {} ELSE {Null} \cup Tampers(shape.of, doc)
      [] shape.form = "struct" -> {Null} \cup TamperedEntries(shape.fields, doc)
      [] shape.form = "tagged" ->
            LET word == doc.obj[shape.tag].str
                variant == shape.variants[CHOOSE i \in DOMAIN shape.variants : shape.variants[i][1] = word]
                tags == ({shape.variants[i][1] : i \in DOMAIN shape.variants} \cup {"?"}) \ {word}
            IN  {[doc EXCEPT !.obj[shape.tag] = Str(other)] : other \in tags} \cup TamperedEntries(variant[3], doc)
      [] shape.form = "raw" -> Tampers(shape.like, doc)

(* ---------------- answers ---------------- *)

Fault(why) == [fault |-> why]
Value(value) == [value |-> value]
Accepted(answer) == "value" \in DOMAIN answer

\* The word order of the bytes of a name.
LexLess(s, t) ==
    \/ \E i \in DOMAIN s \cap DOMAIN t : s[i] < t[i] /\ \A j \in 1..(i - 1) : s[j] = t[j]
    \/ Len(s) < Len(t) /\ SubSeq(t, 1, Len(s)) = s
LexAtMost(s, t) == s = t \/ LexLess(s, t)
====
