----------------------------- MODULE Axiomatize -----------------------------
(***************************************************************************)
(* axiomatize(graph): the lifting of an RDF graph into OWL structural      *)
(* elements (axiom/axiomatize.py).  Some fifty passes run one after the    *)
(* other over the same graph.  Each looks for its pattern, takes the       *)
(* triples of every occurrence (a triple may be taken once) and appends an *)
(* element; rich patterns come before the declarations that could take the *)
(* same rdf:type triple, and the open-ended assertions come last, because  *)
(* they ask the elements found so far what a class or a property is.  The  *)
(* result is refused unless every triple has been taken.                   *)
(*                                                                         *)
(* A pass is a row of Passes; Frame says what the pass would read at one   *)
(* of its subjects (or triples): when it leaves the subject alone, when it *)
(* complains at once, and which fields and list it requires.  The code     *)
(* visits subjects in sorted order; here any order will do.                *)
(***************************************************************************)
EXTENDS OwlElements, SequencesExt

CONSTANT Inputs   \* records: a graph, and the elements it was written from, if any

\* An rdflib graph is a finite set of triples.
ASSUME InputAssumption ==
  \A i \in Inputs : IsFiniteSet(i.graph) /\ \A t \in i.graph : t = <<t[1], t[2], t[3]>>

VARIABLES
  input,      \* the member of Inputs being lifted
  pass,       \* the number of the running pass, 0 before the first
  todo,       \* what this pass has still to visit
  consumed,   \* the triples taken so far
  elements,   \* the elements found, each with the triples it took
  outcome     \* "running", "lifted", "malformed" or "unsupported"

vars == <<input, pass, todo, consumed, elements, outcome>>

graph == input.graph

-----------------------------------------------------------------------------
(* Looking at the graph                                                    *)

Objects(s, p)      == {t[3] : t \in {u \in graph : u[1] = s /\ u[2] = p}}
The(s, p)          == CHOOSE o \in Objects(s, p) : TRUE
Has(s, p, o)       == <<s, p, o>> \in graph
HasAny(s, p)       == Objects(s, p) # {}
Single(s, p, test) == Cardinality(Objects(s, p)) = 1 /\ Is(The(s, p), test)

IsDataProperty(n) == Has(n, "rdf:type", "owl:DatatypeProperty")

ObjectPropertyHints ==
  {"owl:ObjectProperty", "owl:InverseFunctionalProperty", "owl:ReflexiveProperty",
   "owl:IrreflexiveProperty", "owl:SymmetricProperty", "owl:AsymmetricProperty",
   "owl:TransitiveProperty"}

\* _restriction_property_family: what the typing of a restricted property says.
IsObjectProperty(n) ==
  \/ \E hint \in ObjectPropertyHints : Has(n, "rdf:type", hint)
  \/ Has(n, "rdf:type", "owl:FunctionalProperty") /\ ~IsDataProperty(n)
Contradictory(n) == IsObjectProperty(n) /\ IsDataProperty(n)

\* The family of the restriction at s, and its complaint about mixed typing.
Family(s) == IF \E n \in Objects(s, "owl:onProperty") : IsObjectProperty(n) THEN "object" ELSE "data"
MixedFamily(s) == \E n \in Objects(s, "owl:onProperty") : Contradictory(n)

\* _walk_rdf_list at cell c, after the cells of path.
CellBroken(path, c) ==
  \/ c \in Range(path)
  \/ {t \in graph : t[2] = "rdf:rest" /\ t[3] = c}
       # (IF path = <<>> THEN {} ELSE {<<Last(path), "rdf:rest", c>>})
  \/ ~Single(c, "rdf:first", "node")
  \/ ~Single(c, "rdf:rest", "resource")
  \/ <<c, "rdf:first", The(c, "rdf:first")>> \in consumed
  \/ <<c, "rdf:rest", The(c, "rdf:rest")>> \in consumed

\* The cells of the list at head; every cell has a triple of its own, so a walk
\* has no more steps than the graph has triples.
Walk(head) ==
  LET walk[n \in 0..Cardinality(graph)] ==
        IF n = 0 THEN [ok |-> TRUE, cells |-> <<>>, at |-> head]
        ELSE LET w == walk[n - 1]
             IN IF ~w.ok \/ w.at = Nil THEN w
                ELSE IF CellBroken(w.cells, w.at) THEN [w EXCEPT !.ok = FALSE]
                ELSE [ok    |-> TRUE,
                      cells |-> Append(w.cells, w.at),
                      at    |-> The(w.at, "rdf:rest")]
  IN walk[Cardinality(graph)]

\* _parse_facet_list: what the anchor of a facet row says.
Facets(anchor) == {t \in graph : t[1] = anchor /\ t[2] \notin {"rdf:first", "rdf:rest"}}
\* (Mutant of AnchorBroken: an anchor may say more than one thing.)
AnchorBrokenUnlessSaying(anchor) ==
  \/ ~Is(anchor, "resource")
  \/ Facets(anchor) = {}
  \/ Facets(anchor) \cap consumed # {}
  \/ \E t \in Facets(anchor) : ~Is(t[2], "iri")
AnchorBroken(anchor) ==
  \/ ~Is(anchor, "resource")
  \/ Cardinality(Facets(anchor)) # 1
  \/ Facets(anchor) \cap consumed # {}
  \/ \E t \in Facets(anchor) : ~Is(t[2], "iri")

-----------------------------------------------------------------------------
(* What elements found so far say about names                              *)

Found == {e.is : e \in elements}
Members(e) == {e.rows[i][2] : i \in DOMAIN e.rows}

ObjectRestrictions ==
  DOMAIN ObjectFillerShapes \cup DOMAIN ObjectCardinalityShapes
    \cup DOMAIN ObjectExactCardinalityShapes
DataRestrictions ==
  DOMAIN DataFillerShapes \cup DOMAIN DataValueShapes \cup DOMAIN DataCardinalityShapes
    \cup DOMAIN DataExactCardinalityShapes
Nary == {"DataSomeValuesFromNary", "DataAllValuesFromNary"}
Equations == {"SubClassOf", "EquivalentClasses", "DisjointClasses"}
PropertyEquations ==
  {"SubObjectPropertyOf", "EquivalentObjectProperties", "DisjointObjectProperties",
   "InverseObjectProperties"}

Named(kinds)       == {e.name : e \in {f \in Found : f.kind \in kinds}}
FirstField(kinds)  == {e.nodes[1] : e \in {f \in Found : f.kind \in kinds}}
LastField(kinds)   == {Last(e.nodes) : e \in {f \in Found : f.kind \in kinds}}
ListMembers(kinds) == UNION {Members(e) : e \in {f \in Found : f.kind \in kinds}}

KnownClassExpressions ==
  {n \in {"owl:Thing", "owl:Nothing"}
         \cup Named({"DeclarationClass", "DisjointUnion", "HasKey", "ObjectOneOf"}
                      \cup DOMAIN ClassExpressionShapes \cup ObjectRestrictions \cup Equations)
         \cup LastField(Equations
                \cup {"ObjectComplementOf", "ObjectPropertyDomain", "ObjectPropertyRange",
                      "DataPropertyDomain", "ObjectSomeValuesFrom", "ObjectAllValuesFrom",
                      "ObjectMinCardinalityQualified", "ObjectMaxCardinalityQualified",
                      "ObjectExactCardinalityQualified"})
         \cup ListMembers({"DisjointClassesNary", "DisjointUnion", "ObjectIntersectionOf",
                           "ObjectUnionOf"})
     : Is(n, "resource")}

KnownObjectProperties ==
  Named({"DeclarationObjectProperty", "ObjectInverseOf", "SubObjectPropertyOfChain",
         "ObjectPropertyDomain", "ObjectPropertyRange"}
          \cup (DOMAIN CharacteristicShapes \ {"FunctionalDataProperty"}) \cup PropertyEquations)
    \cup FirstField(ObjectRestrictions \cup PropertyEquations)
    \cup ListMembers({"SubObjectPropertyOfChain", "DisjointObjectPropertiesNary"})

KnownDataProperties ==
  Named({"DeclarationDataProperty", "FunctionalDataProperty", "SubDataPropertyOf",
         "EquivalentDataProperties", "DisjointDataProperties", "DataPropertyDomain",
         "DataPropertyRange"})
    \cup FirstField((DataRestrictions \ Nary)
           \cup {"SubDataPropertyOf", "EquivalentDataProperties", "DisjointDataProperties"})
    \cup ListMembers(Nary \cup {"DisjointDataPropertiesNary"})

-----------------------------------------------------------------------------
(* What a pass reads                                                       *)

\* The reading of kind at s: the node fields it fetches, each a predicate and
\* the test its single object must pass; list, members: the list it walks and
\* the test of its members; skip: leaves s alone; bad: complains at once; late:
\* leaves s alone once everything fetched was in order.
AtSubject(kind, s, type, fetch) ==
  [kind |-> kind, name |-> s, type |-> type, fetch |-> fetch, list |-> "", members |-> "node",
   take |-> {}, fields |-> <<>>, skip |-> FALSE, bad |-> FALSE, late |-> FALSE]

\* The reading of kind in the one triple t.
InTriple(kind, t, fields) ==
  [AtSubject(kind, t[1], "", <<>>) EXCEPT !.take = {t}, !.fields = fields]

Untyped(s, type) == ~Has(s, "rdf:type", type)

\* (Mutant of ReadBoolean: every subject is read, whatever its type.)
ReadUntypedBoolean(row, s) ==
  [AtSubject(row.kind, s, row.type, <<>>) EXCEPT !.list = row.at, !.members = "resource"]

\* _parse_seq_data_range_parts, _parse_seq_class_expression_parts and their callers
ReadBoolean(row, s) ==
  [AtSubject(row.kind, s, row.type, <<>>) EXCEPT
     !.list = row.at, !.members = "resource", !.skip = Untyped(s, row.type)]

ReadComplement(row, s) ==
  [AtSubject(row.kind, s, row.type, <<<<"owl:complementOf", "resource">>>>) EXCEPT
     !.skip = Untyped(s, row.type)]

ReadOneOf(row, s) ==
  [AtSubject(row.kind, s, row.type, <<>>) EXCEPT
     !.list = row.at, !.skip = Untyped(s, row.type),
     !.members = IF row.type = "rdfs:Datatype" THEN "literal" ELSE "resource"]

ReadDatatypeRestriction(row, s) ==
  [AtSubject(row.kind, s, row.type, <<<<"owl:onDatatype", "iri">>>>) EXCEPT
     !.list = row.at, !.members = "facet", !.skip = Untyped(s, row.type)]

ReadHasSelf(row, s) ==
  [AtSubject(row.kind, s, row.type, <<OnProperty, <<"owl:hasSelf", "true">>>>) EXCEPT
     !.skip = Untyped(s, row.type)]

ReadHasValue(row, s) ==
  [AtSubject(IF Single(s, "owl:hasValue", "literal") THEN row.data ELSE row.kind,
             s, row.type, <<OnProperty, <<"owl:hasValue", "node">>>>) EXCEPT
     !.skip = Untyped(s, row.type)]

ReadQualified(row, s) ==
  LET onClass == HasAny(s, "owl:onClass")
      range   == <<IF onClass THEN "owl:onClass" ELSE "owl:onDataRange", "resource">>
  IN [AtSubject(IF onClass THEN row.kind ELSE row.data,
                s, row.type, <<OnProperty, <<row.at, "node">>, range>>) EXCEPT
        !.skip = Untyped(s, row.type),
        !.bad  = onClass = HasAny(s, "owl:onDataRange")]

\* A qualified form may have taken the restriction's type.
ReadUnqualified(row, s) ==
  [AtSubject(IF Family(s) = "object" THEN row.kind ELSE row.data,
             s, row.type, <<OnProperty, <<row.at, "node">>>>) EXCEPT
     !.skip = Untyped(s, row.type) \/ <<s, "rdf:type", row.type>> \in consumed,
     !.bad  = MixedFamily(s)]

\* One property, or, on a list of them, a data restriction.
ReadValues(row, s) ==
  LET unary == HasAny(s, "owl:onProperty")
      nary  == HasAny(s, "owl:onProperties")
      at    == <<row.at, "resource">>
  IN IF nary
     THEN [AtSubject(row.nary, s, row.type, <<at>>) EXCEPT
             !.list = "owl:onProperties", !.members = "iri",
             !.skip = Untyped(s, row.type), !.bad = unary]
     ELSE [AtSubject(IF Family(s) = "object" THEN row.kind ELSE row.data,
                     s, row.type, <<OnProperty, at>>) EXCEPT
             !.skip = Untyped(s, row.type) \/ ~unary, !.bad = MixedFamily(s)]

\* owl:inverseOf: an axiom about an IRI, an expression at a blank node.
ReadInverse(row, t) ==
  [InTriple(row.kind, t, <<t[3]>>) EXCEPT
     !.skip = t \in consumed \/ Is(t[1], "iri") # (row.kind = "InverseObjectProperties"),
     !.bad  = ~Is(t[3], "resource")]

\* DisjointUnion, SubObjectPropertyOfChain and HasKey own a list and have no type.
ReadOwned(row, s) ==
  [AtSubject(row.kind, s, "", <<>>) EXCEPT !.list = row.at, !.members = "resource"]

ReadClassesNary(row, t) ==
  [AtSubject(row.kind, t[1], row.at, <<>>) EXCEPT
     !.list = "owl:members", !.members = "resource", !.skip = t \in consumed]

\* The cells' values of the list at s, as far as its walk goes.
ListValues(s, p) ==
  IF Single(s, p, "resource")
  THEN {The(c, "rdf:first") : c \in Range(Walk(The(s, p)).cells)} ELSE {}

ReadPropertiesNary(row, t) ==
  LET values == ListValues(t[1], "owl:members")
      data   == values # {} /\ \A n \in values : IsDataProperty(n)
  IN [AtSubject(IF data THEN row.data ELSE row.kind, t[1], row.at, <<>>) EXCEPT
        !.list = "owl:members", !.members = "resource", !.skip = t \in consumed]

\* owl:distinctMembers is the OWL 1 spelling of owl:members.
ReadDifferentNary(row, t) ==
  LET members == HasAny(t[1], "owl:members")
  IN [AtSubject(row.kind, t[1], row.at, <<>>) EXCEPT
        !.list = IF members THEN "owl:members" ELSE "owl:distinctMembers",
        !.members = "resource", !.skip = t \in consumed,
        !.bad = members /\ HasAny(t[1], "owl:distinctMembers")]

\* Axioms of one triple between two classes or two individuals.
ReadPair(row, t) ==
  [InTriple(row.kind, t, <<t[3]>>) EXCEPT !.bad = ~Is(t[3], "resource")]

\* Axioms of one triple that a data property shares with an object property.
ReadPropertyPair(row, t) ==
  [InTriple(IF IsDataProperty(t[1]) THEN row.data ELSE row.kind, t, <<t[3]>>) EXCEPT
     !.skip = row.at = "owl:equivalentProperty" /\ t \in consumed,
     !.bad  = ~Is(t[3], "resource")]

ReadEquivalentClass(row, t) ==
  LET datatype == Has(t[1], "rdf:type", "rdfs:Datatype")
  IN [InTriple(IF datatype THEN row.data ELSE row.kind, t, <<t[3]>>) EXCEPT
        !.skip = t \in consumed,
        !.bad  = ~Is(t[3], "resource") \/ (datatype /\ Has(t[1], "rdf:type", "owl:Class"))]

ReadFunctional(row, t) ==
  [InTriple(IF IsDataProperty(t[1]) THEN row.data ELSE row.kind, t, <<>>) EXCEPT
     !.skip = t \in consumed]

\* _parse_rdf_type_elements
ReadType(row, t) == [InTriple(row.kind, t, <<>>) EXCEPT !.skip = t \in consumed]

ReadClassAssertion(row, t) ==
  [InTriple(row.kind, t, <<t[3]>>) EXCEPT
     !.skip = t \in consumed \/ t[3] \notin KnownClassExpressions]

ReadObjectAssertion(row, t) ==
  [InTriple(row.kind, t, <<t[2], t[3]>>) EXCEPT
     !.skip = ~Is(t[3], "resource") \/ t[2] \notin KnownObjectProperties]

ReadDataAssertion(row, t) ==
  [InTriple(row.kind, t, <<t[2], t[3]>>) EXCEPT
     !.skip = \/ ~Is(t[3], "literal") \/ ~Is(t[2], "iri")
              \/ t[2] \notin KnownDataProperties]

\* Both negative assertions; the property is looked at last.
ReadNegative(row, t) ==
  LET s      == t[1]
      object == row.kind = "NegativeObjectPropertyAssertion"
      target == IF object THEN "owl:targetIndividual" ELSE "owl:targetValue"
      other  == IF object THEN "owl:targetValue" ELSE "owl:targetIndividual"
      known  == {n \in IF object THEN KnownObjectProperties ELSE KnownDataProperties :
                   object \/ Is(n, "iri")}
  IN [AtSubject(row.kind, s, row.at,
                <<<<"owl:assertionProperty", "node">>, <<"owl:sourceIndividual", "resource">>,
                  <<target, IF object THEN "resource" ELSE "literal">>>>) EXCEPT
        !.skip = t \in consumed \/ (~HasAny(s, target)),
        !.bad  = HasAny(s, target) /\ HasAny(s, other),
        !.late = Objects(s, "owl:assertionProperty") \cap known = {}]

-----------------------------------------------------------------------------
(* The passes, in the order of run().  by and at say what a pass visits:   *)
(* the subjects of a predicate, the triples of a predicate, the triples    *)
(* that give a type, or whatever is left.                                  *)

Row(read, by, at, kind) ==
  [read |-> read, by |-> by, at |-> at, kind |-> kind, data |-> kind, type |-> "", nary |-> ""]
InRange(read, at, kind) == [Row(read, "subjects", at, kind) EXCEPT !.type = "rdfs:Datatype"]
InClass(read, at, kind) == [Row(read, "subjects", at, kind) EXCEPT !.type = "owl:Class"]
InRestriction(read, at, kind, data) ==
  [Row(read, "subjects", at, kind) EXCEPT !.type = "owl:Restriction", !.data = data]

ExpressionPasses ==
  <<InRange("boolean", "owl:intersectionOf", "DataIntersectionOf"),
    InClass("boolean", "owl:intersectionOf", "ObjectIntersectionOf"),
    InRange("boolean", "owl:unionOf", "DataUnionOf"),
    InClass("boolean", "owl:unionOf", "ObjectUnionOf"),
    InRange("complement", "owl:complementOf", "DataComplementOf"),
    InClass("complement", "owl:complementOf", "ObjectComplementOf"),
    InRange("oneOf", "owl:oneOf", "DataOneOf"),
    InClass("oneOf", "owl:oneOf", "ObjectOneOf"),
    InRange("datatypeRestriction", "owl:withRestrictions", "DatatypeRestriction")>>

CardinalityPasses ==
  <<InRestriction("hasSelf", "owl:hasSelf", "ObjectHasSelf", ""),
    InRestriction("hasValue", "owl:hasValue", "ObjectHasValue", "DataHasValue"),
    InRestriction("qualified", "owl:minQualifiedCardinality",
                  "ObjectMinCardinalityQualified", "DataMinCardinalityQualified"),
    InRestriction("qualified", "owl:maxQualifiedCardinality",
                  "ObjectMaxCardinalityQualified", "DataMaxCardinalityQualified"),
    InRestriction("qualified", "owl:qualifiedCardinality",
                  "ObjectExactCardinalityQualified", "DataExactCardinalityQualified"),
    InRestriction("unqualified", "owl:minCardinality", "ObjectMinCardinality", "DataMinCardinality"),
    InRestriction("unqualified", "owl:maxCardinality", "ObjectMaxCardinality", "DataMaxCardinality"),
    InRestriction("unqualified", "owl:cardinality", "ObjectExactCardinality", "DataExactCardinality")>>

ValuesPasses ==
  <<[InRestriction("values", "owl:someValuesFrom", "ObjectSomeValuesFrom", "DataSomeValuesFrom")
       EXCEPT !.nary = "DataSomeValuesFromNary"],
    [InRestriction("values", "owl:allValuesFrom", "ObjectAllValuesFrom", "DataAllValuesFrom")
       EXCEPT !.nary = "DataAllValuesFromNary"]>>

ExpressionAxiomPasses ==
  <<Row("inverse", "triples", "owl:inverseOf", "InverseObjectProperties"),
    Row("inverse", "triples", "owl:inverseOf", "ObjectInverseOf"),
    Row("owned", "subjects", "owl:disjointUnionOf", "DisjointUnion"),
    Row("classesNary", "types", "owl:AllDisjointClasses", "DisjointClassesNary"),
    [Row("propertiesNary", "types", "owl:AllDisjointProperties", "DisjointObjectPropertiesNary")
       EXCEPT !.data = "DisjointDataPropertiesNary"],
    Row("differentNary", "types", "owl:AllDifferent", "DifferentIndividualsNary"),
    Row("pair", "triples", "owl:disjointWith", "DisjointClasses"),
    Row("pair", "triples", "rdfs:subClassOf", "SubClassOf")>>

PropertyPass(at, kind, data) == [Row("propertyPair", "triples", at, kind) EXCEPT !.data = data]

PropertyAxiomPasses ==
  <<PropertyPass("rdfs:subPropertyOf", "SubObjectPropertyOf", "SubDataPropertyOf"),
    Row("owned", "subjects", "owl:propertyChainAxiom", "SubObjectPropertyOfChain"),
    PropertyPass("rdfs:domain", "ObjectPropertyDomain", "DataPropertyDomain"),
    PropertyPass("rdfs:range", "ObjectPropertyRange", "DataPropertyRange"),
    PropertyPass("owl:propertyDisjointWith", "DisjointObjectProperties", "DisjointDataProperties"),
    [Row("equivalentClass", "triples", "owl:equivalentClass", "EquivalentClasses")
       EXCEPT !.data = "DatatypeDefinition"],
    PropertyPass("owl:equivalentProperty", "EquivalentObjectProperties", "EquivalentDataProperties"),
    Row("owned", "subjects", "owl:hasKey", "HasKey"),
    Row("pair", "triples", "owl:differentFrom", "DifferentIndividuals"),
    Row("pair", "triples", "owl:sameAs", "SameIndividual")>>

CharacteristicPasses ==
  <<Row("type", "types", "owl:InverseFunctionalProperty", "InverseFunctionalObjectProperty"),
    Row("type", "types", "owl:ReflexiveProperty", "ReflexiveObjectProperty"),
    Row("type", "types", "owl:IrreflexiveProperty", "IrreflexiveObjectProperty"),
    Row("type", "types", "owl:SymmetricProperty", "SymmetricObjectProperty"),
    Row("type", "types", "owl:AsymmetricProperty", "AsymmetricObjectProperty"),
    Row("type", "types", "owl:TransitiveProperty", "TransitiveObjectProperty"),
    [Row("functional", "types", "owl:FunctionalProperty", "FunctionalObjectProperty")
       EXCEPT !.data = "FunctionalDataProperty"]>>

DeclarationPasses ==
  <<Row("type", "types", "rdfs:Datatype", "DeclarationDatatype"),
    Row("type", "types", "owl:Class", "DeclarationClass"),
    Row("type", "types", "owl:ObjectProperty", "DeclarationObjectProperty"),
    Row("type", "types", "owl:DatatypeProperty", "DeclarationDataProperty"),
    Row("type", "types", "owl:AnnotationProperty", "DeclarationAnnotationProperty"),
    Row("type", "types", "owl:NamedIndividual", "NamedIndividual")>>

AssertionPasses ==
  <<Row("classAssertion", "triples", "rdf:type", "ClassAssertion"),
    Row("objectAssertion", "left", "", "ObjectPropertyAssertion"),
    Row("negative", "types", "owl:NegativePropertyAssertion", "NegativeObjectPropertyAssertion"),
    Row("dataAssertion", "left", "", "DataPropertyAssertion"),
    Row("negative", "types", "owl:NegativePropertyAssertion", "NegativeDataPropertyAssertion")>>

\* (Mutant of Passes: declarations take their types before the expressions do.)
PassesDeclarationsFirst ==
  DeclarationPasses \o ExpressionPasses \o CardinalityPasses \o ValuesPasses
    \o ExpressionAxiomPasses \o PropertyAxiomPasses \o CharacteristicPasses \o AssertionPasses

Passes ==
  ExpressionPasses \o CardinalityPasses \o ValuesPasses \o ExpressionAxiomPasses
    \o PropertyAxiomPasses \o CharacteristicPasses \o DeclarationPasses \o AssertionPasses

Items(row) ==
  CASE row.by = "subjects" -> {<<t[1]>> : t \in {u \in graph : u[2] = row.at}}
    [] row.by = "triples"  -> {t \in graph : t[2] = row.at}
    [] row.by = "types"    -> {t \in graph : t[2] = "rdf:type" /\ t[3] = row.at}
    [] row.by = "left"     -> graph \ consumed

Reading(row, x) ==
  CASE row.read = "boolean"             -> ReadBoolean(row, x[1])
    [] row.read = "complement"          -> ReadComplement(row, x[1])
    [] row.read = "oneOf"               -> ReadOneOf(row, x[1])
    [] row.read = "datatypeRestriction" -> ReadDatatypeRestriction(row, x[1])
    [] row.read = "hasSelf"             -> ReadHasSelf(row, x[1])
    [] row.read = "hasValue"            -> ReadHasValue(row, x[1])
    [] row.read = "qualified"           -> ReadQualified(row, x[1])
    [] row.read = "unqualified"         -> ReadUnqualified(row, x[1])
    [] row.read = "values"              -> ReadValues(row, x[1])
    [] row.read = "inverse"             -> ReadInverse(row, x)
    [] row.read = "owned"               -> ReadOwned(row, x[1])
    [] row.read = "classesNary"         -> ReadClassesNary(row, x)
    [] row.read = "propertiesNary"      -> ReadPropertiesNary(row, x)
    [] row.read = "differentNary"       -> ReadDifferentNary(row, x)
    [] row.read = "pair"                -> ReadPair(row, x)
    [] row.read = "propertyPair"        -> ReadPropertyPair(row, x)
    [] row.read = "equivalentClass"     -> ReadEquivalentClass(row, x)
    [] row.read = "functional"          -> ReadFunctional(row, x)
    [] row.read = "type"                -> ReadType(row, x)
    [] row.read = "classAssertion"      -> ReadClassAssertion(row, x)
    [] row.read = "objectAssertion"     -> ReadObjectAssertion(row, x)
    [] row.read = "dataAssertion"       -> ReadDataAssertion(row, x)
    [] row.read = "negative"            -> ReadNegative(row, x)

-----------------------------------------------------------------------------
(* From a reading to an element                                            *)

HasList(f)   == f.list # ""
CellsOf(f)   == IF HasList(f) THEN Walk(The(f.name, f.list)).cells ELSE <<>>
AnchorsOf(f) == IF f.members = "facet" THEN {The(c, "rdf:first") : c \in Range(CellsOf(f))} ELSE {}

Fetched(f) == [i \in DOMAIN f.fetch |-> The(f.name, f.fetch[i][1])]

ListBroken(f) ==
  \/ ~Single(f.name, f.list, "resource")
  \/ LET w == Walk(The(f.name, f.list)) IN ~w.ok \/ w.at # Nil
  \/ f.members # "facet" /\ \E c \in Range(CellsOf(f)) : ~Is(The(c, "rdf:first"), f.members)
  \/ \E anchor \in AnchorsOf(f) : AnchorBroken(anchor)

\* What the parse refuses before it builds anything.
Unreadable(f) ==
  \/ f.bad
  \/ \E i \in DOMAIN f.fetch : ~Single(f.name, f.fetch[i][1], f.fetch[i][2])
  \/ HasList(f) /\ ListBroken(f)

ElementOf(f) ==
  LET cells == CellsOf(f)
      rows  == [i \in DOMAIN cells |-> <<cells[i], The(cells[i], "rdf:first")>>]
      facet(anchor) == CHOOSE t \in Facets(anchor) : TRUE
      facets == [i \in DOMAIN cells |-> Tail(facet(rows[i][2]))]
  IN Element(f.kind, f.name, f.fields \o Fetched(f), rows,
             IF f.members = "facet" THEN facets ELSE <<>>)

\* The triples the pass hands to _add_element.
Claims(f) ==
  f.take
    \cup (IF f.type = "" THEN {} ELSE {<<f.name, "rdf:type", f.type>>})
    \cup {<<f.name, f.fetch[i][1], Fetched(f)[i]>> : i \in DOMAIN f.fetch}
    \cup (IF HasList(f) THEN {<<f.name, f.list, The(f.name, f.list)>>} ELSE {})
    \cup {<<c, p, The(c, p)>> : c \in Range(CellsOf(f)), p \in {"rdf:first", "rdf:rest"}}
    \cup UNION {Facets(anchor) : anchor \in AnchorsOf(f)}

Overlaps(f) == Claims(f) \cap consumed # {}

\* (Mutant of Verdict: an element may take what another one has.)
VerdictWithoutOverlap(f) ==
  IF f.skip THEN "left alone"
  ELSE IF Unreadable(f) THEN "malformed"
  ELSE IF f.late THEN "left alone"
  ELSE IF Valid(ElementOf(f)) THEN "element"
  ELSE "malformed"

\* What becomes of a reading: the continue statements, the errors of the parse, of
\* the element's validators and of _add_element, or an element.
Verdict(f) ==
  IF f.skip THEN "left alone"
  ELSE IF Unreadable(f) THEN "malformed"
  ELSE IF f.late THEN "left alone"
  ELSE IF Valid(ElementOf(f)) /\ ~Overlaps(f) THEN "element"
  ELSE "malformed"

-----------------------------------------------------------------------------
(* Actions                                                                 *)

Init ==
  /\ input \in Inputs
  /\ pass = 0
  /\ todo = {}
  /\ consumed = {}
  /\ elements = {}
  /\ outcome = "running"

PassDone == outcome = "running" /\ todo = {}

\* The next pass that has anything to visit; the others change nothing.
NextPass ==
  /\ PassDone
  /\ \E p \in (pass + 1)..Len(Passes) :
       /\ Items(Passes[p]) # {}
       /\ \A q \in (pass + 1)..(p - 1) : Items(Passes[q]) = {}
       /\ pass' = p
       /\ todo' = Items(Passes[p])
  /\ UNCHANGED <<input, consumed, elements, outcome>>

Visited(x, verdict) ==
  /\ outcome = "running"
  /\ x \in todo
  /\ Verdict(Reading(Passes[pass], x)) = verdict

LeaveAlone(x) ==
  /\ Visited(x, "left alone")
  /\ todo' = todo \ {x}
  /\ UNCHANGED <<input, pass, consumed, elements, outcome>>

RaiseMalformed(x) ==
  /\ Visited(x, "malformed")
  /\ outcome' = "malformed"
  /\ UNCHANGED <<input, pass, todo, consumed, elements>>

\* _add_element
AddElement(x) ==
  LET f == Reading(Passes[pass], x)
  IN /\ Visited(x, "element")
     /\ consumed' = consumed \cup Claims(f)
     /\ elements' = elements \cup {[is |-> ElementOf(f), claims |-> Claims(f)]}
     /\ todo' = todo \ {x}
     /\ UNCHANGED <<input, pass, outcome>>

\* _raise_if_unconsumed_triples
Finish ==
  /\ PassDone
  /\ \A p \in (pass + 1)..Len(Passes) : Items(Passes[p]) = {}
  /\ outcome' = IF graph \subseteq consumed THEN "lifted" ELSE "unsupported"
  /\ UNCHANGED <<input, pass, todo, consumed, elements>>

Next ==
  \/ NextPass
  \/ \E x \in todo : LeaveAlone(x) \/ RaiseMalformed(x) \/ AddElement(x)
  \/ Finish

Spec == Init /\ [][Next]_vars

-----------------------------------------------------------------------------
(* Properties                                                              *)

\* What was taken, and what is still to visit, are triples of the graph, and elements
\* are of the kinds that axiomatize knows.
AxiomatizeTypeOK ==
  /\ pass \in 0..Len(Passes)
  /\ todo \subseteq graph \cup {<<t[1]>> : t \in graph}
  /\ consumed \subseteq graph
  /\ \A e \in elements : e.is.kind \in Kinds /\ e.claims \subseteq graph
  /\ outcome \in {"running", "lifted", "malformed", "unsupported"}

\* No triple is the evidence of two elements, and a triple counts as taken only
\* when some element took it: consumed is exactly what the elements claim.
TriplesAccounted ==
  /\ \A e, d \in elements : e # d => e.claims \cap d.claims = {}
  /\ consumed = UNION {e.claims : e \in elements}

\* What an element took, its list in the spelling that as_triples writes: the graph
\* may spell the members of owl:AllDifferent as OWL 1 did.
Rewritten(e) ==
  IF e.is.kind # "DifferentIndividualsNary" THEN e.claims
  ELSE {IF t[2] = "owl:distinctMembers" THEN <<t[1], "owl:members", t[3]>> ELSE t : t \in e.claims}

\* A graph is lifted only as a partition of itself: the elements' own triples are
\* the triples they took (up to owl:distinctMembers), and leave none of the graph out.
LiftedPartitions ==
  outcome = "lifted" =>
    /\ TriplesAccounted
    /\ graph = UNION {e.claims : e \in elements}
    /\ \A e \in elements : AsTriples(e.is) = Rewritten(e)

\* Writing an ontology as triples and lifting them gives the ontology back, in
\* whatever order the passes come across its parts: input.from is the ontology.
RoundTrip ==
  input.from # {} /\ outcome # "running" => outcome = "lifted" /\ Found = input.from
=============================================================================
