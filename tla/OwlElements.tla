---------------------------- MODULE OwlElements ----------------------------
(***************************************************************************)
(* The structural elements of OWL 2 as the axioms package defines them     *)
(* (axiom/structural_element.py, class_axiom.py, declaration.py,           *)
(* datatype.py, restriction.py, object_expression.py, property_axiom.py,   *)
(* property_characteristic.py): which fields a class of elements has, what *)
(* its validators accept, and the triples it stands for (as_triples).      *)
(*                                                                         *)
(* A field that names another element holds that element's RDF node, so an *)
(* element is flat: its kind, the node that names it, its node fields in   *)
(* the order of the class, the rows of the one list it may own, and, for a *)
(* facet list, what each row's anchor says.  What differs between two      *)
(* classes is a row of a table, its Shape.                                 *)
(***************************************************************************)
EXTENDS Naturals, Sequences, FiniteSets

CONSTANTS
  Blanks,     \* blank nodes
  Literals,   \* literals
  Counts      \* the literals of datatype xsd:nonNegativeInteger

Nil  == "rdf:nil"
True == "'true'^^xsd:boolean"

\* rdf:nil is an IRI.
ASSUME NodeAssumption ==
  Blanks \cap Literals = {} /\ Counts \subseteq Literals /\ Nil \notin Blanks \cup Literals

\* What isinstance tells of a node; every other node is an IRI.
Is(n, test) ==
  CASE test = "iri"      -> n \notin Blanks \cup Literals
    [] test = "resource" -> n \notin Literals
    [] test = "literal"  -> n \in Literals
    [] test = "count"    -> n \in Counts
    [] test = "true"     -> n = True
    [] test = "node"     -> TRUE

-----------------------------------------------------------------------------
(* Shapes: the node that names the element, its rdf:type ("" when it emits *)
(* none), the predicates and types of the node fields, the predicate of    *)
(* the owned list ("" when there is none) and the least length.            *)

Typed(type)              == [name |-> "resource", type |-> type, nodes |-> <<>>, list |-> "", least |-> 0]
Binary(name, pred, test) == [Typed("") EXCEPT !.name = name, !.nodes = <<<<pred, test>>>>]
Listed(type, pred, n)    == [Typed(type) EXCEPT !.list = pred, !.least = n]
Restriction(nodes)       == [Typed("owl:Restriction") EXCEPT !.nodes = nodes]
OnProperty               == <<"owl:onProperty", "iri">>
Complement(type)         == [Typed(type) EXCEPT !.nodes = <<<<"owl:complementOf", "resource">>>>]
Filled(pred, test)       == Restriction(<<OnProperty, <<pred, test>>>>)
Qualified(pred, range)   == Restriction(<<OnProperty, <<pred, "count">>, <<range, "resource">>>>)
OnProperties(pred) ==
  [Restriction(<<<<pred, "resource">>>>) EXCEPT !.list = "owl:onProperties", !.least = 2]
NegativeAssertion(property, target, test) ==
  [Typed("owl:NegativePropertyAssertion") EXCEPT
     !.nodes = <<<<"owl:assertionProperty", property>>, <<"owl:sourceIndividual", "resource">>, <<target, test>>>>]

ClassAxiomShapes ==
  [DeclarationClass |-> Typed("owl:Class"),
   SubClassOf       |-> Binary("resource", "rdfs:subClassOf", "resource"),
   ClassAssertion   |-> Binary("resource", "rdf:type", "resource")]

DeclarationShapes ==
  [DeclarationObjectProperty     |-> Typed("owl:ObjectProperty"),
   DeclarationDataProperty       |-> Typed("owl:DatatypeProperty"),
   DeclarationAnnotationProperty |-> Typed("owl:AnnotationProperty"),
   NamedIndividual               |-> Typed("owl:NamedIndividual")]

ClassExpressionShapes ==
  [ObjectIntersectionOf |-> Listed("owl:Class", "owl:intersectionOf", 2),
   ObjectUnionOf        |-> Listed("owl:Class", "owl:unionOf", 2),
   ObjectComplementOf   |-> Complement("owl:Class")]

EnumerationShapes ==
  [ObjectOneOf     |-> Listed("owl:Class", "owl:oneOf", 1),
   ObjectInverseOf |-> Binary("resource", "owl:inverseOf", "resource")]

ClassEquationShapes ==
  [DisjointClasses     |-> Binary("resource", "owl:disjointWith", "resource"),
   EquivalentClasses   |-> Binary("resource", "owl:equivalentClass", "resource"),
   DisjointClassesNary |-> Listed("owl:AllDisjointClasses", "owl:members", 3),
   DisjointUnion       |-> Listed("", "owl:disjointUnionOf", 2)]

DataRangeShapes ==
  [DeclarationDatatype |-> Typed("rdfs:Datatype"),
   DataIntersectionOf  |-> Listed("rdfs:Datatype", "owl:intersectionOf", 2),
   DataUnionOf         |-> Listed("rdfs:Datatype", "owl:unionOf", 2)]

DataRangeOperandShapes ==
  [DataComplementOf |-> Complement("rdfs:Datatype"),
   DataOneOf        |-> Listed("rdfs:Datatype", "owl:oneOf", 1)]

DatatypeRestrictionShape ==
  [DatatypeRestriction |->
     [Listed("rdfs:Datatype", "owl:withRestrictions", 0) EXCEPT !.nodes = <<<<"owl:onDatatype", "iri">>>>]]

DataFillerShapes ==
  [DataSomeValuesFrom     |-> Filled("owl:someValuesFrom", "resource"),
   DataAllValuesFrom      |-> Filled("owl:allValuesFrom", "resource"),
   DataSomeValuesFromNary |-> OnProperties("owl:someValuesFrom")]

DataValueShapes ==
  [DataAllValuesFromNary |-> OnProperties("owl:allValuesFrom"),
   DataHasValue          |-> Filled("owl:hasValue", "literal")]

DataCardinalityShapes ==
  [DataMinCardinality          |-> Filled("owl:minCardinality", "count"),
   DataMaxCardinality          |-> Filled("owl:maxCardinality", "count"),
   DataMinCardinalityQualified |-> Qualified("owl:minQualifiedCardinality", "owl:onDataRange")]

DataExactCardinalityShapes ==
  [DataExactCardinality          |-> Filled("owl:cardinality", "count"),
   DataMaxCardinalityQualified   |-> Qualified("owl:maxQualifiedCardinality", "owl:onDataRange"),
   DataExactCardinalityQualified |-> Qualified("owl:qualifiedCardinality", "owl:onDataRange")]

ObjectFillerShapes ==
  [ObjectSomeValuesFrom |-> Filled("owl:someValuesFrom", "resource"),
   ObjectAllValuesFrom  |-> Filled("owl:allValuesFrom", "resource"),
   ObjectHasValue       |-> Filled("owl:hasValue", "resource"),
   ObjectHasSelf        |-> Filled("owl:hasSelf", "true")]

ObjectCardinalityShapes ==
  [ObjectMinCardinality          |-> Filled("owl:minCardinality", "count"),
   ObjectMaxCardinality          |-> Filled("owl:maxCardinality", "count"),
   ObjectMinCardinalityQualified |-> Qualified("owl:minQualifiedCardinality", "owl:onClass")]

ObjectExactCardinalityShapes ==
  [ObjectExactCardinality          |-> Filled("owl:cardinality", "count"),
   ObjectMaxCardinalityQualified   |-> Qualified("owl:maxQualifiedCardinality", "owl:onClass"),
   ObjectExactCardinalityQualified |-> Qualified("owl:qualifiedCardinality", "owl:onClass")]

SubPropertyShapes ==
  [SubObjectPropertyOf      |-> Binary("resource", "rdfs:subPropertyOf", "resource"),
   SubDataPropertyOf        |-> Binary("iri", "rdfs:subPropertyOf", "iri"),
   SubObjectPropertyOfChain |-> Listed("", "owl:propertyChainAxiom", 2)]

PropertyDomainShapes ==
  [ObjectPropertyDomain |-> Binary("resource", "rdfs:domain", "resource"),
   ObjectPropertyRange  |-> Binary("resource", "rdfs:range", "resource"),
   DataPropertyDomain   |-> Binary("iri", "rdfs:domain", "resource"),
   DataPropertyRange    |-> Binary("iri", "rdfs:range", "resource")]

PropertyEquationShapes ==
  [InverseObjectProperties    |-> Binary("resource", "owl:inverseOf", "resource"),
   DatatypeDefinition         |-> Binary("iri", "owl:equivalentClass", "resource"),
   EquivalentObjectProperties |-> Binary("resource", "owl:equivalentProperty", "resource"),
   EquivalentDataProperties   |-> Binary("iri", "owl:equivalentProperty", "iri")]

DisjointPropertyShapes ==
  [DisjointObjectProperties     |-> Binary("resource", "owl:propertyDisjointWith", "resource"),
   DisjointDataProperties       |-> Binary("iri", "owl:propertyDisjointWith", "iri"),
   DisjointObjectPropertiesNary |-> Listed("owl:AllDisjointProperties", "owl:members", 3)]

KeyShapes ==
  [DisjointDataPropertiesNary |-> Listed("owl:AllDisjointProperties", "owl:members", 3),
   HasKey                     |-> Listed("", "owl:hasKey", 1)]

\* The predicate of an assertion is its first field: it has no fixed one.
AssertionShapes ==
  [ObjectPropertyAssertion |-> [Typed("") EXCEPT !.nodes = <<<<"", "resource">>, <<"", "resource">>>>],
   DataPropertyAssertion   |-> [Typed("") EXCEPT !.nodes = <<<<"", "iri">>, <<"", "literal">>>>]]

NegativeAssertionShapes ==
  [NegativeObjectPropertyAssertion |-> NegativeAssertion("resource", "owl:targetIndividual", "resource"),
   NegativeDataPropertyAssertion   |-> NegativeAssertion("iri", "owl:targetValue", "literal")]

IndividualShapes ==
  [DifferentIndividuals     |-> Binary("resource", "owl:differentFrom", "resource"),
   SameIndividual           |-> Binary("resource", "owl:sameAs", "resource"),
   DifferentIndividualsNary |-> Listed("owl:AllDifferent", "owl:members", 3)]

CharacteristicShapes ==
  [FunctionalObjectProperty        |-> Typed("owl:FunctionalProperty"),
   FunctionalDataProperty          |-> Typed("owl:FunctionalProperty"),
   InverseFunctionalObjectProperty |-> Typed("owl:InverseFunctionalProperty"),
   ReflexiveObjectProperty         |-> Typed("owl:ReflexiveProperty"),
   IrreflexiveObjectProperty       |-> Typed("owl:IrreflexiveProperty"),
   SymmetricObjectProperty         |-> Typed("owl:SymmetricProperty"),
   AsymmetricObjectProperty        |-> Typed("owl:AsymmetricProperty"),
   TransitiveObjectProperty        |-> Typed("owl:TransitiveProperty")]

Tables ==
  <<ClassAxiomShapes, DeclarationShapes, ClassExpressionShapes, EnumerationShapes,
    ClassEquationShapes, DataRangeShapes, DataRangeOperandShapes, DatatypeRestrictionShape,
    DataFillerShapes, DataValueShapes, DataCardinalityShapes, DataExactCardinalityShapes,
    ObjectFillerShapes, ObjectCardinalityShapes, ObjectExactCardinalityShapes,
    SubPropertyShapes, PropertyDomainShapes, PropertyEquationShapes, DisjointPropertyShapes,
    KeyShapes, AssertionShapes, NegativeAssertionShapes, IndividualShapes, CharacteristicShapes>>

Kinds == UNION {DOMAIN Tables[i] : i \in DOMAIN Tables}

\* The row of a kind, which is in one of the tables.
Shape ==
  [kind \in Kinds |->
     Tables[CHOOSE i \in DOMAIN Tables : kind \in DOMAIN Tables[i]][kind]]

-----------------------------------------------------------------------------
(* Elements                                                                *)

\* rows: <<cell, value>> for each cell of the owned list, the rdf:nil row left
\* out; facets: <<predicate, value>> for each row of a facet list.
Element(kind, name, nodes, rows, facets) ==
  [kind |-> kind, name |-> name, nodes |-> nodes, rows |-> rows, facets |-> facets]

\* The validators of a class: node types, arity, and the integrity of its list.
Valid(e) ==
  LET shape == Shape[e.kind]
      cells == {e.rows[i][1] : i \in DOMAIN e.rows}
  IN /\ Is(e.name, shape.name)
     /\ \A i \in DOMAIN e.nodes : Is(e.nodes[i], shape.nodes[i][2])
     /\ Len(e.rows) >= shape.least
     /\ Cardinality(cells) = Len(e.rows)
     /\ Nil \notin cells

\* Seq.name: the first cell, rdf:nil for the empty list.
ListHead(rows) == IF rows = <<>> THEN Nil ELSE rows[1][1]

\* Seq.as_triples
SeqTriples(rows) ==
  LET next(i) == IF i = Len(rows) THEN Nil ELSE rows[i + 1][1]
  IN {<<rows[i][1], "rdf:first", rows[i][2]>> : i \in DOMAIN rows}
     \cup {<<rows[i][1], "rdf:rest", next(i)>> : i \in DOMAIN rows}

\* FacetList.as_triples adds what each anchor says.
FacetTriples(e) ==
  {<<e.rows[i][2], e.facets[i][1], e.facets[i][2]>> : i \in DOMAIN e.facets}

\* as_triples
AsTriples(e) ==
  LET shape == Shape[e.kind]
      typing == IF shape.type = "" THEN {} ELSE {<<e.name, "rdf:type", shape.type>>}
      owned  == IF shape.list = "" THEN {}
                ELSE {<<e.name, shape.list, ListHead(e.rows)>>} \cup SeqTriples(e.rows)
                     \cup FacetTriples(e)
      fields == IF e.kind \in DOMAIN AssertionShapes
                THEN {<<e.name, e.nodes[1], e.nodes[2]>>}
                ELSE {<<e.name, shape.nodes[i][1], e.nodes[i]>> : i \in DOMAIN e.nodes}
  IN typing \cup owned \cup fields
=============================================================================
