-------------------------- MODULE AxiomatizeProofs --------------------------
(***************************************************************************)
(* What holds of axiomatize for every finite graph. That the account of    *)
(* taken triples is kept, and that nothing is left over, follows from what *)
(* _add_element and the final check do, whatever the passes read. That an  *)
(* element is written as what it took needs all of them: what a walk along *)
(* a list has seen, what each reading makes of a subject or a triple, and, *)
(* row by row, that each pass reads kinds which are written that way.      *)
(***************************************************************************)
EXTENDS Axiomatize, Induction, FiniteSetTheorems, SequenceTheorems

\* A lifted graph is covered by what its elements took.
LiftedCovers == outcome = "lifted" => graph \subseteq UNION {e.claims : e \in elements}

\* The final check found nothing that is not taken.
CheckedFinish == outcome = "lifted" => graph \subseteq consumed

\* The inductive invariant of the account.
IInv == TriplesAccounted /\ CheckedFinish

\* What _add_element asks: the new claims are not taken yet.
LEMMA ElementIsNew ==
  ASSUME NEW f, Verdict(f) = "element"
  PROVE  Claims(f) \cap consumed = {}
BY DEF Verdict, Overlaps

\* Adding an element with new claims keeps the account.
LEMMA AddKeepsAccount ==
  ASSUME TriplesAccounted, NEW element, NEW claims,
         claims \cap consumed = {},
         consumed' = consumed \cup claims,
         elements' = elements \cup {[is |-> element, claims |-> claims]}
  PROVE  TriplesAccounted'
<1> DEFINE new == [is |-> element, claims |-> claims]
<1>1. new.claims = claims
  OBVIOUS
<1>2. \A e \in elements : e.claims \subseteq consumed
  BY DEF TriplesAccounted
<1>3. \A e \in elements : e.claims \cap new.claims = {}
  BY <1>1, <1>2
<1>4. \A e, d \in elements' : e # d => e.claims \cap d.claims = {}
  <2> SUFFICES ASSUME NEW e \in elements', NEW d \in elements', e # d
               PROVE  e.claims \cap d.claims = {}
    OBVIOUS
  <2>1. CASE e \in elements /\ d \in elements
    BY <2>1 DEF TriplesAccounted
  <2>2. CASE e = new
    BY <2>2, <1>3
  <2>3. CASE d = new
    BY <2>3, <1>3
  <2> QED
    BY <2>1, <2>2, <2>3
<1>5. consumed' = UNION {e.claims : e \in elements'}
  <2>1. consumed = UNION {e.claims : e \in elements}
    BY DEF TriplesAccounted
  <2>2. {e.claims : e \in elements'} = {e.claims : e \in elements} \cup {new.claims}
    OBVIOUS
  <2> QED
    BY <2>1, <2>2, <1>1
<1> QED
  BY <1>4, <1>5 DEF TriplesAccounted

\* Nothing is taken at first.
LEMMA InitAccounted == Init => IInv
BY DEF Init, IInv, TriplesAccounted, CheckedFinish

\* No step takes a triple twice or loses one that was taken.
LEMMA NextAccounted == IInv /\ [Next]_vars => IInv'
<1> SUFFICES ASSUME IInv, [Next]_vars PROVE IInv'
  OBVIOUS
<1> USE DEF graph
<1>1. CASE NextPass
  BY <1>1 DEF NextPass, PassDone, IInv, TriplesAccounted, CheckedFinish
<1>2. ASSUME NEW x \in todo, LeaveAlone(x) PROVE IInv'
  BY <1>2 DEF LeaveAlone, IInv, TriplesAccounted, CheckedFinish
<1>3. ASSUME NEW x \in todo, RaiseMalformed(x) PROVE IInv'
  BY <1>3 DEF RaiseMalformed, IInv, TriplesAccounted, CheckedFinish
<1>4. ASSUME NEW x \in todo, AddElement(x) PROVE IInv'
  <2> DEFINE f == Reading(Passes[pass], x)
  <2> HIDE DEF f
  <2>1. Verdict(f) = "element" /\ outcome = "running"
    BY <1>4 DEF AddElement, Visited, f
  <2>2. /\ consumed' = consumed \cup Claims(f)
        /\ elements' = elements \cup {[is |-> ElementOf(f), claims |-> Claims(f)]}
        /\ outcome' = outcome
    BY <1>4 DEF AddElement, f
  <2>3. Claims(f) \cap consumed = {}
    BY <2>1, ElementIsNew
  <2>4. TriplesAccounted'
    BY <2>2, <2>3, AddKeepsAccount DEF IInv
  <2>5. CheckedFinish'
    BY <2>1, <2>2 DEF CheckedFinish
  <2> QED
    BY <2>4, <2>5 DEF IInv
<1>5. CASE Finish
  BY <1>5 DEF Finish, IInv, TriplesAccounted, CheckedFinish
<1>6. CASE UNCHANGED vars
  BY <1>6 DEF vars, IInv, TriplesAccounted, CheckedFinish
<1> QED
  BY <1>1, <1>2, <1>3, <1>4, <1>5, <1>6 DEF Next

\* Whatever the passes read, no triple is claimed twice and what counts as taken
\* is exactly what the elements claim (_add_element).
THEOREM AccountingHolds == Spec => []TriplesAccounted
<1>1. Init => IInv
  BY InitAccounted
<1>2. IInv /\ [Next]_vars => IInv'
  BY NextAccounted
<1>3. IInv => TriplesAccounted
  BY DEF IInv
<1> QED
  BY <1>1, <1>2, <1>3, PTL DEF Spec

\* A graph that is lifted has no triple that no element took
\* (_raise_if_unconsumed_triples).
THEOREM LiftingIsComplete == Spec => []LiftedCovers
<1>1. Init => IInv
  BY InitAccounted
<1>2. IInv /\ [Next]_vars => IInv'
  BY NextAccounted
<1>3. IInv => LiftedCovers
  BY DEF IInv, TriplesAccounted, CheckedFinish, LiftedCovers
<1> QED
  BY <1>1, <1>2, <1>3, PTL DEF Spec

-----------------------------------------------------------------------------
(* The tables of the structural elements                                   *)

\* The kinds in each table.
KindNames ==
  <<{"DeclarationClass", "SubClassOf", "ClassAssertion"},
    {"DeclarationObjectProperty", "DeclarationDataProperty", "DeclarationAnnotationProperty",
     "NamedIndividual"},
    {"ObjectIntersectionOf", "ObjectUnionOf", "ObjectComplementOf"},
    {"ObjectOneOf", "ObjectInverseOf"},
    {"DisjointClasses", "EquivalentClasses", "DisjointClassesNary", "DisjointUnion"},
    {"DeclarationDatatype", "DataIntersectionOf", "DataUnionOf"},
    {"DataComplementOf", "DataOneOf"},
    {"DatatypeRestriction"},
    {"DataSomeValuesFrom", "DataAllValuesFrom", "DataSomeValuesFromNary"},
    {"DataAllValuesFromNary", "DataHasValue"},
    {"DataMinCardinality", "DataMaxCardinality", "DataMinCardinalityQualified"},
    {"DataExactCardinality", "DataMaxCardinalityQualified", "DataExactCardinalityQualified"},
    {"ObjectSomeValuesFrom", "ObjectAllValuesFrom", "ObjectHasValue", "ObjectHasSelf"},
    {"ObjectMinCardinality", "ObjectMaxCardinality", "ObjectMinCardinalityQualified"},
    {"ObjectExactCardinality", "ObjectMaxCardinalityQualified", "ObjectExactCardinalityQualified"},
    {"SubObjectPropertyOf", "SubDataPropertyOf", "SubObjectPropertyOfChain"},
    {"ObjectPropertyDomain", "ObjectPropertyRange", "DataPropertyDomain", "DataPropertyRange"},
    {"InverseObjectProperties", "DatatypeDefinition", "EquivalentObjectProperties",
     "EquivalentDataProperties"},
    {"DisjointObjectProperties", "DisjointDataProperties", "DisjointObjectPropertiesNary"},
    {"DisjointDataPropertiesNary", "HasKey"},
    {"ObjectPropertyAssertion", "DataPropertyAssertion"},
    {"NegativeObjectPropertyAssertion", "NegativeDataPropertyAssertion"},
    {"DifferentIndividuals", "SameIndividual", "DifferentIndividualsNary"},
    {"FunctionalObjectProperty", "FunctionalDataProperty", "InverseFunctionalObjectProperty",
     "ReflexiveObjectProperty", "IrreflexiveObjectProperty", "SymmetricObjectProperty",
     "AsymmetricObjectProperty", "TransitiveObjectProperty"}>>

\* Each table has the kinds listed above.
LEMMA TableDomains ==
  /\ DOMAIN Tables = 1 .. 24 /\ DOMAIN KindNames = 1 .. 24
  /\ \A i \in 1 .. 24 : DOMAIN Tables[i] = KindNames[i]
<1>1. DOMAIN Tables = 1 .. 24 /\ DOMAIN KindNames = 1 .. 24
  BY DEF Tables, KindNames
<1>2. DOMAIN ClassAxiomShapes = {"DeclarationClass", "SubClassOf", "ClassAssertion"}
  BY DEF ClassAxiomShapes
<1>3. DOMAIN DeclarationShapes = {"DeclarationObjectProperty", "DeclarationDataProperty",
                                  "DeclarationAnnotationProperty", "NamedIndividual"}
  BY DEF DeclarationShapes
<1>4. DOMAIN ClassExpressionShapes = {"ObjectIntersectionOf", "ObjectUnionOf", "ObjectComplementOf"}
  BY DEF ClassExpressionShapes
<1>5. DOMAIN EnumerationShapes = {"ObjectOneOf", "ObjectInverseOf"}
  BY DEF EnumerationShapes
<1>6. DOMAIN ClassEquationShapes = {"DisjointClasses", "EquivalentClasses", "DisjointClassesNary",
                                    "DisjointUnion"}
  BY DEF ClassEquationShapes
<1>7. DOMAIN DataRangeShapes = {"DeclarationDatatype", "DataIntersectionOf", "DataUnionOf"}
  BY DEF DataRangeShapes
<1>8. DOMAIN DataRangeOperandShapes = {"DataComplementOf", "DataOneOf"}
  BY DEF DataRangeOperandShapes
<1>9. DOMAIN DatatypeRestrictionShape = {"DatatypeRestriction"}
  BY DEF DatatypeRestrictionShape
<1>10. DOMAIN DataFillerShapes = {"DataSomeValuesFrom", "DataAllValuesFrom",
                                  "DataSomeValuesFromNary"}
  BY DEF DataFillerShapes
<1>11. DOMAIN DataValueShapes = {"DataAllValuesFromNary", "DataHasValue"}
  BY DEF DataValueShapes
<1>12. DOMAIN DataCardinalityShapes = {"DataMinCardinality", "DataMaxCardinality",
                                       "DataMinCardinalityQualified"}
  BY DEF DataCardinalityShapes
<1>13. DOMAIN DataExactCardinalityShapes = {"DataExactCardinality", "DataMaxCardinalityQualified",
                                            "DataExactCardinalityQualified"}
  BY DEF DataExactCardinalityShapes
<1>14. DOMAIN ObjectFillerShapes = {"ObjectSomeValuesFrom", "ObjectAllValuesFrom",
                                    "ObjectHasValue", "ObjectHasSelf"}
  BY DEF ObjectFillerShapes
<1>15. DOMAIN ObjectCardinalityShapes = {"ObjectMinCardinality", "ObjectMaxCardinality",
                                         "ObjectMinCardinalityQualified"}
  BY DEF ObjectCardinalityShapes
<1>16. DOMAIN ObjectExactCardinalityShapes = {"ObjectExactCardinality",
                                              "ObjectMaxCardinalityQualified",
                                              "ObjectExactCardinalityQualified"}
  BY DEF ObjectExactCardinalityShapes
<1>17. DOMAIN SubPropertyShapes = {"SubObjectPropertyOf", "SubDataPropertyOf",
                                   "SubObjectPropertyOfChain"}
  BY DEF SubPropertyShapes
<1>18. DOMAIN PropertyDomainShapes = {"ObjectPropertyDomain", "ObjectPropertyRange",
                                      "DataPropertyDomain", "DataPropertyRange"}
  BY DEF PropertyDomainShapes
<1>19. DOMAIN PropertyEquationShapes = {"InverseObjectProperties", "DatatypeDefinition",
                                        "EquivalentObjectProperties", "EquivalentDataProperties"}
  BY DEF PropertyEquationShapes
<1>20. DOMAIN DisjointPropertyShapes = {"DisjointObjectProperties", "DisjointDataProperties",
                                        "DisjointObjectPropertiesNary"}
  BY DEF DisjointPropertyShapes
<1>21. DOMAIN KeyShapes = {"DisjointDataPropertiesNary", "HasKey"}
  BY DEF KeyShapes
<1>22. DOMAIN AssertionShapes = {"ObjectPropertyAssertion", "DataPropertyAssertion"}
  BY DEF AssertionShapes
<1>23. DOMAIN NegativeAssertionShapes = {"NegativeObjectPropertyAssertion",
                                         "NegativeDataPropertyAssertion"}
  BY DEF NegativeAssertionShapes
<1>24. DOMAIN IndividualShapes = {"DifferentIndividuals", "SameIndividual",
                                  "DifferentIndividualsNary"}
  BY DEF IndividualShapes
<1>25. DOMAIN CharacteristicShapes = {"FunctionalObjectProperty", "FunctionalDataProperty",
                                      "InverseFunctionalObjectProperty",
                                      "ReflexiveObjectProperty", "IrreflexiveObjectProperty",
                                      "SymmetricObjectProperty", "AsymmetricObjectProperty",
                                      "TransitiveObjectProperty"}
  BY DEF CharacteristicShapes
<1>. QED  BY <1>1, <1>2, <1>3, <1>4, <1>5, <1>6, <1>7, <1>8, <1>9, <1>10, <1>11, <1>12, <1>13,
             <1>14, <1>15, <1>16, <1>17, <1>18, <1>19, <1>20, <1>21, <1>22, <1>23, <1>24,
             <1>25 DEF Tables, KindNames

\* No kind is in two tables,
LEMMA KindInOneTable ==
  ASSUME NEW i \in 1 .. 24, NEW j \in 1 .. 24, NEW k, k \in KindNames[i], k \in KindNames[j]
  PROVE  i = j
BY DEF KindNames

\* so the shape of a kind is what its table says.
LEMMA ShapeInTable ==
  ASSUME NEW i \in 1 .. 24, NEW k \in KindNames[i]
  PROVE  k \in Kinds /\ Shape[k] = Tables[i][k]
<1>1. DOMAIN Tables = 1 .. 24 /\ k \in DOMAIN Tables[i]
  BY TableDomains
<1>2. k \in Kinds
  BY <1>1 DEF Kinds
<1>3. \A j \in 1 .. 24 : k \in DOMAIN Tables[j] => j = i
  BY TableDomains, KindInOneTable
<1>4. (CHOOSE j \in DOMAIN Tables : k \in DOMAIN Tables[j]) = i
  BY <1>1, <1>3
<1>5. Shape[k] = Tables[CHOOSE j \in DOMAIN Tables : k \in DOMAIN Tables[j]][k]
  BY <1>2 DEF Shape
<1>. QED  BY <1>2, <1>4, <1>5

\* A kind of element in general, not one of an assertion, and one that has this type,
\* owned list and node fields with these predicates.
General(kind) == kind \in Kinds /\ kind \notin {"ObjectPropertyAssertion", "DataPropertyAssertion"}
Fits(kind, type, list, preds) ==
  /\ General(kind)
  /\ Shape[kind].type = type /\ Shape[kind].list = list
  /\ DOMAIN Shape[kind].nodes = DOMAIN preds
  /\ \A i \in DOMAIN preds : Shape[kind].nodes[i][1] = preds[i]

\* What the helpers of the tables say that a kind has.
LEMMA TypedFits ==
  ASSUME NEW kind, General(kind), NEW type,
         Shape[kind] = Typed(type)
  PROVE  Fits(kind, type, "", <<>>)
<1>1. PICK nodes : nodes = <<>>
  OBVIOUS
<1>2. PICK s : s = Shape[kind]
  OBVIOUS
<1>3. s = [name |-> "resource", type |-> type, nodes |-> nodes, list |-> "", least |-> 0]
  BY <1>1, <1>2 DEF Typed
<1>4. s.type = type /\ s.list = "" /\ s.nodes = nodes
  BY <1>3
<1>5. DOMAIN <<>> = {} /\ DOMAIN nodes = {}
  BY <1>1
<1>. QED  BY <1>2, <1>4, <1>5 DEF Fits

LEMMA BinaryFits ==
  ASSUME NEW kind, General(kind), NEW name, NEW pred, NEW test,
         Shape[kind] = Binary(name, pred, test)
  PROVE  Fits(kind, "", "", <<pred>>)
<1>1. PICK s : s = Binary(name, pred, test)
  OBVIOUS
<1>. QED  BY <1>1 DEF General, Fits, Binary, Typed

LEMMA ListedFits ==
  ASSUME NEW kind, General(kind), NEW type, NEW pred, NEW n,
         Shape[kind] = Listed(type, pred, n)
  PROVE  Fits(kind, type, pred, <<>>)
<1>1. PICK s : s = Listed(type, pred, n)
  OBVIOUS
<1>. QED  BY <1>1 DEF General, Fits, Listed, Typed

LEMMA ComplementFits ==
  ASSUME NEW kind, General(kind), NEW type,
         Shape[kind] = Complement(type)
  PROVE  Fits(kind, type, "", <<"owl:complementOf">>)
<1>1. PICK nodes : nodes = <<<<"owl:complementOf", "resource">>>>
  OBVIOUS
<1>2. PICK s : s = Shape[kind]
  OBVIOUS
<1>3. s = [name |-> "resource", type |-> type, nodes |-> nodes, list |-> "", least |-> 0]
  BY <1>1, <1>2 DEF Complement, Typed
<1>4. s.type = type /\ s.list = "" /\ s.nodes = nodes
  BY <1>3
<1>5. /\ DOMAIN nodes = DOMAIN <<"owl:complementOf">>
      /\ \A i \in DOMAIN <<"owl:complementOf">> : nodes[i][1] = <<"owl:complementOf">>[i]
  BY <1>1
<1>. QED  BY <1>2, <1>4, <1>5 DEF Fits

LEMMA FilledFits ==
  ASSUME NEW kind, General(kind), NEW pred, NEW test,
         Shape[kind] = Filled(pred, test)
  PROVE  Fits(kind, "owl:Restriction", "", <<"owl:onProperty", pred>>)
<1>1. PICK nodes : nodes = <<<<"owl:onProperty", "iri">>, <<pred, test>>>>
  OBVIOUS
<1>2. PICK s : s = Shape[kind]
  OBVIOUS
<1>3. s = [name |-> "resource", type |-> "owl:Restriction", nodes |-> nodes, list |-> "",
           least |-> 0]
  BY <1>1, <1>2 DEF Filled, Restriction, OnProperty, Typed
<1>4. s.type = "owl:Restriction" /\ s.list = "" /\ s.nodes = nodes
  BY <1>3
<1>5. /\ DOMAIN nodes = DOMAIN <<"owl:onProperty", pred>>
      /\ \A i \in DOMAIN <<"owl:onProperty", pred>> : nodes[i][1] = <<"owl:onProperty", pred>>[i]
  BY <1>1
<1>. QED  BY <1>2, <1>4, <1>5 DEF Fits

LEMMA QualifiedFits ==
  ASSUME NEW kind, General(kind), NEW pred, NEW range,
         Shape[kind] = Qualified(pred, range)
  PROVE  Fits(kind, "owl:Restriction", "", <<"owl:onProperty", pred, range>>)
<1>1. PICK nodes : nodes = <<<<"owl:onProperty", "iri">>, <<pred, "count">>, <<range, "resource">>>>
  OBVIOUS
<1>2. PICK s : s = Shape[kind]
  OBVIOUS
<1>3. s = [name |-> "resource", type |-> "owl:Restriction", nodes |-> nodes, list |-> "",
           least |-> 0]
  BY <1>1, <1>2 DEF Qualified, Restriction, OnProperty, Typed
<1>4. s.type = "owl:Restriction" /\ s.list = "" /\ s.nodes = nodes
  BY <1>3
<1>5. /\ DOMAIN nodes = DOMAIN <<"owl:onProperty", pred, range>>
      /\ \A i \in DOMAIN <<"owl:onProperty", pred, range>> :
           nodes[i][1] = <<"owl:onProperty", pred, range>>[i]
  BY <1>1
<1>. QED  BY <1>2, <1>4, <1>5 DEF Fits

LEMMA OnPropertiesFits ==
  ASSUME NEW kind, General(kind), NEW pred,
         Shape[kind] = OnProperties(pred)
  PROVE  Fits(kind, "owl:Restriction", "owl:onProperties", <<pred>>)
<1>1. PICK s : s = OnProperties(pred)
  OBVIOUS
<1>. QED  BY <1>1 DEF General, Fits, OnProperties, Restriction, Typed

LEMMA NegativeAssertionFits ==
  ASSUME NEW kind, General(kind), NEW property, NEW target, NEW test,
         Shape[kind] = NegativeAssertion(property, target, test)
  PROVE  Fits(kind, "owl:NegativePropertyAssertion", "", <<"owl:assertionProperty",
                                                           "owl:sourceIndividual", target>>)
<1>1. PICK nodes : nodes = <<<<"owl:assertionProperty", property>>, <<"owl:sourceIndividual",
                                                                      "resource">>, <<target,
                                                                                      test>>>>
  OBVIOUS
<1>2. PICK s : s = Shape[kind]
  OBVIOUS
<1>3. s = [name |-> "resource", type |-> "owl:NegativePropertyAssertion", nodes |-> nodes,
           list |-> "", least |-> 0]
  BY <1>1, <1>2 DEF NegativeAssertion, Typed
<1>4. s.type = "owl:NegativePropertyAssertion" /\ s.list = "" /\ s.nodes = nodes
  BY <1>3
<1>5. /\ DOMAIN nodes = DOMAIN <<"owl:assertionProperty", "owl:sourceIndividual", target>>
      /\ \A i \in DOMAIN <<"owl:assertionProperty", "owl:sourceIndividual", target>> :
           nodes[i][1] = <<"owl:assertionProperty", "owl:sourceIndividual", target>>[i]
  BY <1>1
<1>. QED  BY <1>2, <1>4, <1>5 DEF Fits

\* The kinds of each table, one lemma for a table or two.
LEMMA ClassAxiomFit ==
  /\ Fits("DeclarationClass", "owl:Class", "", <<>>)
  /\ Fits("SubClassOf", "", "", <<"rdfs:subClassOf">>)
  /\ Fits("ClassAssertion", "", "", <<"rdf:type">>)
<1>1. \A k \in {"DeclarationClass", "SubClassOf",
                "ClassAssertion"} :
        General(k) /\ Shape[k] = ClassAxiomShapes[k]
  BY ShapeInTable DEF KindNames, Tables, General
<1>2. Shape["DeclarationClass"] = Typed("owl:Class")
  BY <1>1 DEF ClassAxiomShapes
<1>3. Shape["SubClassOf"] = Binary("resource", "rdfs:subClassOf", "resource")
  BY <1>1 DEF ClassAxiomShapes
<1>4. Shape["ClassAssertion"] = Binary("resource", "rdf:type", "resource")
  BY <1>1 DEF ClassAxiomShapes
<1>. QED  BY <1>1, <1>2, <1>3, <1>4, BinaryFits, TypedFits

LEMMA DeclarationFit ==
  /\ Fits("DeclarationObjectProperty", "owl:ObjectProperty", "", <<>>)
  /\ Fits("DeclarationDataProperty", "owl:DatatypeProperty", "", <<>>)
  /\ Fits("DeclarationAnnotationProperty", "owl:AnnotationProperty", "", <<>>)
  /\ Fits("NamedIndividual", "owl:NamedIndividual", "", <<>>)
<1>1. \A k \in {"DeclarationObjectProperty", "DeclarationDataProperty",
                "DeclarationAnnotationProperty",
                "NamedIndividual"} :
        General(k) /\ Shape[k] = DeclarationShapes[k]
  BY ShapeInTable DEF KindNames, Tables, General
<1>2. Shape["DeclarationObjectProperty"] = Typed("owl:ObjectProperty")
  BY <1>1 DEF DeclarationShapes
<1>3. Shape["DeclarationDataProperty"] = Typed("owl:DatatypeProperty")
  BY <1>1 DEF DeclarationShapes
<1>4. Shape["DeclarationAnnotationProperty"] = Typed("owl:AnnotationProperty")
  BY <1>1 DEF DeclarationShapes
<1>5. Shape["NamedIndividual"] = Typed("owl:NamedIndividual")
  BY <1>1 DEF DeclarationShapes
<1>. QED  BY <1>1, <1>2, <1>3, <1>4, <1>5, TypedFits

LEMMA ClassExpressionFit ==
  /\ Fits("ObjectIntersectionOf", "owl:Class", "owl:intersectionOf", <<>>)
  /\ Fits("ObjectUnionOf", "owl:Class", "owl:unionOf", <<>>)
  /\ Fits("ObjectComplementOf", "owl:Class", "", <<"owl:complementOf">>)
<1>1. \A k \in {"ObjectIntersectionOf", "ObjectUnionOf",
                "ObjectComplementOf"} :
        General(k) /\ Shape[k] = ClassExpressionShapes[k]
  BY ShapeInTable DEF KindNames, Tables, General
<1>2. Shape["ObjectIntersectionOf"] = Listed("owl:Class", "owl:intersectionOf", 2)
  BY <1>1 DEF ClassExpressionShapes
<1>3. Shape["ObjectUnionOf"] = Listed("owl:Class", "owl:unionOf", 2)
  BY <1>1 DEF ClassExpressionShapes
<1>4. Shape["ObjectComplementOf"] = Complement("owl:Class")
  BY <1>1 DEF ClassExpressionShapes
<1>. QED  BY <1>1, <1>2, <1>3, <1>4, ComplementFits, ListedFits

LEMMA EnumerationFit ==
  /\ Fits("ObjectOneOf", "owl:Class", "owl:oneOf", <<>>)
  /\ Fits("ObjectInverseOf", "", "", <<"owl:inverseOf">>)
<1>1. \A k \in {"ObjectOneOf", "ObjectInverseOf"} : General(k) /\ Shape[k] = EnumerationShapes[k]
  BY ShapeInTable DEF KindNames, Tables, General
<1>2. Shape["ObjectOneOf"] = Listed("owl:Class", "owl:oneOf", 1)
  BY <1>1 DEF EnumerationShapes
<1>3. Shape["ObjectInverseOf"] = Binary("resource", "owl:inverseOf", "resource")
  BY <1>1 DEF EnumerationShapes
<1>. QED  BY <1>1, <1>2, <1>3, BinaryFits, ListedFits

LEMMA ClassEquationFit ==
  /\ Fits("DisjointClasses", "", "", <<"owl:disjointWith">>)
  /\ Fits("EquivalentClasses", "", "", <<"owl:equivalentClass">>)
  /\ Fits("DisjointClassesNary", "owl:AllDisjointClasses", "owl:members", <<>>)
  /\ Fits("DisjointUnion", "", "owl:disjointUnionOf", <<>>)
<1>1. \A k \in {"DisjointClasses", "EquivalentClasses", "DisjointClassesNary",
                "DisjointUnion"} :
        General(k) /\ Shape[k] = ClassEquationShapes[k]
  BY ShapeInTable DEF KindNames, Tables, General
<1>2. Shape["DisjointClasses"] = Binary("resource", "owl:disjointWith", "resource")
  BY <1>1 DEF ClassEquationShapes
<1>3. Shape["EquivalentClasses"] = Binary("resource", "owl:equivalentClass", "resource")
  BY <1>1 DEF ClassEquationShapes
<1>4. Shape["DisjointClassesNary"] = Listed("owl:AllDisjointClasses", "owl:members", 3)
  BY <1>1 DEF ClassEquationShapes
<1>5. Shape["DisjointUnion"] = Listed("", "owl:disjointUnionOf", 2)
  BY <1>1 DEF ClassEquationShapes
<1>. QED  BY <1>1, <1>2, <1>3, <1>4, <1>5, BinaryFits, ListedFits

LEMMA DataRangeFit ==
  /\ Fits("DeclarationDatatype", "rdfs:Datatype", "", <<>>)
  /\ Fits("DataIntersectionOf", "rdfs:Datatype", "owl:intersectionOf", <<>>)
  /\ Fits("DataUnionOf", "rdfs:Datatype", "owl:unionOf", <<>>)
<1>1. \A k \in {"DeclarationDatatype", "DataIntersectionOf",
                "DataUnionOf"} :
        General(k) /\ Shape[k] = DataRangeShapes[k]
  BY ShapeInTable DEF KindNames, Tables, General
<1>2. Shape["DeclarationDatatype"] = Typed("rdfs:Datatype")
  BY <1>1 DEF DataRangeShapes
<1>3. Shape["DataIntersectionOf"] = Listed("rdfs:Datatype", "owl:intersectionOf", 2)
  BY <1>1 DEF DataRangeShapes
<1>4. Shape["DataUnionOf"] = Listed("rdfs:Datatype", "owl:unionOf", 2)
  BY <1>1 DEF DataRangeShapes
<1>. QED  BY <1>1, <1>2, <1>3, <1>4, ListedFits, TypedFits

LEMMA DataRangeOperandFit ==
  /\ Fits("DataComplementOf", "rdfs:Datatype", "", <<"owl:complementOf">>)
  /\ Fits("DataOneOf", "rdfs:Datatype", "owl:oneOf", <<>>)
<1>1. \A k \in {"DataComplementOf",
                "DataOneOf"} :
        General(k) /\ Shape[k] = DataRangeOperandShapes[k]
  BY ShapeInTable DEF KindNames, Tables, General
<1>2. Shape["DataComplementOf"] = Complement("rdfs:Datatype")
  BY <1>1 DEF DataRangeOperandShapes
<1>3. Shape["DataOneOf"] = Listed("rdfs:Datatype", "owl:oneOf", 1)
  BY <1>1 DEF DataRangeOperandShapes
<1>. QED  BY <1>1, <1>2, <1>3, ComplementFits, ListedFits

LEMMA DataFillerFit ==
  /\ Fits("DataSomeValuesFrom", "owl:Restriction", "", <<"owl:onProperty", "owl:someValuesFrom">>)
  /\ Fits("DataAllValuesFrom", "owl:Restriction", "", <<"owl:onProperty", "owl:allValuesFrom">>)
  /\ Fits("DataSomeValuesFromNary", "owl:Restriction", "owl:onProperties", <<"owl:someValuesFrom">>)
<1>1. \A k \in {"DataSomeValuesFrom", "DataAllValuesFrom",
                "DataSomeValuesFromNary"} :
        General(k) /\ Shape[k] = DataFillerShapes[k]
  BY ShapeInTable DEF KindNames, Tables, General
<1>2. Shape["DataSomeValuesFrom"] = Filled("owl:someValuesFrom", "resource")
  BY <1>1 DEF DataFillerShapes
<1>3. Shape["DataAllValuesFrom"] = Filled("owl:allValuesFrom", "resource")
  BY <1>1 DEF DataFillerShapes
<1>4. Shape["DataSomeValuesFromNary"] = OnProperties("owl:someValuesFrom")
  BY <1>1 DEF DataFillerShapes
<1>. QED  BY <1>1, <1>2, <1>3, <1>4, FilledFits, OnPropertiesFits

LEMMA DataValueFit ==
  /\ Fits("DataAllValuesFromNary", "owl:Restriction", "owl:onProperties", <<"owl:allValuesFrom">>)
  /\ Fits("DataHasValue", "owl:Restriction", "", <<"owl:onProperty", "owl:hasValue">>)
<1>1. \A k \in {"DataAllValuesFromNary",
                "DataHasValue"} :
        General(k) /\ Shape[k] = DataValueShapes[k]
  BY ShapeInTable DEF KindNames, Tables, General
<1>2. Shape["DataAllValuesFromNary"] = OnProperties("owl:allValuesFrom")
  BY <1>1 DEF DataValueShapes
<1>3. Shape["DataHasValue"] = Filled("owl:hasValue", "literal")
  BY <1>1 DEF DataValueShapes
<1>. QED  BY <1>1, <1>2, <1>3, FilledFits, OnPropertiesFits

LEMMA DataCardinalityFit ==
  /\ Fits("DataMinCardinality", "owl:Restriction", "", <<"owl:onProperty", "owl:minCardinality">>)
  /\ Fits("DataMaxCardinality", "owl:Restriction", "", <<"owl:onProperty", "owl:maxCardinality">>)
  /\ Fits("DataMinCardinalityQualified", "owl:Restriction", "", <<"owl:onProperty",
                                                                  "owl:minQualifiedCardinality",
                                                                  "owl:onDataRange">>)
<1>1. \A k \in {"DataMinCardinality", "DataMaxCardinality",
                "DataMinCardinalityQualified"} :
        General(k) /\ Shape[k] = DataCardinalityShapes[k]
  BY ShapeInTable DEF KindNames, Tables, General
<1>2. Shape["DataMinCardinality"] = Filled("owl:minCardinality", "count")
  BY <1>1 DEF DataCardinalityShapes
<1>3. Shape["DataMaxCardinality"] = Filled("owl:maxCardinality", "count")
  BY <1>1 DEF DataCardinalityShapes
<1>4. Shape["DataMinCardinalityQualified"] = Qualified("owl:minQualifiedCardinality",
                                                       "owl:onDataRange")
  BY <1>1 DEF DataCardinalityShapes
<1>. QED  BY <1>1, <1>2, <1>3, <1>4, FilledFits, QualifiedFits

LEMMA DataExactCardinalityFit ==
  /\ Fits("DataExactCardinality", "owl:Restriction", "", <<"owl:onProperty", "owl:cardinality">>)
  /\ Fits("DataMaxCardinalityQualified", "owl:Restriction", "", <<"owl:onProperty",
                                                                  "owl:maxQualifiedCardinality",
                                                                  "owl:onDataRange">>)
  /\ Fits("DataExactCardinalityQualified", "owl:Restriction", "", <<"owl:onProperty",
                                                                    "owl:qualifiedCardinality",
                                                                    "owl:onDataRange">>)
<1>1. \A k \in {"DataExactCardinality", "DataMaxCardinalityQualified",
                "DataExactCardinalityQualified"} :
        General(k) /\ Shape[k] = DataExactCardinalityShapes[k]
  BY ShapeInTable DEF KindNames, Tables, General
<1>2. Shape["DataExactCardinality"] = Filled("owl:cardinality", "count")
  BY <1>1 DEF DataExactCardinalityShapes
<1>3. Shape["DataMaxCardinalityQualified"] = Qualified("owl:maxQualifiedCardinality",
                                                       "owl:onDataRange")
  BY <1>1 DEF DataExactCardinalityShapes
<1>4. Shape["DataExactCardinalityQualified"] = Qualified("owl:qualifiedCardinality",
                                                         "owl:onDataRange")
  BY <1>1 DEF DataExactCardinalityShapes
<1>. QED  BY <1>1, <1>2, <1>3, <1>4, FilledFits, QualifiedFits

LEMMA ObjectFillerFit ==
  /\ Fits("ObjectSomeValuesFrom", "owl:Restriction", "", <<"owl:onProperty", "owl:someValuesFrom">>)
  /\ Fits("ObjectAllValuesFrom", "owl:Restriction", "", <<"owl:onProperty", "owl:allValuesFrom">>)
  /\ Fits("ObjectHasValue", "owl:Restriction", "", <<"owl:onProperty", "owl:hasValue">>)
  /\ Fits("ObjectHasSelf", "owl:Restriction", "", <<"owl:onProperty", "owl:hasSelf">>)
<1>1. \A k \in {"ObjectSomeValuesFrom", "ObjectAllValuesFrom", "ObjectHasValue",
                "ObjectHasSelf"} :
        General(k) /\ Shape[k] = ObjectFillerShapes[k]
  BY ShapeInTable DEF KindNames, Tables, General
<1>2. Shape["ObjectSomeValuesFrom"] = Filled("owl:someValuesFrom", "resource")
  BY <1>1 DEF ObjectFillerShapes
<1>3. Shape["ObjectAllValuesFrom"] = Filled("owl:allValuesFrom", "resource")
  BY <1>1 DEF ObjectFillerShapes
<1>4. Shape["ObjectHasValue"] = Filled("owl:hasValue", "resource")
  BY <1>1 DEF ObjectFillerShapes
<1>5. Shape["ObjectHasSelf"] = Filled("owl:hasSelf", "true")
  BY <1>1 DEF ObjectFillerShapes
<1>. QED  BY <1>1, <1>2, <1>3, <1>4, <1>5, FilledFits

LEMMA ObjectCardinalityFit ==
  /\ Fits("ObjectMinCardinality", "owl:Restriction", "", <<"owl:onProperty", "owl:minCardinality">>)
  /\ Fits("ObjectMaxCardinality", "owl:Restriction", "", <<"owl:onProperty", "owl:maxCardinality">>)
  /\ Fits("ObjectMinCardinalityQualified", "owl:Restriction", "", <<"owl:onProperty",
                                                                    "owl:minQualifiedCardinality",
                                                                    "owl:onClass">>)
<1>1. \A k \in {"ObjectMinCardinality", "ObjectMaxCardinality",
                "ObjectMinCardinalityQualified"} :
        General(k) /\ Shape[k] = ObjectCardinalityShapes[k]
  BY ShapeInTable DEF KindNames, Tables, General
<1>2. Shape["ObjectMinCardinality"] = Filled("owl:minCardinality", "count")
  BY <1>1 DEF ObjectCardinalityShapes
<1>3. Shape["ObjectMaxCardinality"] = Filled("owl:maxCardinality", "count")
  BY <1>1 DEF ObjectCardinalityShapes
<1>4. Shape["ObjectMinCardinalityQualified"] = Qualified("owl:minQualifiedCardinality",
                                                         "owl:onClass")
  BY <1>1 DEF ObjectCardinalityShapes
<1>. QED  BY <1>1, <1>2, <1>3, <1>4, FilledFits, QualifiedFits

LEMMA ObjectExactCardinalityFit ==
  /\ Fits("ObjectExactCardinality", "owl:Restriction", "", <<"owl:onProperty", "owl:cardinality">>)
  /\ Fits("ObjectMaxCardinalityQualified", "owl:Restriction", "", <<"owl:onProperty",
                                                                    "owl:maxQualifiedCardinality",
                                                                    "owl:onClass">>)
  /\ Fits("ObjectExactCardinalityQualified", "owl:Restriction", "", <<"owl:onProperty",
                                                                      "owl:qualifiedCardinality",
                                                                      "owl:onClass">>)
<1>1. \A k \in {"ObjectExactCardinality", "ObjectMaxCardinalityQualified",
                "ObjectExactCardinalityQualified"} :
        General(k) /\ Shape[k] = ObjectExactCardinalityShapes[k]
  BY ShapeInTable DEF KindNames, Tables, General
<1>2. Shape["ObjectExactCardinality"] = Filled("owl:cardinality", "count")
  BY <1>1 DEF ObjectExactCardinalityShapes
<1>3. Shape["ObjectMaxCardinalityQualified"] = Qualified("owl:maxQualifiedCardinality",
                                                         "owl:onClass")
  BY <1>1 DEF ObjectExactCardinalityShapes
<1>4. Shape["ObjectExactCardinalityQualified"] = Qualified("owl:qualifiedCardinality",
                                                           "owl:onClass")
  BY <1>1 DEF ObjectExactCardinalityShapes
<1>. QED  BY <1>1, <1>2, <1>3, <1>4, FilledFits, QualifiedFits

LEMMA SubPropertyFit ==
  /\ Fits("SubObjectPropertyOf", "", "", <<"rdfs:subPropertyOf">>)
  /\ Fits("SubDataPropertyOf", "", "", <<"rdfs:subPropertyOf">>)
  /\ Fits("SubObjectPropertyOfChain", "", "owl:propertyChainAxiom", <<>>)
<1>1. \A k \in {"SubObjectPropertyOf", "SubDataPropertyOf",
                "SubObjectPropertyOfChain"} :
        General(k) /\ Shape[k] = SubPropertyShapes[k]
  BY ShapeInTable DEF KindNames, Tables, General
<1>2. Shape["SubObjectPropertyOf"] = Binary("resource", "rdfs:subPropertyOf", "resource")
  BY <1>1 DEF SubPropertyShapes
<1>3. Shape["SubDataPropertyOf"] = Binary("iri", "rdfs:subPropertyOf", "iri")
  BY <1>1 DEF SubPropertyShapes
<1>4. Shape["SubObjectPropertyOfChain"] = Listed("", "owl:propertyChainAxiom", 2)
  BY <1>1 DEF SubPropertyShapes
<1>. QED  BY <1>1, <1>2, <1>3, <1>4, BinaryFits, ListedFits

LEMMA PropertyDomainFit ==
  /\ Fits("ObjectPropertyDomain", "", "", <<"rdfs:domain">>)
  /\ Fits("ObjectPropertyRange", "", "", <<"rdfs:range">>)
  /\ Fits("DataPropertyDomain", "", "", <<"rdfs:domain">>)
  /\ Fits("DataPropertyRange", "", "", <<"rdfs:range">>)
<1>1. \A k \in {"ObjectPropertyDomain", "ObjectPropertyRange", "DataPropertyDomain",
                "DataPropertyRange"} :
        General(k) /\ Shape[k] = PropertyDomainShapes[k]
  BY ShapeInTable DEF KindNames, Tables, General
<1>2. Shape["ObjectPropertyDomain"] = Binary("resource", "rdfs:domain", "resource")
  BY <1>1 DEF PropertyDomainShapes
<1>3. Shape["ObjectPropertyRange"] = Binary("resource", "rdfs:range", "resource")
  BY <1>1 DEF PropertyDomainShapes
<1>4. Shape["DataPropertyDomain"] = Binary("iri", "rdfs:domain", "resource")
  BY <1>1 DEF PropertyDomainShapes
<1>5. Shape["DataPropertyRange"] = Binary("iri", "rdfs:range", "resource")
  BY <1>1 DEF PropertyDomainShapes
<1>. QED  BY <1>1, <1>2, <1>3, <1>4, <1>5, BinaryFits

LEMMA PropertyEquationFit ==
  /\ Fits("InverseObjectProperties", "", "", <<"owl:inverseOf">>)
  /\ Fits("DatatypeDefinition", "", "", <<"owl:equivalentClass">>)
  /\ Fits("EquivalentObjectProperties", "", "", <<"owl:equivalentProperty">>)
  /\ Fits("EquivalentDataProperties", "", "", <<"owl:equivalentProperty">>)
<1>1. \A k \in {"InverseObjectProperties", "DatatypeDefinition", "EquivalentObjectProperties",
                "EquivalentDataProperties"} :
        General(k) /\ Shape[k] = PropertyEquationShapes[k]
  BY ShapeInTable DEF KindNames, Tables, General
<1>2. Shape["InverseObjectProperties"] = Binary("resource", "owl:inverseOf", "resource")
  BY <1>1 DEF PropertyEquationShapes
<1>3. Shape["DatatypeDefinition"] = Binary("iri", "owl:equivalentClass", "resource")
  BY <1>1 DEF PropertyEquationShapes
<1>4. Shape["EquivalentObjectProperties"] = Binary("resource", "owl:equivalentProperty", "resource")
  BY <1>1 DEF PropertyEquationShapes
<1>5. Shape["EquivalentDataProperties"] = Binary("iri", "owl:equivalentProperty", "iri")
  BY <1>1 DEF PropertyEquationShapes
<1>. QED  BY <1>1, <1>2, <1>3, <1>4, <1>5, BinaryFits

LEMMA DisjointPropertyFit ==
  /\ Fits("DisjointObjectProperties", "", "", <<"owl:propertyDisjointWith">>)
  /\ Fits("DisjointDataProperties", "", "", <<"owl:propertyDisjointWith">>)
  /\ Fits("DisjointObjectPropertiesNary", "owl:AllDisjointProperties", "owl:members", <<>>)
<1>1. \A k \in {"DisjointObjectProperties", "DisjointDataProperties",
                "DisjointObjectPropertiesNary"} :
        General(k) /\ Shape[k] = DisjointPropertyShapes[k]
  BY ShapeInTable DEF KindNames, Tables, General
<1>2. Shape["DisjointObjectProperties"] = Binary("resource", "owl:propertyDisjointWith", "resource")
  BY <1>1 DEF DisjointPropertyShapes
<1>3. Shape["DisjointDataProperties"] = Binary("iri", "owl:propertyDisjointWith", "iri")
  BY <1>1 DEF DisjointPropertyShapes
<1>4. Shape["DisjointObjectPropertiesNary"] = Listed("owl:AllDisjointProperties", "owl:members", 3)
  BY <1>1 DEF DisjointPropertyShapes
<1>. QED  BY <1>1, <1>2, <1>3, <1>4, BinaryFits, ListedFits

LEMMA KeyFit ==
  /\ Fits("DisjointDataPropertiesNary", "owl:AllDisjointProperties", "owl:members", <<>>)
  /\ Fits("HasKey", "", "owl:hasKey", <<>>)
<1>1. \A k \in {"DisjointDataPropertiesNary", "HasKey"} : General(k) /\ Shape[k] = KeyShapes[k]
  BY ShapeInTable DEF KindNames, Tables, General
<1>2. Shape["DisjointDataPropertiesNary"] = Listed("owl:AllDisjointProperties", "owl:members", 3)
  BY <1>1 DEF KeyShapes
<1>3. Shape["HasKey"] = Listed("", "owl:hasKey", 1)
  BY <1>1 DEF KeyShapes
<1>. QED  BY <1>1, <1>2, <1>3, ListedFits

LEMMA NegativeAssertionFit ==
  /\ Fits("NegativeObjectPropertyAssertion", "owl:NegativePropertyAssertion", "",
          <<"owl:assertionProperty", "owl:sourceIndividual", "owl:targetIndividual">>)
  /\ Fits("NegativeDataPropertyAssertion", "owl:NegativePropertyAssertion", "",
          <<"owl:assertionProperty", "owl:sourceIndividual", "owl:targetValue">>)
<1>1. \A k \in {"NegativeObjectPropertyAssertion",
                "NegativeDataPropertyAssertion"} :
        General(k) /\ Shape[k] = NegativeAssertionShapes[k]
  BY ShapeInTable DEF KindNames, Tables, General
<1>2. Shape["NegativeObjectPropertyAssertion"] = NegativeAssertion("resource",
                                                                   "owl:targetIndividual",
                                                                   "resource")
  BY <1>1 DEF NegativeAssertionShapes
<1>3. Shape["NegativeDataPropertyAssertion"] = NegativeAssertion("iri", "owl:targetValue",
                                                                 "literal")
  BY <1>1 DEF NegativeAssertionShapes
<1>. QED  BY <1>1, <1>2, <1>3, NegativeAssertionFits

LEMMA IndividualFit ==
  /\ Fits("DifferentIndividuals", "", "", <<"owl:differentFrom">>)
  /\ Fits("SameIndividual", "", "", <<"owl:sameAs">>)
  /\ Fits("DifferentIndividualsNary", "owl:AllDifferent", "owl:members", <<>>)
<1>1. \A k \in {"DifferentIndividuals", "SameIndividual",
                "DifferentIndividualsNary"} :
        General(k) /\ Shape[k] = IndividualShapes[k]
  BY ShapeInTable DEF KindNames, Tables, General
<1>2. Shape["DifferentIndividuals"] = Binary("resource", "owl:differentFrom", "resource")
  BY <1>1 DEF IndividualShapes
<1>3. Shape["SameIndividual"] = Binary("resource", "owl:sameAs", "resource")
  BY <1>1 DEF IndividualShapes
<1>4. Shape["DifferentIndividualsNary"] = Listed("owl:AllDifferent", "owl:members", 3)
  BY <1>1 DEF IndividualShapes
<1>. QED  BY <1>1, <1>2, <1>3, <1>4, BinaryFits, ListedFits

LEMMA CharacteristicFit ==
  /\ Fits("FunctionalObjectProperty", "owl:FunctionalProperty", "", <<>>)
  /\ Fits("FunctionalDataProperty", "owl:FunctionalProperty", "", <<>>)
  /\ Fits("InverseFunctionalObjectProperty", "owl:InverseFunctionalProperty", "", <<>>)
  /\ Fits("ReflexiveObjectProperty", "owl:ReflexiveProperty", "", <<>>)
  /\ Fits("IrreflexiveObjectProperty", "owl:IrreflexiveProperty", "", <<>>)
  /\ Fits("SymmetricObjectProperty", "owl:SymmetricProperty", "", <<>>)
  /\ Fits("AsymmetricObjectProperty", "owl:AsymmetricProperty", "", <<>>)
  /\ Fits("TransitiveObjectProperty", "owl:TransitiveProperty", "", <<>>)
<1>1. \A k \in {"FunctionalObjectProperty", "FunctionalDataProperty",
                "InverseFunctionalObjectProperty", "ReflexiveObjectProperty",
                "IrreflexiveObjectProperty", "SymmetricObjectProperty",
                "AsymmetricObjectProperty",
                "TransitiveObjectProperty"} :
        General(k) /\ Shape[k] = CharacteristicShapes[k]
  BY ShapeInTable DEF KindNames, Tables, General
<1>2. Shape["FunctionalObjectProperty"] = Typed("owl:FunctionalProperty")
  BY <1>1 DEF CharacteristicShapes
<1>3. Shape["FunctionalDataProperty"] = Typed("owl:FunctionalProperty")
  BY <1>1 DEF CharacteristicShapes
<1>4. Shape["InverseFunctionalObjectProperty"] = Typed("owl:InverseFunctionalProperty")
  BY <1>1 DEF CharacteristicShapes
<1>5. Shape["ReflexiveObjectProperty"] = Typed("owl:ReflexiveProperty")
  BY <1>1 DEF CharacteristicShapes
<1>6. Shape["IrreflexiveObjectProperty"] = Typed("owl:IrreflexiveProperty")
  BY <1>1 DEF CharacteristicShapes
<1>7. Shape["SymmetricObjectProperty"] = Typed("owl:SymmetricProperty")
  BY <1>1 DEF CharacteristicShapes
<1>8. Shape["AsymmetricObjectProperty"] = Typed("owl:AsymmetricProperty")
  BY <1>1 DEF CharacteristicShapes
<1>9. Shape["TransitiveObjectProperty"] = Typed("owl:TransitiveProperty")
  BY <1>1 DEF CharacteristicShapes
<1>. QED  BY <1>1, <1>2, <1>3, <1>4, <1>5, <1>6, <1>7, <1>8, <1>9, TypedFits

LEMMA DatatypeRestrictionFit ==
  Fits("DatatypeRestriction", "rdfs:Datatype", "owl:withRestrictions", <<"owl:onDatatype">>)
<1>1. General("DatatypeRestriction")
      /\ Shape["DatatypeRestriction"] = DatatypeRestrictionShape["DatatypeRestriction"]
  BY ShapeInTable DEF KindNames, Tables, General
<1>2. PICK nodes : nodes = <<<<"owl:onDatatype", "iri">>>>
  OBVIOUS
<1>3. PICK s : s = Shape["DatatypeRestriction"]
  OBVIOUS
<1>4. s = [Listed("rdfs:Datatype", "owl:withRestrictions", 0) EXCEPT !.nodes = nodes]
  BY <1>1, <1>2, <1>3 DEF DatatypeRestrictionShape
<1>5. s.type = "rdfs:Datatype" /\ s.list = "owl:withRestrictions" /\ s.nodes = nodes
  BY <1>4 DEF Listed, Typed
<1>6. /\ DOMAIN nodes = DOMAIN <<"owl:onDatatype">>
      /\ \A i \in DOMAIN <<"owl:onDatatype">> : nodes[i][1] = <<"owl:onDatatype">>[i]
  BY <1>2
<1>. QED  BY <1>1, <1>3, <1>5, <1>6 DEF Fits

\* An assertion has no type and no list.
LEMMA AssertionFit ==
  ASSUME NEW kind \in {"ObjectPropertyAssertion", "DataPropertyAssertion"}
  PROVE  /\ kind \in Kinds /\ kind \in DOMAIN AssertionShapes
         /\ Shape[kind].type = "" /\ Shape[kind].list = "" /\ DOMAIN Shape[kind].nodes = 1 .. 2
<1>1. kind \in Kinds /\ Shape[kind] = AssertionShapes[kind]
  BY ShapeInTable DEF KindNames, Tables
<1>2. kind \in DOMAIN AssertionShapes
  BY DEF AssertionShapes
<1>3. \E nodes : DOMAIN nodes = 1 .. 2 /\ Shape[kind] = [Typed("") EXCEPT !.nodes = nodes]
  <2>0. PICK r, i, l : r = <<"", "resource">> /\ i = <<"", "iri">> /\ l = <<"", "literal">>
    OBVIOUS
  <2>1. PICK a : a = <<r, r>>
    OBVIOUS
  <2>2. PICK b : b = <<i, l>>
    OBVIOUS
  <2>3. AssertionShapes = [ObjectPropertyAssertion |-> [Typed("") EXCEPT !.nodes = a],
                           DataPropertyAssertion   |-> [Typed("") EXCEPT !.nodes = b]]
    BY <2>0, <2>1, <2>2 DEF AssertionShapes
  <2>4. PICK x, y : x = [Typed("") EXCEPT !.nodes = a] /\ y = [Typed("") EXCEPT !.nodes = b]
    OBVIOUS
  <2>5. AssertionShapes = [ObjectPropertyAssertion |-> x, DataPropertyAssertion |-> y]
    BY <2>3, <2>4
  <2>6. Shape[kind] = x \/ Shape[kind] = y
    BY <1>1, <2>5
  <2>7. DOMAIN a = 1 .. 2 /\ DOMAIN b = 1 .. 2
    BY <2>1, <2>2
  <2>. QED  BY <2>4, <2>6, <2>7
<1>4. PICK nodes : DOMAIN nodes = 1 .. 2 /\ Shape[kind] = [Typed("") EXCEPT !.nodes = nodes]
  BY <1>3
<1>5. PICK s : s = Shape[kind]
  OBVIOUS
<1>6. s.type = "" /\ s.list = "" /\ s.nodes = nodes
  BY <1>4, <1>5 DEF Typed
<1>7. Shape[kind].type = "" /\ Shape[kind].list = ""
  BY <1>5, <1>6
<1>8. DOMAIN Shape[kind].nodes = 1 .. 2
  BY <1>4, <1>5, <1>6
<1>. QED  BY <1>1, <1>2, <1>7, <1>8

-----------------------------------------------------------------------------
(* Lists of the graph                                                      *)

\* An RDF graph: finite, and of triples.
GraphOK == IsFiniteSet(graph) /\ \A t \in graph : t = <<t[1], t[2], t[3]>>

\* The one object of a predicate is an object of it.
LEMMA SingleIn ==
  ASSUME GraphOK, NEW s, NEW p, NEW test, Single(s, p, test)
  PROVE  The(s, p) \in Objects(s, p) /\ <<s, p, The(s, p)>> \in graph
<1>1. Objects(s, p) # {}
  BY FS_EmptySet DEF Single
<1>2. The(s, p) \in Objects(s, p)
  BY <1>1 DEF The
<1>3. PICK t \in graph : t[1] = s /\ t[2] = p /\ t[3] = The(s, p)
  BY <1>2 DEF Objects
<1>4. t = <<t[1], t[2], t[3]>>
  BY DEF GraphOK
<1>. QED  BY <1>2, <1>3, <1>4

\* What a walk from head has found when it is at at: a chain of cells, each with one
\* value and one rest.
Linked(cells, head, at) ==
  /\ cells = <<>> => head = at
  /\ cells # <<>> => cells[1] = head /\ The(cells[Len(cells)], "rdf:rest") = at
  /\ \A i \in 1 .. Len(cells) - 1 : The(cells[i], "rdf:rest") = cells[i + 1]
  /\ \A i \in 1 .. Len(cells) : Single(cells[i], "rdf:first", "node")
                                  /\ Single(cells[i], "rdf:rest", "resource")

\* A walk that visits one more cell.
LEMMA LinkedMore ==
  ASSUME NEW N, NEW cells \in Seq(N), NEW head, NEW at \in N, Linked(cells, head, at),
         Single(at, "rdf:first", "node"), Single(at, "rdf:rest", "resource")
  PROVE  Linked(Append(cells, at), head, The(at, "rdf:rest"))
<1>0. Append(cells, at) \in Seq(N)
  OBVIOUS
<1>1. PICK more \in Seq(N) : more = Append(cells, at)
  BY <1>0
<1>2. /\ Len(more) = Len(cells) + 1 /\ Len(cells) \in Nat /\ more[Len(more)] = at
      /\ \A i \in 1 .. Len(cells) : more[i] = cells[i]
  BY <1>1
<1>3. more # <<>> /\ The(more[Len(more)], "rdf:rest") = The(at, "rdf:rest")
  BY <1>2
<1>4. more[1] = head
  <2>1. CASE cells = <<>>
    BY <1>2, <2>1 DEF Linked
  <2>2. CASE cells # <<>>
    BY <1>2, <2>2 DEF Linked
  <2>. QED  BY <2>1, <2>2
<1>5. \A i \in 1 .. Len(more) - 1 : The(more[i], "rdf:rest") = more[i + 1]
  <2>. TAKE i \in 1 .. Len(more) - 1
  <2>1. CASE i = Len(cells)
    <3>1. cells # <<>> /\ more[i] = cells[Len(cells)] /\ more[i + 1] = at
      BY <1>2, <2>1
    <3>. QED  BY <3>1 DEF Linked
  <2>2. CASE i # Len(cells)
    <3>1. i \in 1 .. Len(cells) - 1 /\ more[i] = cells[i] /\ more[i + 1] = cells[i + 1]
      BY <1>2, <2>2
    <3>. QED  BY <3>1 DEF Linked
  <2>. QED  BY <2>1, <2>2
<1>6. \A i \in 1 .. Len(more) : Single(more[i], "rdf:first", "node")
                                 /\ Single(more[i], "rdf:rest", "resource")
  <2>. TAKE i \in 1 .. Len(more)
  <2>1. CASE i = Len(more)
    BY <1>2, <2>1
  <2>2. CASE i # Len(more)
    <3>1. i \in 1 .. Len(cells) /\ more[i] = cells[i]
      BY <1>2, <2>2
    <3>. QED  BY <3>1 DEF Linked
  <2>. QED  BY <2>1, <2>2
<1>7. Linked(more, head, The(at, "rdf:rest"))
  BY <1>3, <1>4, <1>5, <1>6 DEF Linked
<1>. QED  BY <1>1, <1>7

\* The states of a walk, and its step.
Places(head) == {head} \cup {t[3] : t \in graph}
Walked(head) ==
  {w \in [ok : BOOLEAN, cells : Seq(Places(head)), at : Places(head)] : Linked(w.cells, head, w.at)}
WalkStep(w) ==
  IF ~w.ok \/ w.at = Nil THEN w
  ELSE IF CellBroken(w.cells, w.at) THEN [w EXCEPT !.ok = FALSE]
  ELSE [ok |-> TRUE, cells |-> Append(w.cells, w.at), at |-> The(w.at, "rdf:rest")]

\* A step of a walk leaves it a chain of cells.
LEMMA WalkStepTyped ==
  ASSUME GraphOK, NEW head, NEW w \in Walked(head)
  PROVE  WalkStep(w) \in Walked(head)
<1>1. w \in [ok : BOOLEAN, cells : Seq(Places(head)), at : Places(head)] /\ Linked(w.cells, head,
                                                                                   w.at)
  BY DEF Walked
<1>2. CASE ~w.ok \/ w.at = Nil
  BY <1>2 DEF WalkStep
<1>3. CASE ~(~w.ok \/ w.at = Nil) /\ CellBroken(w.cells, w.at)
  <2>1. PICK v : v = [w EXCEPT !.ok = FALSE]
    OBVIOUS
  <2>2. v \in [ok : BOOLEAN, cells : Seq(Places(head)), at : Places(head)]
        /\ v.cells = w.cells /\ v.at = w.at
    BY <1>1, <2>1
  <2>3. WalkStep(w) = v
    BY <1>3, <2>1 DEF WalkStep
  <2>. QED  BY <1>1, <2>2, <2>3 DEF Walked
<1>4. CASE ~(~w.ok \/ w.at = Nil) /\ ~CellBroken(w.cells, w.at)
  <2>1. PICK cells, at, next : cells = w.cells /\ at = w.at /\ next = The(at, "rdf:rest")
    OBVIOUS
  <2>2. cells \in Seq(Places(head)) /\ at \in Places(head) /\ Linked(cells, head, at)
    BY <1>1, <2>1
  <2>3. Single(at, "rdf:first", "node") /\ Single(at, "rdf:rest", "resource")
    BY <1>4, <2>1 DEF CellBroken
  <2>4. next \in Places(head)
    <3>1. next \in Objects(at, "rdf:rest")
      BY <2>1, <2>3, SingleIn
    <3>. QED  BY <3>1 DEF Places, Objects
  <2>5. Linked(Append(cells, at), head, next)
    BY <2>1, <2>2, <2>3, LinkedMore
  <2>6. Append(cells, at) \in Seq(Places(head))
    BY <2>2
  <2>7. PICK more \in Seq(Places(head)) : more = Append(cells, at)
    BY <2>6
  <2>8. PICK v : v = [ok |-> TRUE, cells |-> more, at |-> next]
    OBVIOUS
  <2>9. WalkStep(w) = v
    BY <1>4, <2>1, <2>7, <2>8 DEF WalkStep
  <2>10. v \in [ok : BOOLEAN, cells : Seq(Places(head)), at : Places(head)]
         /\ v.cells = more /\ v.at = next
    BY <2>4, <2>7, <2>8
  <2>. QED  BY <2>5, <2>7, <2>9, <2>10 DEF Walked
<1>. QED  BY <1>2, <1>3, <1>4

\* A walk is what its step makes of its start, as often as the graph has triples.
WalkStart(head) == [ok |-> TRUE, cells |-> <<>>, at |-> head]
WalkSteps(walk, head) ==
  /\ walk[0] = WalkStart(head)
  /\ \A n \in 1 .. Cardinality(graph) : walk[n] = WalkStep(walk[n - 1])

LEMMA StartOfWalk == ASSUME NEW head PROVE WalkStart(head) \in Walked(head)
<1>0. <<>> \in Seq(Places(head))
  OBVIOUS
<1>1. PICK none \in Seq(Places(head)) : none = <<>>
  BY <1>0
<1>2. Linked(none, head, head)
  BY <1>1 DEF Linked
<1>3. PICK first : first = [ok |-> TRUE, cells |-> none, at |-> head]
  OBVIOUS
<1>4. first \in Walked(head)
  BY <1>2, <1>3 DEF Walked, Places
<1>. QED  BY <1>1, <1>3, <1>4 DEF WalkStart

LEMMA WalkIsIterated ==
  ASSUME GraphOK, NEW head
  PROVE  \E walk : WalkSteps(walk, head) /\ Walk(head) = walk[Cardinality(graph)]
<1>. DEFINE N == Cardinality(graph)
            S == Walked(head)
            first == [ok |-> TRUE, cells |-> <<>>, at |-> head]
            Op == [n \in Nat |-> [w \in S |-> WalkStep(w)]]
<1>1. N \in Nat
  BY FS_CardinalityType DEF GraphOK
<1>2. first \in S
  BY StartOfWalk DEF WalkStart
<1>3. Op \in Steps(S)
  BY WalkStepTyped DEF Steps
<1>4. \A n \in 1 .. N, w \in S : Op[n][w] = WalkStep(w)
  BY <1>1
<1>. HIDE DEF Op, N, S, first
<1>5. PICK f : IteratesTo(f, N, S, first, Op)
  BY <1>1, <1>2, <1>3, Iterates
<1>6. f \in [0 .. N -> S] /\ f[0] = first
  BY <1>5 DEF IteratesTo
<1>7. \A n \in 1 .. N : f[n] = WalkStep(f[n - 1])
  <2>. TAKE n \in 1 .. N
  <2>1. f[n - 1] \in S /\ f[n] = Op[n][f[n - 1]]
    BY <1>1, <1>5, <1>6 DEF IteratesTo
  <2>. QED  BY <1>4, <2>1
<1>8. f = [n \in 0 .. N |-> IF n = 0 THEN first ELSE WalkStep(f[n - 1])]
  <2>1. \A n \in 0 .. N : f[n] = IF n = 0 THEN first ELSE WalkStep(f[n - 1])
    <3>. TAKE n \in 0 .. N
    <3>1. CASE n = 0
      BY <1>6, <3>1
    <3>2. CASE n # 0
      <4>1. n \in 1 .. N
        BY <1>1, <3>2
      <4>. QED  BY <1>7, <3>2, <4>1
    <3>. QED  BY <3>1, <3>2
  <2>2. f = [n \in 0 .. N |-> f[n]]
    BY <1>6
  <2>. QED  BY <2>1, <2>2, Zenon
<1>. DEFINE walk[n \in 0 .. N] == IF n = 0 THEN first ELSE WalkStep(walk[n - 1])
<1>9. walk = [n \in 0 .. N |-> IF n = 0 THEN first ELSE WalkStep(walk[n - 1])]
  BY <1>8
<1>10. Walk(head) = walk[N]
  BY DEF Walk, WalkStep, N, first
<1>. HIDE DEF walk
<1>11. walk[0] = first /\ \A n \in 1 .. N : walk[n] = WalkStep(walk[n - 1])
  <2>1. walk[0] = first
    BY <1>1, <1>9
  <2>. SUFFICES ASSUME NEW n \in 1 .. N PROVE walk[n] = WalkStep(walk[n - 1])
    BY <2>1
  <2>2. n \in 0 .. N /\ n # 0
    BY <1>1
  <2>. QED  BY <1>9, <2>2
<1>. QED  BY <1>10, <1>11 DEF WalkSteps, WalkStart, N, first

\* Where a walk ends.
LEMMA WalkIsLinked ==
  ASSUME GraphOK, NEW head
  PROVE  Walk(head) \in Walked(head)
<1>1. PICK N : N = Cardinality(graph)
  OBVIOUS
<1>2. N \in Nat
  BY <1>1, FS_CardinalityType DEF GraphOK
<1>3. PICK walk : WalkSteps(walk, head) /\ Walk(head) = walk[N]
  BY <1>1, WalkIsIterated
<1>. DEFINE P == {n \in Nat : n <= N => walk[n] \in Walked(head)}
<1>4. 0 \in P
  BY <1>3, StartOfWalk DEF WalkSteps
<1>5. ASSUME NEW n \in Nat, n \in P PROVE n + 1 \in P
  <2>. SUFFICES ASSUME n + 1 <= N PROVE walk[n + 1] \in Walked(head)
    OBVIOUS
  <2>1. n + 1 \in 1 .. N /\ (n + 1) - 1 = n /\ walk[n] \in Walked(head)
    BY <1>2, <1>5
  <2>2. walk[n + 1] = WalkStep(walk[n])
    BY <1>1, <1>3, <2>1 DEF WalkSteps
  <2>. QED  BY <2>1, <2>2, WalkStepTyped
<1>. HIDE DEF P
<1>6. N \in P
  BY <1>2, <1>4, <1>5, NaturalsByInduction
<1>. QED  BY <1>2, <1>3, <1>6 DEF P

-----------------------------------------------------------------------------
(* What a list and its facets are written as                               *)

\* The rows of a list with these cells, and the triples of the cells.
RowsOf(cells) == [i \in DOMAIN cells |-> <<cells[i], The(cells[i], "rdf:first")>>]
CellTriples(cells) == {<<c, p, The(c, p)>> : c \in Range(cells), p \in {"rdf:first", "rdf:rest"}}

\* The cells of a list are in the graph.
LEMMA CellsInGraph ==
  ASSUME GraphOK, NEW N, NEW cells \in Seq(N), NEW head, NEW at, Linked(cells, head, at)
  PROVE  CellTriples(cells) \subseteq graph
<1>1. \A c \in Range(cells), p \in {"rdf:first", "rdf:rest"} : <<c, p, The(c, p)>> \in graph
  <2>. TAKE c \in Range(cells), p \in {"rdf:first", "rdf:rest"}
  <2>1. PICK i \in 1 .. Len(cells) : c = cells[i]
    BY DEF Range
  <2>2. Single(c, "rdf:first", "node") /\ Single(c, "rdf:rest", "resource")
    BY <2>1 DEF Linked
  <2>. QED  BY <2>2, SingleIn
<1>2. \A t \in CellTriples(cells) : t \in graph
  <2>. TAKE t \in CellTriples(cells)
  <2>1. PICK c \in Range(cells), p \in {"rdf:first", "rdf:rest"} : t = <<c, p, The(c, p)>>
    BY DEF CellTriples
  <2>. QED  BY <1>1, <2>1
<1>. QED  BY <1>2

\* A list that was walked to its end is written (Seq.as_triples) as the cells it was read from.
LEMMA ListTriples ==
  ASSUME NEW N, NEW cells \in Seq(N), NEW head, Linked(cells, head, Nil)
  PROVE  /\ ListHead(RowsOf(cells)) = head
         /\ SeqTriples(RowsOf(cells)) = CellTriples(cells)
<1>1. PICK rows : rows = RowsOf(cells)
  OBVIOUS
<1>2. DOMAIN rows = 1 .. Len(cells) /\ Len(cells) \in Nat
      /\ \A i \in 1 .. Len(cells) : rows[i] = <<cells[i], The(cells[i], "rdf:first")>>
  BY <1>1 DEF RowsOf
<1>3. rows \in Seq({rows[i] : i \in 1 .. Len(cells)})
  <2>1. rows = [i \in 1 .. Len(cells) |-> rows[i]]
    BY <1>1, <1>2 DEF RowsOf
  <2>. QED  BY <1>2, <2>1
<1>4. Len(rows) = Len(cells)
  BY <1>2, <1>3
<1>5. ListHead(rows) = head
  <2>1. CASE cells = <<>>
    <3>1. rows = <<>>
      BY <1>3, <1>4, <2>1
    <3>. QED  BY <2>1, <3>1 DEF Linked, ListHead
  <2>2. CASE cells # <<>>
    <3>1. rows # <<>> /\ 1 \in 1 .. Len(cells)
      BY <1>3, <1>4, <2>2
    <3>2. rows[1][1] = head
      BY <1>2, <2>2, <3>1 DEF Linked
    <3>. QED  BY <3>1, <3>2 DEF ListHead
  <2>. QED  BY <2>1, <2>2
<1>. DEFINE next(i) == IF i = Len(rows) THEN Nil ELSE rows[i + 1][1]
            firsts == {<<rows[i][1], "rdf:first", rows[i][2]>> : i \in DOMAIN rows}
            rests == {<<rows[i][1], "rdf:rest", next(i)>> : i \in DOMAIN rows}
<1>6. SeqTriples(rows) = firsts \cup rests
  BY DEF SeqTriples
<1>7. \A i \in 1 .. Len(cells) : rows[i][1] = cells[i] /\ rows[i][2] = The(cells[i], "rdf:first")
  BY <1>2
<1>8. \A i \in 1 .. Len(cells) : next(i) = The(cells[i], "rdf:rest")
  <2>. TAKE i \in 1 .. Len(cells)
  <2>1. CASE i = Len(cells)
    <3>1. cells # <<>>
      BY <2>1
    <3>. QED  BY <1>4, <2>1, <3>1 DEF Linked
  <2>2. CASE i # Len(cells)
    <3>1. i \in 1 .. Len(cells) - 1 /\ i + 1 \in 1 .. Len(cells)
      BY <1>2, <2>2
    <3>2. next(i) = cells[i + 1]
      BY <1>4, <1>7, <2>2, <3>1
    <3>. QED  BY <3>1, <3>2 DEF Linked
  <2>. QED  BY <2>1, <2>2
<1>. HIDE DEF next
<1>9. firsts = {<<c, "rdf:first", The(c, "rdf:first")>> : c \in Range(cells)}
  <2>1. firsts = {<<cells[i], "rdf:first", The(cells[i], "rdf:first")>> : i \in 1 .. Len(cells)}
    BY <1>2, <1>7
  <2>. QED  BY <2>1 DEF Range
<1>10. rests = {<<c, "rdf:rest", The(c, "rdf:rest")>> : c \in Range(cells)}
  <2>1. rests = {<<cells[i], "rdf:rest", The(cells[i], "rdf:rest")>> : i \in 1 .. Len(cells)}
    BY <1>2, <1>7, <1>8
  <2>. QED  BY <2>1 DEF Range
<1>11. CellTriples(cells) = firsts \cup rests
  BY <1>9, <1>10 DEF CellTriples
<1>. QED  BY <1>1, <1>5, <1>6, <1>11

\* What the one facet of an anchor is.
LEMMA FacetOfAnchor ==
  ASSUME GraphOK, NEW anchor, ~AnchorBroken(anchor)
  PROVE  \E t \in graph : /\ Facets(anchor) = {t} /\ t = <<anchor, t[2], t[3]>>
                          /\ Tail(t) = <<t[2], t[3]>>
<1>1. IsFiniteSet(Facets(anchor)) /\ Cardinality(Facets(anchor)) = 1
  BY FS_Subset DEF GraphOK, Facets, AnchorBroken
<1>2. PICK t : Facets(anchor) = {t}
  BY <1>1, FS_Singleton
<1>3. t \in graph /\ t[1] = anchor
  BY <1>2 DEF Facets
<1>4. t = <<anchor, t[2], t[3]>>
  BY <1>3 DEF GraphOK
<1>5. PICK p, v : p = t[2] /\ v = t[3]
  OBVIOUS
<1>6. t = <<anchor, p, v>>
  BY <1>4, <1>5
<1>7. Tail(t) = <<p, v>>
  BY <1>6
<1>. QED  BY <1>2, <1>3, <1>4, <1>5, <1>7

-----------------------------------------------------------------------------
(* Readings, and the elements they yield                                   *)

\* What an element of this kind is written as, given what it took.
Spelling(kind, claims) ==
  IF kind # "DifferentIndividualsNary" THEN claims
  ELSE {IF t[2] = "owl:distinctMembers" THEN <<t[1], "owl:members", t[3]>> ELSE t : t \in claims}
Spelled(list) == IF list = "owl:distinctMembers" THEN "owl:members" ELSE list

\* The predicates of what a reading fetches.
PredsOf(f) == [i \in DOMAIN f.fetch |-> f.fetch[i][1]]

\* A reading of an element that is named by a subject of the graph,
ReadsSubject(f) ==
  /\ f.take = {} /\ f.fields = <<>>
  /\ Fits(f.kind, f.type, Spelled(f.list), PredsOf(f))
  /\ \E n \in Nat : DOMAIN f.fetch = 1 .. n
  /\ f.type # "" => Has(f.name, "rdf:type", f.type)
  /\ f.kind # "DifferentIndividualsNary" => f.list # "owl:distinctMembers"
  /\ f.list = "owl:distinctMembers" => ~HasAny(f.name, "owl:members")
  /\ f.kind = "DifferentIndividualsNary" =>
       f.list # "" /\ DOMAIN f.fetch = {} /\ f.members # "facet"

\* and a reading of an element in one triple.
ReadsTriple(f) ==
  /\ f.type = "" /\ DOMAIN f.fetch = {} /\ f.list = "" /\ f.members # "facet"
  /\ f.kind \in Kinds \ {"DifferentIndividualsNary"}
  /\ \E t \in graph :
       /\ f.take = {t} /\ f.name = t[1]
       /\ \/ Fits(f.kind, "", "", <<t[2]>>) /\ f.fields = <<t[3]>>
          \/ Fits(f.kind, t[3], "", <<>>) /\ t[3] # "" /\ t[2] = "rdf:type" /\ f.fields = <<>>
          \/ /\ f.kind \in DOMAIN AssertionShapes /\ f.fields = <<t[2], t[3]>>
             /\ Shape[f.kind].type = "" /\ Shape[f.kind].list = ""

\* What a reading took for its type, its fields, its list and its facets.
TypeTriples(f)  == IF f.type = "" THEN {} ELSE {<<f.name, "rdf:type", f.type>>}
FieldTriples(f) == {<<f.name, f.fetch[i][1], Fetched(f)[i]>> : i \in DOMAIN f.fetch}
HeadTriple(f)   == <<f.name, f.list, The(f.name, f.list)>>
AnchorTriples(f) == UNION {Facets(anchor) : anchor \in AnchorsOf(f)}

\* The parts of what a reading took.
LEMMA ClaimsAre ==
  ASSUME NEW f
  PROVE  Claims(f) = f.take \cup TypeTriples(f) \cup FieldTriples(f)
                       \cup (IF HasList(f) THEN {HeadTriple(f)} ELSE {})
                       \cup CellTriples(CellsOf(f)) \cup AnchorTriples(f)
BY DEF Claims, TypeTriples, FieldTriples, HeadTriple, CellTriples, AnchorTriples

\* The list of a readable reading is a chain of cells that ends in rdf:nil.
LEMMA CellsAreLinked ==
  ASSUME GraphOK, NEW f, ~Unreadable(f), HasList(f)
  PROVE  /\ CellsOf(f) \in Seq(Places(The(f.name, f.list)))
         /\ Linked(CellsOf(f), The(f.name, f.list), Nil)
<1>1. PICK head : head = The(f.name, f.list)
  OBVIOUS
<1>2. PICK w : w = Walk(head)
  OBVIOUS
<1>3. w.ok /\ w.at = Nil
  BY <1>1, <1>2 DEF Unreadable, ListBroken
<1>4. w.cells \in Seq(Places(head)) /\ Linked(w.cells, head, w.at)
  BY <1>2, WalkIsLinked DEF Walked
<1>5. CellsOf(f) = w.cells
  BY <1>1, <1>2 DEF CellsOf
<1>. QED  BY <1>1, <1>3, <1>4, <1>5

\* What an element read at a subject takes is in the graph.
LEMMA ClaimsInGraph ==
  ASSUME GraphOK, NEW f, ReadsSubject(f), ~Unreadable(f)
  PROVE  Claims(f) \subseteq graph
<1>1. TypeTriples(f) \subseteq graph
  BY DEF TypeTriples, ReadsSubject, Has
<1>2. FieldTriples(f) \subseteq graph
  <2>. SUFFICES ASSUME NEW t \in FieldTriples(f) PROVE t \in graph
    OBVIOUS
  <2>1. PICK i \in DOMAIN f.fetch : t = <<f.name, f.fetch[i][1], Fetched(f)[i]>>
    BY DEF FieldTriples
  <2>2. PICK p : p = f.fetch[i][1]
    OBVIOUS
  <2>3. Fetched(f)[i] = The(f.name, p)
    BY <2>2 DEF Fetched
  <2>4. PICK test : test = f.fetch[i][2]
    OBVIOUS
  <2>5. Single(f.name, p, test)
    BY <2>2, <2>4 DEF Unreadable
  <2>6. PICK s : s = f.name
    OBVIOUS
  <2>. QED  BY <2>1, <2>2, <2>3, <2>5, <2>6, SingleIn
<1>3. CASE ~HasList(f)
  <2>1. CellsOf(f) = <<>> /\ Range(CellsOf(f)) = {}
    BY <1>3 DEF CellsOf, Range
  <2>2. CellTriples(CellsOf(f)) = {} /\ AnchorTriples(f) = {}
    BY <2>1 DEF CellTriples, AnchorTriples, AnchorsOf
  <2>. QED  BY <1>1, <1>2, <1>3, <2>2, ClaimsAre DEF ReadsSubject
<1>4. CASE HasList(f)
  <2>1. HeadTriple(f) \in graph
    <3>1. PICK s, p : s = f.name /\ p = f.list
      OBVIOUS
    <3>2. Single(s, p, "resource")
      BY <1>4, <3>1 DEF Unreadable, ListBroken
    <3>. QED  BY <3>1, <3>2, SingleIn DEF HeadTriple
  <2>2. CellTriples(CellsOf(f)) \subseteq graph
    BY <1>4, CellsAreLinked, CellsInGraph
  <2>3. AnchorTriples(f) \subseteq graph
    BY DEF AnchorTriples, Facets
  <2>. QED  BY <1>1, <1>2, <1>4, <2>1, <2>2, <2>3, ClaimsAre DEF ReadsSubject
<1>. QED  BY <1>3, <1>4

\* The fields of the element that a reading yields.
FacetOf(anchor) == CHOOSE t \in Facets(anchor) : TRUE
FacetRows(cells) == [i \in DOMAIN cells |-> Tail(FacetOf(The(cells[i], "rdf:first")))]

\* They are what the reading found.
LEMMA ElementFields ==
  ASSUME NEW f
  PROVE  /\ ElementOf(f).kind = f.kind /\ ElementOf(f).name = f.name
         /\ ElementOf(f).nodes = f.fields \o Fetched(f)
         /\ ElementOf(f).rows = RowsOf(CellsOf(f))
         /\ ElementOf(f).facets = IF f.members = "facet" THEN FacetRows(CellsOf(f)) ELSE <<>>
<1>1. PICK cells, rows : cells = CellsOf(f) /\ rows = RowsOf(cells)
  OBVIOUS
<1>2. PICK kind, name, nodes : kind = f.kind /\ name = f.name /\ nodes = f.fields \o Fetched(f)
  OBVIOUS
<1>3. ElementOf(f) =
        Element(f.kind, f.name, f.fields \o Fetched(f), RowsOf(CellsOf(f)),
                IF f.members = "facet"
                THEN [i \in DOMAIN CellsOf(f) |-> Tail(FacetOf(RowsOf(CellsOf(f))[i][2]))]
                ELSE <<>>)
  BY DEF ElementOf, RowsOf, FacetOf
<1>4. [i \in DOMAIN cells |-> Tail(FacetOf(rows[i][2]))] = FacetRows(cells)
  <2>1. \A i \in DOMAIN cells : rows[i][2] = The(cells[i], "rdf:first")
    BY <1>1 DEF RowsOf
  <2>. QED  BY <2>1 DEF FacetRows
<1>5. PICK facets : facets = IF f.members = "facet" THEN FacetRows(cells) ELSE <<>>
  OBVIOUS
<1>6. ElementOf(f) = [kind |-> kind, name |-> name, nodes |-> nodes, rows |-> rows,
                      facets |-> facets]
  <2>1. ElementOf(f) = Element(kind, name, nodes, rows, facets)
    BY <1>1, <1>2, <1>3, <1>4, <1>5
  <2>. QED  BY <2>1 DEF Element
<1>7. PICK e : e = ElementOf(f)
  OBVIOUS
<1>8. e.kind = kind /\ e.name = name /\ e.nodes = nodes /\ e.rows = rows /\ e.facets = facets
  BY <1>6, <1>7
<1>. QED  BY <1>1, <1>2, <1>5, <1>7, <1>8

\* The facets of an element are what the anchors of its list say.
LEMMA FacetTriplesAre ==
  ASSUME GraphOK, NEW f, ~Unreadable(f), f.members = "facet" => HasList(f)
  PROVE  FacetTriples(ElementOf(f)) = AnchorTriples(f)
<1>1. PICK e, cells : e = ElementOf(f) /\ cells = CellsOf(f)
  OBVIOUS
<1>2. CASE f.members # "facet"
  <2>1. e.facets = <<>>
    BY <1>1, <1>2, ElementFields
  <2>2. PICK facets : facets = <<>>
    OBVIOUS
  <2>3. DOMAIN facets = {}
    BY <2>2
  <2>4. FacetTriples(e) = {}
    BY <2>1, <2>2, <2>3 DEF FacetTriples
  <2>5. AnchorTriples(f) = {}
    BY <1>2 DEF AnchorTriples, AnchorsOf
  <2>. QED  BY <1>1, <2>4, <2>5
<1>3. CASE f.members = "facet"
  <2>1. e.facets = FacetRows(cells) /\ e.rows = RowsOf(cells)
    BY <1>1, <1>3, ElementFields
  <2>2. AnchorsOf(f) = {The(cells[i], "rdf:first") : i \in DOMAIN cells}
    BY <1>1, <1>3 DEF AnchorsOf, Range
  <2>3. \A i \in DOMAIN cells : ~AnchorBroken(The(cells[i], "rdf:first"))
    BY <1>3, <2>2 DEF Unreadable, ListBroken
  <2>4. \A i \in DOMAIN cells :
          Facets(The(cells[i], "rdf:first")) =
            {<<e.rows[i][2], e.facets[i][1], e.facets[i][2]>>}
    <3>. TAKE i \in DOMAIN cells
    <3>1. PICK anchor : anchor = The(cells[i], "rdf:first")
      OBVIOUS
    <3>2. PICK t \in graph : /\ Facets(anchor) = {t} /\ t = <<anchor, t[2], t[3]>>
                             /\ Tail(t) = <<t[2], t[3]>>
      BY <2>3, <3>1, FacetOfAnchor
    <3>3. FacetOf(anchor) = t
      BY <3>2 DEF FacetOf
    <3>4. e.facets[i] = <<t[2], t[3]>> /\ e.rows[i][2] = anchor
      BY <2>1, <3>1, <3>2, <3>3 DEF FacetRows, RowsOf
    <3>. QED  BY <3>1, <3>2, <3>4
  <2>5. DOMAIN e.facets = DOMAIN cells
    BY <2>1 DEF FacetRows
  <2>6. FacetTriples(e) = UNION {Facets(The(cells[i], "rdf:first")) : i \in DOMAIN cells}
    BY <2>4, <2>5 DEF FacetTriples
  <2>. QED  BY <1>1, <2>2, <2>6 DEF AnchorTriples
<1>. QED  BY <1>2, <1>3

\* The nodes of an element read at a subject.
LEMMA NodesAreFetched ==
  ASSUME NEW f, f.fields = <<>>, NEW n \in Nat, DOMAIN f.fetch = 1 .. n
  PROVE  ElementOf(f).nodes = Fetched(f)
<1>1. PICK nodes : nodes = Fetched(f)
  OBVIOUS
<1>2. nodes = [i \in 1 .. n |-> nodes[i]]
  BY <1>1 DEF Fetched
<1>3. nodes \in Seq({nodes[i] : i \in 1 .. n})
  BY <1>2
<1>4. <<>> \o nodes = nodes
  BY <1>3, ConcatEmptySeq
<1>. QED  BY <1>1, <1>4, ElementFields

\* The parts of as_triples.
Typing(e) == IF Shape[e.kind].type = "" THEN {} ELSE {<<e.name, "rdf:type", Shape[e.kind].type>>}
Owned(e) ==
  IF Shape[e.kind].list = "" THEN {}
  ELSE {<<e.name, Shape[e.kind].list,
          ListHead(e.rows)>>} \cup SeqTriples(e.rows) \cup FacetTriples(e)
FieldsOf(e) == {<<e.name, Shape[e.kind].nodes[i][1], e.nodes[i]>> : i \in DOMAIN e.nodes}

\* as_triples writes these parts.
LEMMA GeneralAsTriples ==
  ASSUME NEW e, General(e.kind)
  PROVE  AsTriples(e) = Typing(e) \cup Owned(e) \cup FieldsOf(e)
<1>1. e.kind \notin DOMAIN AssertionShapes
  BY DEF General, AssertionShapes
<1>. QED  BY <1>1 DEF AsTriples, Typing, Owned, FieldsOf

\* The type and the fields of an element are what its reading took for them.
LEMMA SubjectParts ==
  ASSUME NEW f, ReadsSubject(f)
  PROVE  /\ Typing(ElementOf(f)) = TypeTriples(f)
         /\ FieldsOf(ElementOf(f)) = FieldTriples(f)
<1>1. PICK e, kind : e = ElementOf(f) /\ kind = f.kind
  OBVIOUS
<1>2. e.kind = kind /\ e.name = f.name
  BY <1>1, ElementFields
<1>3. Fits(kind, f.type, Spelled(f.list), PredsOf(f)) /\ f.fields = <<>>
  BY <1>1 DEF ReadsSubject
<1>4. Typing(e) = TypeTriples(f)
  BY <1>2, <1>3 DEF Typing, TypeTriples, Fits
<1>5. e.nodes = Fetched(f)
  <2>1. PICK n \in Nat : DOMAIN f.fetch = 1 .. n
    BY DEF ReadsSubject
  <2>. QED  BY <1>1, <1>3, <2>1, NodesAreFetched
<1>6. DOMAIN e.nodes = DOMAIN f.fetch
  BY <1>5 DEF Fetched
<1>7. \A i \in DOMAIN f.fetch : Shape[kind].nodes[i][1] = f.fetch[i][1]
  BY <1>3 DEF Fits, PredsOf
<1>8. FieldsOf(e) = FieldTriples(f)
  BY <1>2, <1>5, <1>6, <1>7 DEF FieldsOf, FieldTriples
<1>. QED  BY <1>1, <1>4, <1>8

\* What an element owns is what its reading took for it, in the spelling of the element.
LEMMA SubjectOwns ==
  ASSUME GraphOK, NEW f, ReadsSubject(f), ~Unreadable(f), HasList(f)
  PROVE  Owned(ElementOf(f)) =
           {<<f.name, Spelled(f.list), The(f.name, f.list)>>}
             \cup CellTriples(CellsOf(f)) \cup AnchorTriples(f)
<1>1. PICK e, cells, head : e = ElementOf(f) /\ cells = CellsOf(f) /\ head = The(f.name, f.list)
  OBVIOUS
<1>2. e.kind = f.kind /\ e.name = f.name /\ e.rows = RowsOf(cells)
  BY <1>1, ElementFields
<1>3. ListHead(e.rows) = head /\ SeqTriples(e.rows) = CellTriples(cells)
  <2>1. cells \in Seq(Places(head)) /\ Linked(cells, head, Nil)
    BY <1>1, CellsAreLinked
  <2>. QED  BY <1>2, <2>1, ListTriples
<1>4. FacetTriples(e) = AnchorTriples(f)
  BY <1>1, FacetTriplesAre
<1>5. Shape[e.kind].list = Spelled(f.list) /\ Spelled(f.list) # ""
  BY <1>2 DEF ReadsSubject, Fits, Spelled, HasList
<1>. QED  BY <1>1, <1>2, <1>3, <1>4, <1>5 DEF Owned

\* A kind without a list owns nothing.
LEMMA NothingOwned ==
  ASSUME NEW f, ReadsSubject(f), ~HasList(f)
  PROVE  /\ Owned(ElementOf(f)) = {}
         /\ CellTriples(CellsOf(f)) = {} /\ AnchorTriples(f) = {}
<1>1. PICK e : e = ElementOf(f)
  OBVIOUS
<1>2. e.kind = f.kind
  BY <1>1, ElementFields
<1>3. Shape[e.kind].list = ""
  BY <1>2 DEF ReadsSubject, Fits, Spelled, HasList
<1>4. Owned(e) = {}
  BY <1>3 DEF Owned
<1>5. Range(CellsOf(f)) = {}
  BY DEF CellsOf, Range
<1>6. CellTriples(CellsOf(f)) = {} /\ AnchorTriples(f) = {}
  BY <1>5 DEF CellTriples, AnchorTriples, AnchorsOf
<1>. QED  BY <1>1, <1>4, <1>6

\* An element read at a subject is written as the triples it took.
LEMMA SubjectWritten ==
  ASSUME GraphOK, NEW f, ReadsSubject(f), ~Unreadable(f)
  PROVE  AsTriples(ElementOf(f)) = Spelling(f.kind, Claims(f))
<1>1. PICK e : e = ElementOf(f)
  OBVIOUS
<1>2. e.kind = f.kind
  BY <1>1, ElementFields
<1>3. AsTriples(e) = TypeTriples(f) \cup Owned(e) \cup FieldTriples(f)
  BY <1>1, <1>2, GeneralAsTriples, SubjectParts DEF ReadsSubject, Fits
<1>4. f.take = {}
  BY DEF ReadsSubject
<1>5. CASE f.kind # "DifferentIndividualsNary"
  <2>1. Spelled(f.list) = f.list
    BY <1>5 DEF ReadsSubject, Spelled
  <2>2. CASE HasList(f)
    <3>1. Owned(e) = {HeadTriple(f)} \cup CellTriples(CellsOf(f)) \cup AnchorTriples(f)
      BY <1>1, <2>1, <2>2, SubjectOwns DEF HeadTriple
    <3>. QED  BY <1>1, <1>3, <1>4, <1>5, <2>2, <3>1, ClaimsAre DEF Spelling
  <2>3. CASE ~HasList(f)
    <3>1. Owned(e) = {} /\ CellTriples(CellsOf(f)) = {} /\ AnchorTriples(f) = {}
      BY <1>1, <2>3, NothingOwned
    <3>. QED  BY <1>1, <1>3, <1>4, <1>5, <2>3, <3>1, ClaimsAre DEF Spelling
  <2>. QED  BY <2>2, <2>3
<1>6. CASE f.kind = "DifferentIndividualsNary"
  <2>. DEFINE Spell(t) == IF t[2] = "owl:distinctMembers" THEN <<t[1], "owl:members", t[3]>> ELSE t
              T == TypeTriples(f)
              C == CellTriples(CellsOf(f))
              head == <<f.name, Spelled(f.list), The(f.name, f.list)>>
  <2>1. HasList(f) /\ DOMAIN f.fetch = {} /\ f.members # "facet"
    BY <1>6 DEF ReadsSubject, HasList
  <2>2. FieldTriples(f) = {} /\ AnchorTriples(f) = {}
    BY <2>1 DEF FieldTriples, AnchorTriples, AnchorsOf
  <2>3. AsTriples(e) = T \cup {head} \cup C
    BY <1>1, <1>3, <2>1, <2>2, SubjectOwns
  <2>4. Claims(f) = T \cup {HeadTriple(f)} \cup C
    BY <1>4, <2>1, <2>2, ClaimsAre
  <2>5. \A t \in T : Spell(t) = t
    <3>. SUFFICES ASSUME NEW t \in TypeTriples(f) PROVE t[2] # "owl:distinctMembers"
      OBVIOUS
    <3>1. PICK s, type : t = <<s, "rdf:type", type>>
      BY DEF TypeTriples
    <3>. QED  BY <3>1
  <2>6. \A t \in C : Spell(t) = t
    <3>. SUFFICES ASSUME NEW t \in CellTriples(CellsOf(f)) PROVE t[2] # "owl:distinctMembers"
      OBVIOUS
    <3>1. PICK c \in Range(CellsOf(f)), p \in {"rdf:first", "rdf:rest"} : t = <<c, p, The(c, p)>>
      BY DEF CellTriples
    <3>. QED  BY <3>1
  <2>7. Spell(HeadTriple(f)) = head
    BY DEF HeadTriple, Spelled
  <2>8. Spelling(f.kind, Claims(f)) = {Spell(t) : t \in Claims(f)}
    BY <1>6 DEF Spelling
  <2>. HIDE DEF Spell, T, C, head
  <2>9. {Spell(t) : t \in T \cup {HeadTriple(f)} \cup C} = T \cup {head} \cup C
    BY <2>5, <2>6, <2>7
  <2>. QED  BY <1>1, <2>3, <2>4, <2>8, <2>9
<1>. QED  BY <1>5, <1>6

\* An element read in one triple took it, and is written as it.
LEMMA TripleWritten ==
  ASSUME GraphOK, NEW f, ReadsTriple(f)
  PROVE  /\ Claims(f) \subseteq graph
         /\ AsTriples(ElementOf(f)) = Spelling(f.kind, Claims(f))
<1>1. PICK e, kind : e = ElementOf(f) /\ kind = f.kind
  OBVIOUS
<1>2. PICK t \in graph :
        /\ f.take = {t} /\ f.name = t[1]
        /\ \/ Fits(f.kind, "", "", <<t[2]>>) /\ f.fields = <<t[3]>>
           \/ Fits(f.kind, t[3], "", <<>>) /\ t[3] # "" /\ t[2] = "rdf:type" /\ f.fields = <<>>
           \/ /\ f.kind \in DOMAIN AssertionShapes /\ f.fields = <<t[2], t[3]>>
              /\ Shape[f.kind].type = "" /\ Shape[f.kind].list = ""
  BY DEF ReadsTriple
<1>3. e.kind = kind /\ e.name = t[1]
  BY <1>1, <1>2, ElementFields
<1>4. t = <<t[1], t[2], t[3]>>
  BY DEF GraphOK
<1>5. CellsOf(f) = <<>> /\ Range(CellsOf(f)) = {}
  <2>1. ~HasList(f)
    BY DEF HasList, ReadsTriple
  <2>. QED  BY <2>1 DEF CellsOf, Range
<1>6. CellTriples(CellsOf(f)) = {} /\ AnchorTriples(f) = {}
  BY <1>5 DEF CellTriples, AnchorTriples, AnchorsOf
<1>7. TypeTriples(f) = {} /\ FieldTriples(f) = {} /\ ~HasList(f)
  BY DEF ReadsTriple, TypeTriples, FieldTriples, HasList
<1>8. Claims(f) = {t}
  BY <1>2, <1>6, <1>7, ClaimsAre
<1>9. Spelling(f.kind, Claims(f)) = {t}
  BY <1>8 DEF Spelling, ReadsTriple
<1>10. Fetched(f) = <<>>
  <2>1. DOMAIN Fetched(f) = {} /\ Fetched(f) = [i \in {} |-> 0]
    BY DEF Fetched, ReadsTriple
  <2>. QED  BY <2>1
<1>11. \A S : \A s \in Seq(S) : s \o Fetched(f) = s
  BY <1>10, ConcatEmptySeq
<1>12. CASE Fits(f.kind, "", "", <<t[2]>>) /\ f.fields = <<t[3]>>
  <2>0. PICK p, v : p = t[2] /\ v = t[3]
    OBVIOUS
  <2>1. <<v>> \in Seq({v}) /\ f.fields = <<v>>
    <3>1. <<v>> \in Seq({v})
      OBVIOUS
    <3>2. f.fields = <<v>>
      BY <1>12, <2>0
    <3>. QED  BY <3>1, <3>2
  <2>2. e.nodes = <<v>>
    BY <1>1, <1>11, <2>1, ElementFields
  <2>3. General(kind) /\ Shape[kind].type = "" /\ Shape[kind].list = ""
        /\ Shape[kind].nodes[1][1] = p
    <3>1. PICK preds : preds = <<p>>
      OBVIOUS
    <3>2. Fits(kind, "", "", preds)
      BY <1>1, <1>12, <2>0, <3>1
    <3>3. DOMAIN preds = {1} /\ preds[1] = p
      BY <3>1
    <3>. QED  BY <3>2, <3>3 DEF Fits
  <2>4. FieldsOf(e) = {<<t[1], t[2], t[3]>>}
    <3>1. PICK nodes : nodes = Shape[kind].nodes
      OBVIOUS
    <3>2. FieldsOf(e) = {<<t[1], nodes[i][1], e.nodes[i]>> : i \in DOMAIN e.nodes}
      BY <1>3, <3>1 DEF FieldsOf
    <3>3. DOMAIN e.nodes = {1} /\ e.nodes[1] = v
      BY <2>2
    <3>. QED  BY <2>0, <2>3, <3>1, <3>2, <3>3
  <2>5. Typing(e) = {} /\ Owned(e) = {}
    BY <1>3, <2>3 DEF Typing, Owned
  <2>6. AsTriples(e) = {t}
    BY <1>3, <1>4, <2>3, <2>4, <2>5, GeneralAsTriples
  <2>. QED  BY <1>1, <1>8, <1>9, <2>6
<1>13. CASE Fits(f.kind, t[3], "", <<>>) /\ t[3] # "" /\ t[2] = "rdf:type" /\ f.fields = <<>>
  <2>1. <<>> \in Seq({t[3]})
    OBVIOUS
  <2>2. e.nodes = <<>>
    BY <1>1, <1>11, <1>13, <2>1, ElementFields
  <2>3. General(kind) /\ Shape[kind].type = t[3] /\ Shape[kind].list = ""
    BY <1>1, <1>13 DEF Fits
  <2>4. FieldsOf(e) = {}
    BY <2>2 DEF FieldsOf
  <2>5. Typing(e) = {<<t[1], t[2], t[3]>>} /\ Owned(e) = {}
    BY <1>3, <1>13, <2>3 DEF Typing, Owned
  <2>6. AsTriples(e) = {t}
    BY <1>3, <1>4, <2>3, <2>4, <2>5, GeneralAsTriples
  <2>. QED  BY <1>1, <1>8, <1>9, <2>6
<1>14. CASE /\ f.kind \in DOMAIN AssertionShapes /\ f.fields = <<t[2], t[3]>>
            /\ Shape[f.kind].type = "" /\ Shape[f.kind].list = ""
  <2>0. PICK p, v : p = t[2] /\ v = t[3]
    OBVIOUS
  <2>1. <<p, v>> \in Seq({p, v}) /\ f.fields = <<p, v>>
    <3>1. <<p, v>> \in Seq({p, v})
      OBVIOUS
    <3>2. f.fields = <<p, v>>
      BY <1>14, <2>0
    <3>. QED  BY <3>1, <3>2
  <2>2. e.nodes = <<p, v>>
    BY <1>1, <1>11, <2>1, ElementFields
  <2>3. AsTriples(e) = {<<t[1], t[2], t[3]>>}
    <3>1. e.kind \in DOMAIN AssertionShapes /\ Shape[e.kind].type = "" /\ Shape[e.kind].list = ""
      BY <1>1, <1>3, <1>14
    <3>2. AsTriples(e) = {<<e.name, e.nodes[1], e.nodes[2]>>}
      BY <3>1 DEF AsTriples
    <3>. QED  BY <1>3, <2>0, <2>2, <3>2
  <2>. QED  BY <1>1, <1>4, <1>8, <1>9, <2>3
<1>. QED  BY <1>2, <1>12, <1>13, <1>14

-----------------------------------------------------------------------------
(* Every way of reading                                                    *)

\* A kind that fits, and whose list no graph spells in another way.
FitsAsIs(kind, type, list, preds) ==
  /\ Fits(kind, type, list, preds)
  /\ kind # "DifferentIndividualsNary" /\ list # "owl:distinctMembers"

\* Fields are fetched for these predicates.
Fetches(fetch, preds) ==
  \E n \in Nat : /\ DOMAIN fetch = 1 .. n /\ DOMAIN preds = 1 .. n
                 /\ \A i \in 1 .. n : fetch[i][1] = preds[i]

\* None, one, two or three fields are fetched.
LEMMA FetchesNone == Fetches(<<>>, <<>>)
<1>1. PICK none : none = <<>>
  OBVIOUS
<1>2. DOMAIN none = 1 .. 0 /\ \A i \in 1 .. 0 : none[i][1] = none[i]
  BY <1>1
<1>3. Fetches(none, none)
  BY <1>2 DEF Fetches
<1>. QED  BY <1>1, <1>3

LEMMA FetchesOne == ASSUME NEW p, NEW test PROVE Fetches(<<<<p, test>>>>, <<p>>)
<1>1. PICK fetch : fetch = <<<<p, test>>>>
  OBVIOUS
<1>2. PICK preds : preds = <<p>>
  OBVIOUS
<1>3. DOMAIN fetch = 1 .. 1 /\ DOMAIN preds = 1 .. 1 /\ fetch[1][1] = p /\ preds[1] = p
  BY <1>1, <1>2
<1>4. Fetches(fetch, preds)
  BY <1>3 DEF Fetches
<1>. QED  BY <1>1, <1>2, <1>4

LEMMA FetchesTwo ==
  ASSUME NEW p, NEW q, NEW t1, NEW t2
  PROVE  Fetches(<<<<p, t1>>, <<q, t2>>>>, <<p, q>>)
<1>1. PICK fetch : fetch = <<<<p, t1>>, <<q, t2>>>>
  OBVIOUS
<1>2. PICK preds : preds = <<p, q>>
  OBVIOUS
<1>3. DOMAIN fetch = 1 .. 2 /\ DOMAIN preds = 1 .. 2
  BY <1>1, <1>2
<1>4. fetch[1][1] = p /\ fetch[2][1] = q /\ preds[1] = p /\ preds[2] = q
  BY <1>1, <1>2
<1>5. Fetches(fetch, preds)
  BY <1>3, <1>4 DEF Fetches
<1>. QED  BY <1>1, <1>2, <1>5

LEMMA FetchesThree ==
  ASSUME NEW p, NEW q, NEW r, NEW t1, NEW t2, NEW t3
  PROVE  Fetches(<<<<p, t1>>, <<q, t2>>, <<r, t3>>>>, <<p, q, r>>)
<1>1. PICK fetch : fetch = <<<<p, t1>>, <<q, t2>>, <<r, t3>>>>
  OBVIOUS
<1>2. PICK preds : preds = <<p, q, r>>
  OBVIOUS
<1>3. DOMAIN fetch = 1 .. 3 /\ DOMAIN preds = 1 .. 3
  BY <1>1, <1>2
<1>4. /\ fetch[1][1] = p /\ fetch[2][1] = q /\ fetch[3][1] = r
      /\ preds[1] = p /\ preds[2] = q /\ preds[3] = r
  BY <1>1, <1>2
<1>5. Fetches(fetch, preds)
  BY <1>3, <1>4 DEF Fetches
<1>. QED  BY <1>1, <1>2, <1>5

\* What makes a reading one of an element named by its subject.
LEMMA SubjectReading ==
  ASSUME NEW f, NEW preds, FitsAsIs(f.kind, f.type, f.list, preds), Fetches(f.fetch, preds),
         f.take = {}, f.fields = <<>>, f.type # "" => Has(f.name, "rdf:type", f.type)
  PROVE  ReadsSubject(f)
<1>1. Spelled(f.list) = f.list
  BY DEF FitsAsIs, Spelled
<1>2. PICK n \in Nat : /\ DOMAIN f.fetch = 1 .. n /\ DOMAIN preds = 1 .. n
                       /\ \A i \in 1 .. n : f.fetch[i][1] = preds[i]
  BY DEF Fetches
<1>3. Fits(f.kind, f.type, f.list, PredsOf(f))
  <2>1. DOMAIN PredsOf(f) = 1 .. n /\ \A i \in 1 .. n : PredsOf(f)[i] = preds[i]
    BY <1>2 DEF PredsOf
  <2>. QED  BY <1>2, <2>1 DEF FitsAsIs, Fits
<1>. QED  BY <1>1, <1>2, <1>3 DEF FitsAsIs, ReadsSubject

\* Each way of reading (ReadBoolean, ReadOneOf and so on) reads such an element.
LEMMA BooleanReading ==
  ASSUME NEW row, NEW s, FitsAsIs(row.kind, row.type, row.at, <<>>),
         ~ReadBoolean(row, s).skip
  PROVE  ReadsSubject(ReadBoolean(row, s))
<1>1. PICK f : f = ReadBoolean(row, s)
  OBVIOUS
<1>2. PICK fetch : fetch = <<>>
  OBVIOUS
<1>3. PICK preds : preds = <<>>
  OBVIOUS
<1>4. f.kind = row.kind /\ f.type = row.type /\ f.list = row.at /\ f.name = s
      /\ f.take = {} /\ f.fields = <<>> /\ f.fetch = fetch /\ f.skip = Untyped(s, row.type)
  BY <1>1, <1>2 DEF ReadBoolean, AtSubject
<1>5. FitsAsIs(f.kind, f.type, f.list, preds)
  BY <1>3, <1>4
<1>6. Fetches(f.fetch, preds)
  <2>1. Fetches(fetch, preds)
    BY <1>2, <1>3, FetchesNone
  <2>. QED  BY <1>4, <2>1
<1>7. f.type # "" => Has(f.name, "rdf:type", f.type)
  BY <1>1, <1>4 DEF Untyped
<1>. QED  BY <1>1, <1>4, <1>5, <1>6, <1>7, SubjectReading

LEMMA OneOfReading ==
  ASSUME NEW row, NEW s, FitsAsIs(row.kind, row.type, row.at, <<>>),
         ~ReadOneOf(row, s).skip
  PROVE  ReadsSubject(ReadOneOf(row, s))
<1>1. PICK f : f = ReadOneOf(row, s)
  OBVIOUS
<1>2. PICK fetch : fetch = <<>>
  OBVIOUS
<1>3. PICK preds : preds = <<>>
  OBVIOUS
<1>4. f.kind = row.kind /\ f.type = row.type /\ f.list = row.at /\ f.name = s
      /\ f.take = {} /\ f.fields = <<>> /\ f.fetch = fetch /\ f.skip = Untyped(s, row.type)
  BY <1>1, <1>2 DEF ReadOneOf, AtSubject
<1>5. FitsAsIs(f.kind, f.type, f.list, preds)
  BY <1>3, <1>4
<1>6. Fetches(f.fetch, preds)
  <2>1. Fetches(fetch, preds)
    BY <1>2, <1>3, FetchesNone
  <2>. QED  BY <1>4, <2>1
<1>7. f.type # "" => Has(f.name, "rdf:type", f.type)
  BY <1>1, <1>4 DEF Untyped
<1>. QED  BY <1>1, <1>4, <1>5, <1>6, <1>7, SubjectReading

LEMMA OwnedReading ==
  ASSUME NEW row, NEW s, FitsAsIs(row.kind, "", row.at, <<>>),
         ~ReadOwned(row, s).skip
  PROVE  ReadsSubject(ReadOwned(row, s))
<1>1. PICK f : f = ReadOwned(row, s)
  OBVIOUS
<1>2. PICK fetch : fetch = <<>>
  OBVIOUS
<1>3. PICK preds : preds = <<>>
  OBVIOUS
<1>4. f.kind = row.kind /\ f.type = "" /\ f.list = row.at /\ f.name = s
      /\ f.take = {} /\ f.fields = <<>> /\ f.fetch = fetch /\ f.skip = FALSE
  BY <1>1, <1>2 DEF ReadOwned, AtSubject
<1>5. FitsAsIs(f.kind, f.type, f.list, preds)
  BY <1>3, <1>4
<1>6. Fetches(f.fetch, preds)
  <2>1. Fetches(fetch, preds)
    BY <1>2, <1>3, FetchesNone
  <2>. QED  BY <1>4, <2>1
<1>7. f.type # "" => Has(f.name, "rdf:type", f.type)
  BY <1>1, <1>4 DEF Untyped
<1>. QED  BY <1>1, <1>4, <1>5, <1>6, <1>7, SubjectReading

LEMMA ComplementReading ==
  ASSUME NEW row, NEW s, FitsAsIs(row.kind, row.type, "", <<"owl:complementOf">>),
         ~ReadComplement(row, s).skip
  PROVE  ReadsSubject(ReadComplement(row, s))
<1>1. PICK f : f = ReadComplement(row, s)
  OBVIOUS
<1>2. PICK fetch : fetch = <<<<"owl:complementOf", "resource">>>>
  OBVIOUS
<1>3. PICK preds : preds = <<"owl:complementOf">>
  OBVIOUS
<1>4. f.kind = row.kind /\ f.type = row.type /\ f.list = "" /\ f.name = s
      /\ f.take = {} /\ f.fields = <<>> /\ f.fetch = fetch /\ f.skip = Untyped(s, row.type)
  BY <1>1, <1>2 DEF ReadComplement, AtSubject
<1>5. FitsAsIs(f.kind, f.type, f.list, preds)
  BY <1>3, <1>4
<1>6. Fetches(f.fetch, preds)
  <2>1. Fetches(fetch, preds)
    BY <1>2, <1>3, FetchesOne
  <2>. QED  BY <1>4, <2>1
<1>7. f.type # "" => Has(f.name, "rdf:type", f.type)
  BY <1>1, <1>4 DEF Untyped
<1>. QED  BY <1>1, <1>4, <1>5, <1>6, <1>7, SubjectReading

LEMMA DatatypeRestrictionReading ==
  ASSUME NEW row, NEW s, FitsAsIs(row.kind, row.type, row.at, <<"owl:onDatatype">>),
         ~ReadDatatypeRestriction(row, s).skip
  PROVE  ReadsSubject(ReadDatatypeRestriction(row, s))
<1>1. PICK f : f = ReadDatatypeRestriction(row, s)
  OBVIOUS
<1>2. PICK fetch : fetch = <<<<"owl:onDatatype", "iri">>>>
  OBVIOUS
<1>3. PICK preds : preds = <<"owl:onDatatype">>
  OBVIOUS
<1>4. f.kind = row.kind /\ f.type = row.type /\ f.list = row.at /\ f.name = s
      /\ f.take = {} /\ f.fields = <<>> /\ f.fetch = fetch /\ f.skip = Untyped(s, row.type)
  BY <1>1, <1>2 DEF ReadDatatypeRestriction, AtSubject
<1>5. FitsAsIs(f.kind, f.type, f.list, preds)
  BY <1>3, <1>4
<1>6. Fetches(f.fetch, preds)
  <2>1. Fetches(fetch, preds)
    BY <1>2, <1>3, FetchesOne
  <2>. QED  BY <1>4, <2>1
<1>7. f.type # "" => Has(f.name, "rdf:type", f.type)
  BY <1>1, <1>4 DEF Untyped
<1>. QED  BY <1>1, <1>4, <1>5, <1>6, <1>7, SubjectReading

LEMMA HasSelfReading ==
  ASSUME NEW row, NEW s, FitsAsIs(row.kind, row.type, "", <<"owl:onProperty", "owl:hasSelf">>),
         ~ReadHasSelf(row, s).skip
  PROVE  ReadsSubject(ReadHasSelf(row, s))
<1>1. PICK f : f = ReadHasSelf(row, s)
  OBVIOUS
<1>2. PICK fetch : fetch = <<<<"owl:onProperty", "iri">>, <<"owl:hasSelf", "true">>>>
  OBVIOUS
<1>3. PICK preds : preds = <<"owl:onProperty", "owl:hasSelf">>
  OBVIOUS
<1>4. f.kind = row.kind /\ f.type = row.type /\ f.list = "" /\ f.name = s
      /\ f.take = {} /\ f.fields = <<>> /\ f.fetch = fetch /\ f.skip = Untyped(s, row.type)
  BY <1>1, <1>2 DEF ReadHasSelf, AtSubject, OnProperty
<1>5. FitsAsIs(f.kind, f.type, f.list, preds)
  BY <1>3, <1>4
<1>6. Fetches(f.fetch, preds)
  <2>1. Fetches(fetch, preds)
    BY <1>2, <1>3, FetchesTwo
  <2>. QED  BY <1>4, <2>1
<1>7. f.type # "" => Has(f.name, "rdf:type", f.type)
  BY <1>1, <1>4 DEF Untyped
<1>. QED  BY <1>1, <1>4, <1>5, <1>6, <1>7, SubjectReading

LEMMA HasValueReading ==
  ASSUME NEW row, NEW s, FitsAsIs(row.kind, row.type, "", <<"owl:onProperty", "owl:hasValue">>),
         FitsAsIs(row.data, row.type, "", <<"owl:onProperty", "owl:hasValue">>),
         ~ReadHasValue(row, s).skip
  PROVE  ReadsSubject(ReadHasValue(row, s))
<1>1. PICK f : f = ReadHasValue(row, s)
  OBVIOUS
<1>2. PICK fetch : fetch = <<<<"owl:onProperty", "iri">>, <<"owl:hasValue", "node">>>>
  OBVIOUS
<1>3. PICK preds : preds = <<"owl:onProperty", "owl:hasValue">>
  OBVIOUS
<1>4. f.kind \in {row.kind, row.data} /\ f.type = row.type /\ f.list = "" /\ f.name = s
      /\ f.take = {} /\ f.fields = <<>> /\ f.fetch = fetch /\ f.skip = (Untyped(s, row.type))
  BY <1>1, <1>2 DEF ReadHasValue, AtSubject, OnProperty
<1>5. FitsAsIs(f.kind, f.type, f.list, preds)
  BY <1>3, <1>4
<1>6. Fetches(f.fetch, preds)
  <2>1. Fetches(fetch, preds)
    BY <1>2, <1>3, FetchesTwo
  <2>. QED  BY <1>4, <2>1
<1>7. Has(f.name, "rdf:type", f.type)
  BY <1>1, <1>4 DEF Untyped
<1>. QED  BY <1>1, <1>4, <1>5, <1>6, <1>7, SubjectReading

LEMMA UnqualifiedReading ==
  ASSUME NEW row, NEW s, FitsAsIs(row.kind, row.type, "", <<"owl:onProperty", row.at>>),
         FitsAsIs(row.data, row.type, "", <<"owl:onProperty", row.at>>),
         ~ReadUnqualified(row, s).skip
  PROVE  ReadsSubject(ReadUnqualified(row, s))
<1>1. PICK f : f = ReadUnqualified(row, s)
  OBVIOUS
<1>2. PICK fetch : fetch = <<<<"owl:onProperty", "iri">>, <<row.at, "node">>>>
  OBVIOUS
<1>3. PICK preds : preds = <<"owl:onProperty", row.at>>
  OBVIOUS
<1>4. f.kind \in {row.kind, row.data} /\ f.type = row.type /\ f.list = "" /\ f.name = s
      /\ f.take = {} /\ f.fields = <<>> /\ f.fetch = fetch /\ f.skip = (Untyped(s, row.type)
                                                  \/ <<s, "rdf:type", row.type>> \in consumed)
  BY <1>1, <1>2 DEF ReadUnqualified, AtSubject, OnProperty
<1>5. FitsAsIs(f.kind, f.type, f.list, preds)
  BY <1>3, <1>4
<1>6. Fetches(f.fetch, preds)
  <2>1. Fetches(fetch, preds)
    BY <1>2, <1>3, FetchesTwo
  <2>. QED  BY <1>4, <2>1
<1>7. Has(f.name, "rdf:type", f.type)
  BY <1>1, <1>4 DEF Untyped
<1>. QED  BY <1>1, <1>4, <1>5, <1>6, <1>7, SubjectReading

LEMMA QualifiedReading ==
  ASSUME NEW row, NEW s,
         FitsAsIs(row.kind, row.type, "", <<"owl:onProperty", row.at, "owl:onClass">>),
         FitsAsIs(row.data, row.type, "", <<"owl:onProperty", row.at, "owl:onDataRange">>),
         ~ReadQualified(row, s).skip
  PROVE  ReadsSubject(ReadQualified(row, s))
<1>1. PICK f : f = ReadQualified(row, s)
  OBVIOUS
<1>2. PICK range : range = IF HasAny(s, "owl:onClass") THEN "owl:onClass" ELSE "owl:onDataRange"
  OBVIOUS
<1>3. PICK fetch : fetch = <<<<"owl:onProperty", "iri">>, <<row.at, "node">>, <<range,
                                                                                "resource">>>>
  OBVIOUS
<1>4. PICK preds : preds = <<"owl:onProperty", row.at, range>>
  OBVIOUS
<1>5. PICK kind : kind = IF HasAny(s, "owl:onClass") THEN row.kind ELSE row.data
  OBVIOUS
<1>6. PICK bad : bad = (HasAny(s, "owl:onClass") = HasAny(s, "owl:onDataRange"))
  OBVIOUS
<1>7. PICK skip : skip = Untyped(s, row.type)
  OBVIOUS
<1>8. f = [AtSubject(kind, s, row.type, fetch) EXCEPT !.skip = skip, !.bad = bad]
  BY <1>1, <1>2, <1>3, <1>5, <1>6, <1>7 DEF ReadQualified, OnProperty
<1>9. f.kind = kind /\ f.type = row.type /\ f.list = "" /\ f.name = s
      /\ f.take = {} /\ f.fields = <<>> /\ f.fetch = fetch /\ f.skip = skip
  BY <1>8 DEF AtSubject
<1>10. FitsAsIs(f.kind, f.type, f.list, preds)
  BY <1>2, <1>4, <1>5, <1>9
<1>11. Fetches(f.fetch, preds)
  <2>1. Fetches(fetch, preds)
    BY <1>3, <1>4, FetchesThree
  <2>. QED  BY <1>9, <2>1
<1>12. Has(f.name, "rdf:type", f.type)
  BY <1>1, <1>7, <1>9 DEF Untyped
<1>. QED  BY <1>1, <1>9, <1>10, <1>11, <1>12, SubjectReading

LEMMA ValuesReading ==
  ASSUME NEW row, NEW s,
         FitsAsIs(row.kind, row.type, "", <<"owl:onProperty", row.at>>),
         FitsAsIs(row.data, row.type, "", <<"owl:onProperty", row.at>>),
         FitsAsIs(row.nary, row.type, "owl:onProperties", <<row.at>>),
         ~ReadValues(row, s).skip
  PROVE  ReadsSubject(ReadValues(row, s))
<1>1. PICK f : f = ReadValues(row, s)
  OBVIOUS
<1>2. CASE HasAny(s, "owl:onProperties")
  <2>1. PICK fetch : fetch = <<<<row.at, "resource">>>>
    OBVIOUS
  <2>2. PICK preds : preds = <<row.at>>
    OBVIOUS
  <2>3. f.kind = row.nary /\ f.type = row.type /\ f.list = "owl:onProperties" /\ f.name = s
        /\ f.take = {} /\ f.fields = <<>> /\ f.fetch = fetch /\ f.skip = Untyped(s, row.type)
    BY <1>1, <1>2, <2>1 DEF ReadValues, AtSubject
  <2>4. FitsAsIs(f.kind, f.type, f.list, preds)
    BY <2>2, <2>3
  <2>5. Fetches(f.fetch, preds)
    <3>1. Fetches(fetch, preds)
      BY <2>1, <2>2, FetchesOne
    <3>. QED  BY <2>3, <3>1
  <2>6. Has(f.name, "rdf:type", f.type)
    BY <1>1, <2>3 DEF Untyped
  <2>. QED  BY <1>1, <2>3, <2>4, <2>5, <2>6, SubjectReading
<1>3. CASE ~HasAny(s, "owl:onProperties")
  <2>1. PICK fetch : fetch = <<<<"owl:onProperty", "iri">>, <<row.at, "resource">>>>
    OBVIOUS
  <2>2. PICK preds : preds = <<"owl:onProperty", row.at>>
    OBVIOUS
  <2>3. f.kind \in {row.kind, row.data} /\ f.type = row.type /\ f.list = "" /\ f.name = s
        /\ f.take = {} /\ f.fields = <<>> /\ f.fetch = fetch
        /\ (Untyped(s, row.type) => f.skip)
    BY <1>1, <1>3, <2>1 DEF ReadValues, AtSubject, OnProperty
  <2>4. FitsAsIs(f.kind, f.type, f.list, preds)
    BY <2>2, <2>3
  <2>5. Fetches(f.fetch, preds)
    <3>1. Fetches(fetch, preds)
      BY <2>1, <2>2, FetchesTwo
    <3>. QED  BY <2>3, <3>1
  <2>6. Has(f.name, "rdf:type", f.type)
    BY <1>1, <2>3 DEF Untyped
  <2>. QED  BY <1>1, <2>3, <2>4, <2>5, <2>6, SubjectReading
<1>. QED  BY <1>2, <1>3

LEMMA ClassesNaryReading ==
  ASSUME NEW row, NEW t, Has(t[1], "rdf:type", row.at),
         FitsAsIs(row.kind, row.at, "owl:members", <<>>)
  PROVE  ReadsSubject(ReadClassesNary(row, t))
<1>1. PICK f : f = ReadClassesNary(row, t)
  OBVIOUS
<1>2. PICK none : none = <<>>
  OBVIOUS
<1>3. f.kind = row.kind /\ f.type = row.at /\ f.list = "owl:members" /\ f.name = t[1]
      /\ f.take = {} /\ f.fields = <<>> /\ f.fetch = none
  BY <1>1, <1>2 DEF ReadClassesNary, AtSubject
<1>4. FitsAsIs(f.kind, f.type, f.list, none)
  BY <1>2, <1>3
<1>5. Fetches(f.fetch, none)
  BY <1>2, <1>3, FetchesNone
<1>. QED  BY <1>1, <1>3, <1>4, <1>5, SubjectReading

LEMMA PropertiesNaryReading ==
  ASSUME NEW row, NEW t, Has(t[1], "rdf:type", row.at),
         FitsAsIs(row.kind, row.at, "owl:members", <<>>),
         FitsAsIs(row.data, row.at, "owl:members", <<>>)
  PROVE  ReadsSubject(ReadPropertiesNary(row, t))
<1>1. PICK f : f = ReadPropertiesNary(row, t)
  OBVIOUS
<1>2. PICK none : none = <<>>
  OBVIOUS
<1>3. f.kind \in {row.kind, row.data} /\ f.type = row.at /\ f.list = "owl:members"
      /\ f.name = t[1] /\ f.take = {} /\ f.fields = <<>> /\ f.fetch = none
  BY <1>1, <1>2 DEF ReadPropertiesNary, AtSubject
<1>4. FitsAsIs(f.kind, f.type, f.list, none)
  BY <1>2, <1>3
<1>5. Fetches(f.fetch, none)
  BY <1>2, <1>3, FetchesNone
<1>. QED  BY <1>1, <1>3, <1>4, <1>5, SubjectReading

\* The one element whose list the graph may spell as OWL 1 did.
LEMMA DifferentNaryReading ==
  ASSUME NEW row, NEW t, Has(t[1], "rdf:type", row.at),
         row.kind = "DifferentIndividualsNary", Fits(row.kind, row.at, "owl:members", <<>>)
  PROVE  ReadsSubject(ReadDifferentNary(row, t))
<1>1. PICK f : f = ReadDifferentNary(row, t)
  OBVIOUS
<1>2. PICK none : none = <<>>
  OBVIOUS
<1>3. f.kind = row.kind /\ f.type = row.at /\ f.list \in {"owl:members", "owl:distinctMembers"}
      /\ f.name = t[1] /\ f.take = {} /\ f.fields = <<>> /\ f.fetch = none
      /\ f.members = "resource"
  BY <1>1, <1>2 DEF ReadDifferentNary, AtSubject
<1>4. Spelled(f.list) = "owl:members"
  BY <1>3 DEF Spelled
<1>5. DOMAIN f.fetch = {} /\ DOMAIN f.fetch = 1 .. 0 /\ DOMAIN PredsOf(f) = {}
  BY <1>2, <1>3 DEF PredsOf
<1>6. Fits(f.kind, f.type, Spelled(f.list), PredsOf(f))
  <2>1. DOMAIN none = {}
    BY <1>2
  <2>. QED  BY <1>2, <1>3, <1>4, <1>5, <2>1 DEF Fits
<1>7. f.list = "owl:distinctMembers" => ~HasAny(f.name, "owl:members")
  BY <1>1, <1>3 DEF ReadDifferentNary, AtSubject
<1>. QED  BY <1>1, <1>3, <1>5, <1>6, <1>7 DEF ReadsSubject

\* What a negative assertion is about.
Target(kind) ==
  IF kind = "NegativeObjectPropertyAssertion" THEN "owl:targetIndividual" ELSE "owl:targetValue"

\* Negative assertions are read at a subject, too.
LEMMA NegativeReading ==
  ASSUME NEW row, NEW t, Has(t[1], "rdf:type", row.at),
         FitsAsIs(row.kind, row.at, "",
                  <<"owl:assertionProperty", "owl:sourceIndividual", Target(row.kind)>>)
  PROVE  ReadsSubject(ReadNegative(row, t))
<1>1. PICK f, target : f = ReadNegative(row, t) /\ target = Target(row.kind)
  OBVIOUS
<1>2. PICK test : test = IF row.kind = "NegativeObjectPropertyAssertion" THEN "resource" ELSE "literal"
  OBVIOUS
<1>3. PICK fetch : fetch = <<<<"owl:assertionProperty", "node">>, <<"owl:sourceIndividual",
                                                                    "resource">>,
                             <<target, test>>>>
  OBVIOUS
<1>4. PICK preds : preds = <<"owl:assertionProperty", "owl:sourceIndividual", target>>
  OBVIOUS
<1>5. PICK a : a = AtSubject(row.kind, t[1], row.at, fetch)
  OBVIOUS
<1>6. \E skip, bad, late : f = [a EXCEPT !.skip = skip, !.bad = bad, !.late = late]
  BY <1>1, <1>2, <1>3, <1>5 DEF ReadNegative, Target
<1>7. f.kind = row.kind /\ f.type = row.at /\ f.list = "" /\ f.name = t[1]
      /\ f.take = {} /\ f.fields = <<>> /\ f.fetch = fetch
  BY <1>5, <1>6 DEF AtSubject
<1>8. FitsAsIs(f.kind, f.type, f.list, preds)
  BY <1>1, <1>4, <1>7
<1>9. Fetches(f.fetch, preds)
  <2>1. Fetches(fetch, preds)
    BY <1>3, <1>4, FetchesThree
  <2>. QED  BY <1>7, <2>1
<1>. QED  BY <1>1, <1>7, <1>8, <1>9, SubjectReading

\* The empty sequence has no places.
LEMMA NoPlaces == DOMAIN <<>> = {}
OBVIOUS

\* What makes a reading one of an element in one triple.
LEMMA TripleReading ==
  ASSUME NEW f, NEW t \in graph, f.type = "", f.fetch = <<>>, f.list = "", f.members = "node",
         f.take = {t}, f.name = t[1], f.kind \in Kinds, f.kind # "DifferentIndividualsNary",
         \/ Fits(f.kind, "", "", <<t[2]>>) /\ f.fields = <<t[3]>>
         \/ Fits(f.kind, t[3], "", <<>>) /\ t[3] # "" /\ t[2] = "rdf:type" /\ f.fields = <<>>
         \/ /\ f.kind \in DOMAIN AssertionShapes /\ f.fields = <<t[2], t[3]>>
            /\ Shape[f.kind].type = "" /\ Shape[f.kind].list = ""
  PROVE  ReadsTriple(f)
<1>1. DOMAIN f.fetch = {}
  BY NoPlaces
<1>. QED  BY <1>1 DEF ReadsTriple

\* Each way of reading a triple reads such an element.
LEMMA InverseReading ==
  ASSUME NEW row, NEW t \in graph, t[2] = row.at, FitsAsIs(row.kind, "", "", <<row.at>>)
  PROVE  ReadsTriple(ReadInverse(row, t))
<1>1. PICK f, none : f = ReadInverse(row, t) /\ none = <<>>
  OBVIOUS
<1>2. PICK fields : fields = <<t[3]>>
  OBVIOUS
<1>3. f.kind = row.kind /\ f.type = "" /\ f.list = "" /\ f.name = t[1] /\ f.members = "node"
      /\ f.take = {t} /\ f.fields = fields /\ f.fetch = none
  BY <1>1, <1>2 DEF ReadInverse, InTriple, AtSubject
<1>4. FitsAsIs(f.kind, "", "", <<row.at>>)
  BY <1>3
<1>5. f.kind \in Kinds /\ f.kind # "DifferentIndividualsNary"
  BY <1>4 DEF FitsAsIs, Fits, General
<1>6. Fits(f.kind, "", "", <<t[2]>>) /\ f.fields = <<t[3]>>
  BY <1>2, <1>3, <1>4 DEF FitsAsIs
<1>. QED  BY <1>1, <1>3, <1>5, <1>6, TripleReading

LEMMA PairReading ==
  ASSUME NEW row, NEW t \in graph, t[2] = row.at, FitsAsIs(row.kind, "", "", <<row.at>>)
  PROVE  ReadsTriple(ReadPair(row, t))
<1>1. PICK f, none : f = ReadPair(row, t) /\ none = <<>>
  OBVIOUS
<1>2. PICK fields : fields = <<t[3]>>
  OBVIOUS
<1>3. f.kind = row.kind /\ f.type = "" /\ f.list = "" /\ f.name = t[1] /\ f.members = "node"
      /\ f.take = {t} /\ f.fields = fields /\ f.fetch = none
  BY <1>1, <1>2 DEF ReadPair, InTriple, AtSubject
<1>4. FitsAsIs(f.kind, "", "", <<row.at>>)
  BY <1>3
<1>5. f.kind \in Kinds /\ f.kind # "DifferentIndividualsNary"
  BY <1>4 DEF FitsAsIs, Fits, General
<1>6. Fits(f.kind, "", "", <<t[2]>>) /\ f.fields = <<t[3]>>
  BY <1>2, <1>3, <1>4 DEF FitsAsIs
<1>. QED  BY <1>1, <1>3, <1>5, <1>6, TripleReading

LEMMA ClassAssertionReading ==
  ASSUME NEW row, NEW t \in graph, t[2] = row.at, FitsAsIs(row.kind, "", "", <<row.at>>)
  PROVE  ReadsTriple(ReadClassAssertion(row, t))
<1>1. PICK f, none : f = ReadClassAssertion(row, t) /\ none = <<>>
  OBVIOUS
<1>2. PICK fields : fields = <<t[3]>>
  OBVIOUS
<1>3. f.kind = row.kind /\ f.type = "" /\ f.list = "" /\ f.name = t[1] /\ f.members = "node"
      /\ f.take = {t} /\ f.fields = fields /\ f.fetch = none
  BY <1>1, <1>2 DEF ReadClassAssertion, InTriple, AtSubject
<1>4. FitsAsIs(f.kind, "", "", <<row.at>>)
  BY <1>3
<1>5. f.kind \in Kinds /\ f.kind # "DifferentIndividualsNary"
  BY <1>4 DEF FitsAsIs, Fits, General
<1>6. Fits(f.kind, "", "", <<t[2]>>) /\ f.fields = <<t[3]>>
  BY <1>2, <1>3, <1>4 DEF FitsAsIs
<1>. QED  BY <1>1, <1>3, <1>5, <1>6, TripleReading

LEMMA PropertyPairReading ==
  ASSUME NEW row, NEW t \in graph, t[2] = row.at, FitsAsIs(row.kind, "", "", <<row.at>>),
         FitsAsIs(row.data, "", "", <<row.at>>)
  PROVE  ReadsTriple(ReadPropertyPair(row, t))
<1>1. PICK f, none : f = ReadPropertyPair(row, t) /\ none = <<>>
  OBVIOUS
<1>2. PICK fields : fields = <<t[3]>>
  OBVIOUS
<1>3. f.kind \in {row.kind,
                  row.data} /\ f.type = "" /\ f.list = "" /\ f.name = t[1] /\ f.members = "node"
      /\ f.take = {t} /\ f.fields = fields /\ f.fetch = none
  BY <1>1, <1>2 DEF ReadPropertyPair, InTriple, AtSubject
<1>4. FitsAsIs(f.kind, "", "", <<row.at>>)
  BY <1>3
<1>5. f.kind \in Kinds /\ f.kind # "DifferentIndividualsNary"
  BY <1>4 DEF FitsAsIs, Fits, General
<1>6. Fits(f.kind, "", "", <<t[2]>>) /\ f.fields = <<t[3]>>
  BY <1>2, <1>3, <1>4 DEF FitsAsIs
<1>. QED  BY <1>1, <1>3, <1>5, <1>6, TripleReading

LEMMA EquivalentClassReading ==
  ASSUME NEW row, NEW t \in graph, t[2] = row.at, FitsAsIs(row.kind, "", "", <<row.at>>),
         FitsAsIs(row.data, "", "", <<row.at>>)
  PROVE  ReadsTriple(ReadEquivalentClass(row, t))
<1>1. PICK f, none : f = ReadEquivalentClass(row, t) /\ none = <<>>
  OBVIOUS
<1>2. PICK fields : fields = <<t[3]>>
  OBVIOUS
<1>3. f.kind \in {row.kind,
                  row.data} /\ f.type = "" /\ f.list = "" /\ f.name = t[1] /\ f.members = "node"
      /\ f.take = {t} /\ f.fields = fields /\ f.fetch = none
  BY <1>1, <1>2 DEF ReadEquivalentClass, InTriple, AtSubject
<1>4. FitsAsIs(f.kind, "", "", <<row.at>>)
  BY <1>3
<1>5. f.kind \in Kinds /\ f.kind # "DifferentIndividualsNary"
  BY <1>4 DEF FitsAsIs, Fits, General
<1>6. Fits(f.kind, "", "", <<t[2]>>) /\ f.fields = <<t[3]>>
  BY <1>2, <1>3, <1>4 DEF FitsAsIs
<1>. QED  BY <1>1, <1>3, <1>5, <1>6, TripleReading

LEMMA TypeReading ==
  ASSUME NEW row, NEW t \in graph, t[2] = "rdf:type", t[3] = row.at, row.at # "",
         FitsAsIs(row.kind, row.at, "", <<>>)
  PROVE  ReadsTriple(ReadType(row, t))
<1>1. PICK f, none : f = ReadType(row, t) /\ none = <<>>
  OBVIOUS
<1>2. PICK fields : fields = <<>>
  OBVIOUS
<1>3. f.kind = row.kind /\ f.type = "" /\ f.list = "" /\ f.name = t[1] /\ f.members = "node"
      /\ f.take = {t} /\ f.fields = fields /\ f.fetch = none
  BY <1>1, <1>2 DEF ReadType, InTriple, AtSubject
<1>4. FitsAsIs(f.kind, row.at, "", <<>>)
  BY <1>3
<1>5. f.kind \in Kinds /\ f.kind # "DifferentIndividualsNary"
  BY <1>4 DEF FitsAsIs, Fits, General
<1>6. Fits(f.kind, t[3], "", <<>>) /\ t[3] # "" /\ t[2] = "rdf:type" /\ f.fields = <<>>
  BY <1>2, <1>3, <1>4 DEF FitsAsIs
<1>. QED  BY <1>1, <1>3, <1>5, <1>6, TripleReading

LEMMA FunctionalReading ==
  ASSUME NEW row, NEW t \in graph, t[2] = "rdf:type", t[3] = row.at, row.at # "",
         FitsAsIs(row.kind, row.at, "", <<>>),
         FitsAsIs(row.data, row.at, "", <<>>)
  PROVE  ReadsTriple(ReadFunctional(row, t))
<1>1. PICK f, none : f = ReadFunctional(row, t) /\ none = <<>>
  OBVIOUS
<1>2. PICK fields : fields = <<>>
  OBVIOUS
<1>3. f.kind \in {row.kind,
                  row.data} /\ f.type = "" /\ f.list = "" /\ f.name = t[1] /\ f.members = "node"
      /\ f.take = {t} /\ f.fields = fields /\ f.fetch = none
  BY <1>1, <1>2 DEF ReadFunctional, InTriple, AtSubject
<1>4. FitsAsIs(f.kind, row.at, "", <<>>)
  BY <1>3
<1>5. f.kind \in Kinds /\ f.kind # "DifferentIndividualsNary"
  BY <1>4 DEF FitsAsIs, Fits, General
<1>6. Fits(f.kind, t[3], "", <<>>) /\ t[3] # "" /\ t[2] = "rdf:type" /\ f.fields = <<>>
  BY <1>2, <1>3, <1>4 DEF FitsAsIs
<1>. QED  BY <1>1, <1>3, <1>5, <1>6, TripleReading

LEMMA ObjectAssertionReading ==
  ASSUME NEW row, NEW t \in graph, row.kind \in DOMAIN AssertionShapes, row.kind \in Kinds,
         Shape[row.kind].type = "", Shape[row.kind].list = ""
  PROVE  ReadsTriple(ReadObjectAssertion(row, t))
<1>1. PICK f, none : f = ReadObjectAssertion(row, t) /\ none = <<>>
  OBVIOUS
<1>2. PICK fields : fields = <<t[2], t[3]>>
  OBVIOUS
<1>3. f.kind = row.kind /\ f.type = "" /\ f.list = "" /\ f.name = t[1] /\ f.members = "node"
      /\ f.take = {t} /\ f.fields = fields /\ f.fetch = none
  BY <1>1, <1>2 DEF ReadObjectAssertion, InTriple, AtSubject
<1>4. f.kind # "DifferentIndividualsNary"
  BY <1>3 DEF AssertionShapes
<1>5. f.kind \in Kinds
  BY <1>3
<1>6. /\ f.kind \in DOMAIN AssertionShapes /\ f.fields = <<t[2], t[3]>>
      /\ Shape[f.kind].type = "" /\ Shape[f.kind].list = ""
  BY <1>2, <1>3
<1>. QED  BY <1>1, <1>3, <1>4, <1>5, <1>6, TripleReading

LEMMA DataAssertionReading ==
  ASSUME NEW row, NEW t \in graph, row.kind \in DOMAIN AssertionShapes, row.kind \in Kinds,
         Shape[row.kind].type = "", Shape[row.kind].list = ""
  PROVE  ReadsTriple(ReadDataAssertion(row, t))
<1>1. PICK f, none : f = ReadDataAssertion(row, t) /\ none = <<>>
  OBVIOUS
<1>2. PICK fields : fields = <<t[2], t[3]>>
  OBVIOUS
<1>3. f.kind = row.kind /\ f.type = "" /\ f.list = "" /\ f.name = t[1] /\ f.members = "node"
      /\ f.take = {t} /\ f.fields = fields /\ f.fetch = none
  BY <1>1, <1>2 DEF ReadDataAssertion, InTriple, AtSubject
<1>4. f.kind # "DifferentIndividualsNary"
  BY <1>3 DEF AssertionShapes
<1>5. f.kind \in Kinds
  BY <1>3
<1>6. /\ f.kind \in DOMAIN AssertionShapes /\ f.fields = <<t[2], t[3]>>
      /\ Shape[f.kind].type = "" /\ Shape[f.kind].list = ""
  BY <1>2, <1>3
<1>. QED  BY <1>1, <1>3, <1>4, <1>5, <1>6, TripleReading

-----------------------------------------------------------------------------
(* The rows of the passes                                                  *)

\* What a row must say of the kinds it names, for each way of reading.
ListRow(r) ==
  /\ r.read \in {"boolean", "oneOf"} /\ r.by = "subjects"
  /\ FitsAsIs(r.kind, r.type, r.at, <<>>)
OwnedRow(r) == r.read = "owned" /\ r.by = "subjects" /\ FitsAsIs(r.kind, "", r.at, <<>>)
ComplementRow(r) ==
  /\ r.read = "complement" /\ r.by = "subjects"
  /\ FitsAsIs(r.kind, r.type, "", <<"owl:complementOf">>)
DatatypeRestrictionRow(r) ==
  /\ r.read = "datatypeRestriction" /\ r.by = "subjects"
  /\ FitsAsIs(r.kind, r.type, r.at, <<"owl:onDatatype">>)
HasSelfRow(r) ==
  /\ r.read = "hasSelf" /\ r.by = "subjects"
  /\ FitsAsIs(r.kind, r.type, "", <<"owl:onProperty", "owl:hasSelf">>)
HasValueRow(r) ==
  /\ r.read = "hasValue" /\ r.by = "subjects"
  /\ FitsAsIs(r.kind, r.type, "", <<"owl:onProperty", "owl:hasValue">>)
  /\ FitsAsIs(r.data, r.type, "", <<"owl:onProperty", "owl:hasValue">>)
QualifiedRow(r) ==
  /\ r.read = "qualified" /\ r.by = "subjects"
  /\ FitsAsIs(r.kind, r.type, "", <<"owl:onProperty", r.at, "owl:onClass">>)
  /\ FitsAsIs(r.data, r.type, "", <<"owl:onProperty", r.at, "owl:onDataRange">>)
UnqualifiedRow(r) ==
  /\ r.read = "unqualified" /\ r.by = "subjects"
  /\ FitsAsIs(r.kind, r.type, "", <<"owl:onProperty", r.at>>)
  /\ FitsAsIs(r.data, r.type, "", <<"owl:onProperty", r.at>>)
ValuesRow(r) ==
  /\ r.read = "values" /\ r.by = "subjects"
  /\ FitsAsIs(r.kind, r.type, "", <<"owl:onProperty", r.at>>)
  /\ FitsAsIs(r.data, r.type, "", <<"owl:onProperty", r.at>>)
  /\ FitsAsIs(r.nary, r.type, "owl:onProperties", <<r.at>>)
PairRow(r) ==
  /\ r.read \in {"inverse", "pair", "classAssertion"} /\ r.by = "triples"
  /\ FitsAsIs(r.kind, "", "", <<r.at>>)
SharedPairRow(r) ==
  /\ r.read \in {"propertyPair", "equivalentClass"} /\ r.by = "triples"
  /\ FitsAsIs(r.kind, "", "", <<r.at>>) /\ FitsAsIs(r.data, "", "", <<r.at>>)
ClassesNaryRow(r) ==
  /\ r.read = "classesNary" /\ r.by = "types" /\ FitsAsIs(r.kind, r.at, "owl:members", <<>>)
PropertiesNaryRow(r) ==
  /\ r.read = "propertiesNary" /\ r.by = "types"
  /\ FitsAsIs(r.kind, r.at, "owl:members", <<>>) /\ FitsAsIs(r.data, r.at, "owl:members", <<>>)
DifferentNaryRow(r) ==
  /\ r.read = "differentNary" /\ r.by = "types"
  /\ r.kind = "DifferentIndividualsNary" /\ Fits(r.kind, r.at, "owl:members", <<>>)
NegativeRow(r) ==
  /\ r.read = "negative" /\ r.by = "types"
  /\ FitsAsIs(r.kind, r.at, "",
              <<"owl:assertionProperty", "owl:sourceIndividual", Target(r.kind)>>)
TypeRow(r) ==
  r.read = "type" /\ r.by = "types" /\ r.at # "" /\ FitsAsIs(r.kind, r.at, "", <<>>)
FunctionalRow(r) ==
  /\ r.read = "functional" /\ r.by = "types" /\ r.at # ""
  /\ FitsAsIs(r.kind, r.at, "", <<>>) /\ FitsAsIs(r.data, r.at, "", <<>>)
AssertionRow(r) ==
  /\ r.read \in {"objectAssertion", "dataAssertion"} /\ r.by = "left"
  /\ r.kind \in {"ObjectPropertyAssertion", "DataPropertyAssertion"}

\* What the reading of a row makes fits the kinds that the row names.
RowOK(r) ==
  \/ ListRow(r) \/ OwnedRow(r) \/ ComplementRow(r) \/ DatatypeRestrictionRow(r)
  \/ HasSelfRow(r) \/ HasValueRow(r) \/ QualifiedRow(r) \/ UnqualifiedRow(r) \/ ValuesRow(r)
  \/ PairRow(r) \/ SharedPairRow(r) \/ ClassesNaryRow(r) \/ PropertiesNaryRow(r)
  \/ DifferentNaryRow(r) \/ NegativeRow(r) \/ TypeRow(r) \/ FunctionalRow(r) \/ AssertionRow(r)

\* The fields of a row, however it is put together.
RowFields(r, read, by, at, kind, data, type, nary) ==
  /\ r.read = read /\ r.by = by /\ r.at = at /\ r.kind = kind /\ r.data = data
  /\ r.type = type /\ r.nary = nary

\* The ways in which the passes put a row together.
LEMMA RowIs ==
  ASSUME NEW read, NEW by, NEW at, NEW kind
  PROVE  RowFields(Row(read, by, at, kind), read, by, at, kind, kind, "", "")
BY DEF Row, RowFields

LEMMA SharedRowIs ==
  ASSUME NEW read, NEW by, NEW at, NEW kind, NEW data
  PROVE  RowFields([Row(read, by, at, kind) EXCEPT !.data = data], read, by, at, kind, data, "", "")
BY DEF Row, RowFields

LEMMA PropertyPassIs ==
  ASSUME NEW at, NEW kind, NEW data
  PROVE  RowFields(PropertyPass(at, kind, data), "propertyPair", "triples", at, kind, data, "", "")
BY DEF PropertyPass, Row, RowFields

LEMMA InRangeIs ==
  ASSUME NEW read, NEW at, NEW kind
  PROVE  RowFields(InRange(read, at, kind), read, "subjects", at, kind, kind, "rdfs:Datatype", "")
BY DEF InRange, Row, RowFields

LEMMA InClassIs ==
  ASSUME NEW read, NEW at, NEW kind
  PROVE  RowFields(InClass(read, at, kind), read, "subjects", at, kind, kind, "owl:Class", "")
BY DEF InClass, Row, RowFields

LEMMA InRestrictionIs ==
  ASSUME NEW read, NEW at, NEW kind, NEW data
  PROVE  RowFields(InRestriction(read, at, kind, data),
                   read, "subjects", at, kind, data, "owl:Restriction", "")
BY DEF InRestriction, Row, RowFields

LEMMA NaryRowIs ==
  ASSUME NEW read, NEW at, NEW kind, NEW data, NEW nary
  PROVE  RowFields([InRestriction(read, at, kind, data) EXCEPT !.nary = nary],
                   read, "subjects", at, kind, data, "owl:Restriction", nary)
BY DEF InRestriction, Row, RowFields

\* The rows of each group of passes.
LEMMA ExpressionRows == \A i \in 1 .. 9 : RowOK(ExpressionPasses[i])
<1>1. RowOK(InRange("boolean", "owl:intersectionOf", "DataIntersectionOf"))
  <2>1. PICK r : r = InRange("boolean", "owl:intersectionOf", "DataIntersectionOf")
    OBVIOUS
  <2>2. RowFields(r, "boolean", "subjects", "owl:intersectionOf", "DataIntersectionOf",
                  "DataIntersectionOf", "rdfs:Datatype", "")
    BY <2>1, InRangeIs
  <2>3. ListRow(r)
    BY <2>2, DataRangeFit DEF ListRow, RowFields, FitsAsIs
  <2>. QED  BY <2>1, <2>3 DEF RowOK
<1>2. RowOK(InClass("boolean", "owl:intersectionOf", "ObjectIntersectionOf"))
  <2>1. PICK r : r = InClass("boolean", "owl:intersectionOf", "ObjectIntersectionOf")
    OBVIOUS
  <2>2. RowFields(r, "boolean", "subjects", "owl:intersectionOf", "ObjectIntersectionOf",
                  "ObjectIntersectionOf", "owl:Class", "")
    BY <2>1, InClassIs
  <2>3. ListRow(r)
    BY <2>2, ClassExpressionFit DEF ListRow, RowFields, FitsAsIs
  <2>. QED  BY <2>1, <2>3 DEF RowOK
<1>3. RowOK(InRange("boolean", "owl:unionOf", "DataUnionOf"))
  <2>1. PICK r : r = InRange("boolean", "owl:unionOf", "DataUnionOf")
    OBVIOUS
  <2>2. RowFields(r, "boolean", "subjects", "owl:unionOf", "DataUnionOf", "DataUnionOf",
                  "rdfs:Datatype", "")
    BY <2>1, InRangeIs
  <2>3. ListRow(r)
    BY <2>2, DataRangeFit DEF ListRow, RowFields, FitsAsIs
  <2>. QED  BY <2>1, <2>3 DEF RowOK
<1>4. RowOK(InClass("boolean", "owl:unionOf", "ObjectUnionOf"))
  <2>1. PICK r : r = InClass("boolean", "owl:unionOf", "ObjectUnionOf")
    OBVIOUS
  <2>2. RowFields(r, "boolean", "subjects", "owl:unionOf", "ObjectUnionOf", "ObjectUnionOf",
                  "owl:Class", "")
    BY <2>1, InClassIs
  <2>3. ListRow(r)
    BY <2>2, ClassExpressionFit DEF ListRow, RowFields, FitsAsIs
  <2>. QED  BY <2>1, <2>3 DEF RowOK
<1>5. RowOK(InRange("complement", "owl:complementOf", "DataComplementOf"))
  <2>1. PICK r : r = InRange("complement", "owl:complementOf", "DataComplementOf")
    OBVIOUS
  <2>2. RowFields(r, "complement", "subjects", "owl:complementOf", "DataComplementOf",
                  "DataComplementOf", "rdfs:Datatype", "")
    BY <2>1, InRangeIs
  <2>3. ComplementRow(r)
    BY <2>2, DataRangeOperandFit DEF ComplementRow, RowFields, FitsAsIs
  <2>. QED  BY <2>1, <2>3 DEF RowOK
<1>6. RowOK(InClass("complement", "owl:complementOf", "ObjectComplementOf"))
  <2>1. PICK r : r = InClass("complement", "owl:complementOf", "ObjectComplementOf")
    OBVIOUS
  <2>2. RowFields(r, "complement", "subjects", "owl:complementOf", "ObjectComplementOf",
                  "ObjectComplementOf", "owl:Class", "")
    BY <2>1, InClassIs
  <2>3. ComplementRow(r)
    BY <2>2, ClassExpressionFit DEF ComplementRow, RowFields, FitsAsIs
  <2>. QED  BY <2>1, <2>3 DEF RowOK
<1>7. RowOK(InRange("oneOf", "owl:oneOf", "DataOneOf"))
  <2>1. PICK r : r = InRange("oneOf", "owl:oneOf", "DataOneOf")
    OBVIOUS
  <2>2. RowFields(r, "oneOf", "subjects", "owl:oneOf", "DataOneOf", "DataOneOf", "rdfs:Datatype",
                  "")
    BY <2>1, InRangeIs
  <2>3. ListRow(r)
    BY <2>2, DataRangeOperandFit DEF ListRow, RowFields, FitsAsIs
  <2>. QED  BY <2>1, <2>3 DEF RowOK
<1>8. RowOK(InClass("oneOf", "owl:oneOf", "ObjectOneOf"))
  <2>1. PICK r : r = InClass("oneOf", "owl:oneOf", "ObjectOneOf")
    OBVIOUS
  <2>2. RowFields(r, "oneOf", "subjects", "owl:oneOf", "ObjectOneOf", "ObjectOneOf", "owl:Class",
                  "")
    BY <2>1, InClassIs
  <2>3. ListRow(r)
    BY <2>2, EnumerationFit DEF ListRow, RowFields, FitsAsIs
  <2>. QED  BY <2>1, <2>3 DEF RowOK
<1>9. RowOK(InRange("datatypeRestriction", "owl:withRestrictions", "DatatypeRestriction"))
  <2>1. PICK r : r = InRange("datatypeRestriction", "owl:withRestrictions", "DatatypeRestriction")
    OBVIOUS
  <2>2. RowFields(r, "datatypeRestriction", "subjects", "owl:withRestrictions",
                  "DatatypeRestriction", "DatatypeRestriction", "rdfs:Datatype", "")
    BY <2>1, InRangeIs
  <2>3. DatatypeRestrictionRow(r)
    BY <2>2, DatatypeRestrictionFit DEF DatatypeRestrictionRow, RowFields, FitsAsIs
  <2>. QED  BY <2>1, <2>3 DEF RowOK
<1>. QED  BY <1>1, <1>2, <1>3, <1>4, <1>5, <1>6, <1>7, <1>8, <1>9 DEF ExpressionPasses

LEMMA CardinalityRows == \A i \in 1 .. 8 : RowOK(CardinalityPasses[i])
<1>1. RowOK(InRestriction("hasSelf", "owl:hasSelf", "ObjectHasSelf", ""))
  <2>1. PICK r : r = InRestriction("hasSelf", "owl:hasSelf", "ObjectHasSelf", "")
    OBVIOUS
  <2>2. RowFields(r, "hasSelf", "subjects", "owl:hasSelf", "ObjectHasSelf", "", "owl:Restriction",
                  "")
    BY <2>1, InRestrictionIs
  <2>3. HasSelfRow(r)
    BY <2>2, ObjectFillerFit DEF HasSelfRow, RowFields, FitsAsIs
  <2>. QED  BY <2>1, <2>3 DEF RowOK
<1>2. RowOK(InRestriction("hasValue", "owl:hasValue", "ObjectHasValue", "DataHasValue"))
  <2>1. PICK r : r = InRestriction("hasValue", "owl:hasValue", "ObjectHasValue", "DataHasValue")
    OBVIOUS
  <2>2. RowFields(r, "hasValue", "subjects", "owl:hasValue", "ObjectHasValue", "DataHasValue",
                  "owl:Restriction", "")
    BY <2>1, InRestrictionIs
  <2>3. HasValueRow(r)
    BY <2>2, ObjectFillerFit, DataValueFit DEF HasValueRow, RowFields, FitsAsIs
  <2>. QED  BY <2>1, <2>3 DEF RowOK
<1>3. RowOK(InRestriction("qualified", "owl:minQualifiedCardinality",
                          "ObjectMinCardinalityQualified", "DataMinCardinalityQualified"))
  <2>1. PICK r : r = InRestriction("qualified", "owl:minQualifiedCardinality",
                                   "ObjectMinCardinalityQualified", "DataMinCardinalityQualified")
    OBVIOUS
  <2>2. RowFields(r, "qualified", "subjects", "owl:minQualifiedCardinality",
                  "ObjectMinCardinalityQualified", "DataMinCardinalityQualified",
                  "owl:Restriction", "")
    BY <2>1, InRestrictionIs
  <2>3. QualifiedRow(r)
    BY <2>2, ObjectCardinalityFit, DataCardinalityFit DEF QualifiedRow, RowFields, FitsAsIs
  <2>. QED  BY <2>1, <2>3 DEF RowOK
<1>4. RowOK(InRestriction("qualified", "owl:maxQualifiedCardinality",
                          "ObjectMaxCardinalityQualified", "DataMaxCardinalityQualified"))
  <2>1. PICK r : r = InRestriction("qualified", "owl:maxQualifiedCardinality",
                                   "ObjectMaxCardinalityQualified", "DataMaxCardinalityQualified")
    OBVIOUS
  <2>2. RowFields(r, "qualified", "subjects", "owl:maxQualifiedCardinality",
                  "ObjectMaxCardinalityQualified", "DataMaxCardinalityQualified",
                  "owl:Restriction", "")
    BY <2>1, InRestrictionIs
  <2>3. QualifiedRow(r)
    BY <2>2, ObjectExactCardinalityFit, DataExactCardinalityFit DEF QualifiedRow, RowFields,
       FitsAsIs
  <2>. QED  BY <2>1, <2>3 DEF RowOK
<1>5. RowOK(InRestriction("qualified", "owl:qualifiedCardinality",
                          "ObjectExactCardinalityQualified", "DataExactCardinalityQualified"))
  <2>1. PICK r : r = InRestriction("qualified", "owl:qualifiedCardinality",
                                   "ObjectExactCardinalityQualified",
                                   "DataExactCardinalityQualified")
    OBVIOUS
  <2>2. RowFields(r, "qualified", "subjects", "owl:qualifiedCardinality",
                  "ObjectExactCardinalityQualified", "DataExactCardinalityQualified",
                  "owl:Restriction", "")
    BY <2>1, InRestrictionIs
  <2>3. QualifiedRow(r)
    BY <2>2, ObjectExactCardinalityFit, DataExactCardinalityFit DEF QualifiedRow, RowFields,
       FitsAsIs
  <2>. QED  BY <2>1, <2>3 DEF RowOK
<1>6. RowOK(InRestriction("unqualified", "owl:minCardinality", "ObjectMinCardinality",
                          "DataMinCardinality"))
  <2>1. PICK r : r = InRestriction("unqualified", "owl:minCardinality", "ObjectMinCardinality",
                                   "DataMinCardinality")
    OBVIOUS
  <2>2. RowFields(r, "unqualified", "subjects", "owl:minCardinality", "ObjectMinCardinality",
                  "DataMinCardinality", "owl:Restriction", "")
    BY <2>1, InRestrictionIs
  <2>3. UnqualifiedRow(r)
    BY <2>2, ObjectCardinalityFit, DataCardinalityFit DEF UnqualifiedRow, RowFields, FitsAsIs
  <2>. QED  BY <2>1, <2>3 DEF RowOK
<1>7. RowOK(InRestriction("unqualified", "owl:maxCardinality", "ObjectMaxCardinality",
                          "DataMaxCardinality"))
  <2>1. PICK r : r = InRestriction("unqualified", "owl:maxCardinality", "ObjectMaxCardinality",
                                   "DataMaxCardinality")
    OBVIOUS
  <2>2. RowFields(r, "unqualified", "subjects", "owl:maxCardinality", "ObjectMaxCardinality",
                  "DataMaxCardinality", "owl:Restriction", "")
    BY <2>1, InRestrictionIs
  <2>3. UnqualifiedRow(r)
    BY <2>2, ObjectCardinalityFit, DataCardinalityFit DEF UnqualifiedRow, RowFields, FitsAsIs
  <2>. QED  BY <2>1, <2>3 DEF RowOK
<1>8. RowOK(InRestriction("unqualified", "owl:cardinality", "ObjectExactCardinality",
                          "DataExactCardinality"))
  <2>1. PICK r : r = InRestriction("unqualified", "owl:cardinality", "ObjectExactCardinality",
                                   "DataExactCardinality")
    OBVIOUS
  <2>2. RowFields(r, "unqualified", "subjects", "owl:cardinality", "ObjectExactCardinality",
                  "DataExactCardinality", "owl:Restriction", "")
    BY <2>1, InRestrictionIs
  <2>3. UnqualifiedRow(r)
    BY <2>2, ObjectExactCardinalityFit, DataExactCardinalityFit DEF UnqualifiedRow, RowFields,
       FitsAsIs
  <2>. QED  BY <2>1, <2>3 DEF RowOK
<1>9. RowOK(CardinalityPasses[1])
  BY <1>1 DEF CardinalityPasses
<1>10. RowOK(CardinalityPasses[2])
  BY <1>2 DEF CardinalityPasses
<1>11. RowOK(CardinalityPasses[3])
  BY <1>3 DEF CardinalityPasses
<1>12. RowOK(CardinalityPasses[4])
  BY <1>4 DEF CardinalityPasses
<1>13. RowOK(CardinalityPasses[5])
  BY <1>5 DEF CardinalityPasses
<1>14. RowOK(CardinalityPasses[6])
  BY <1>6 DEF CardinalityPasses
<1>15. RowOK(CardinalityPasses[7])
  BY <1>7 DEF CardinalityPasses
<1>16. RowOK(CardinalityPasses[8])
  BY <1>8 DEF CardinalityPasses
<1>. QED  BY <1>9, <1>10, <1>11, <1>12, <1>13, <1>14, <1>15, <1>16

LEMMA ValuesRows == \A i \in 1 .. 2 : RowOK(ValuesPasses[i])
<1>1. RowOK([InRestriction("values", "owl:someValuesFrom", "ObjectSomeValuesFrom",
                           "DataSomeValuesFrom") EXCEPT !.nary = "DataSomeValuesFromNary"])
  <2>1. PICK r : r = [InRestriction("values", "owl:someValuesFrom", "ObjectSomeValuesFrom",
                                    "DataSomeValuesFrom") EXCEPT !.nary = "DataSomeValuesFromNary"]
    OBVIOUS
  <2>2. RowFields(r, "values", "subjects", "owl:someValuesFrom", "ObjectSomeValuesFrom",
                  "DataSomeValuesFrom", "owl:Restriction", "DataSomeValuesFromNary")
    BY <2>1, NaryRowIs
  <2>3. ValuesRow(r)
    BY <2>2, ObjectFillerFit, DataFillerFit DEF ValuesRow, RowFields, FitsAsIs
  <2>. QED  BY <2>1, <2>3 DEF RowOK
<1>2. RowOK([InRestriction("values", "owl:allValuesFrom", "ObjectAllValuesFrom",
                           "DataAllValuesFrom") EXCEPT !.nary = "DataAllValuesFromNary"])
  <2>1. PICK r : r = [InRestriction("values", "owl:allValuesFrom", "ObjectAllValuesFrom",
                                    "DataAllValuesFrom") EXCEPT !.nary = "DataAllValuesFromNary"]
    OBVIOUS
  <2>2. RowFields(r, "values", "subjects", "owl:allValuesFrom", "ObjectAllValuesFrom",
                  "DataAllValuesFrom", "owl:Restriction", "DataAllValuesFromNary")
    BY <2>1, NaryRowIs
  <2>3. ValuesRow(r)
    BY <2>2, ObjectFillerFit, DataFillerFit, DataValueFit DEF ValuesRow, RowFields, FitsAsIs
  <2>. QED  BY <2>1, <2>3 DEF RowOK
<1>. QED  BY <1>1, <1>2 DEF ValuesPasses

LEMMA ExpressionAxiomRows == \A i \in 1 .. 8 : RowOK(ExpressionAxiomPasses[i])
<1>1. RowOK(Row("inverse", "triples", "owl:inverseOf", "InverseObjectProperties"))
  <2>1. PICK r : r = Row("inverse", "triples", "owl:inverseOf", "InverseObjectProperties")
    OBVIOUS
  <2>2. RowFields(r, "inverse", "triples", "owl:inverseOf", "InverseObjectProperties",
                  "InverseObjectProperties", "", "")
    BY <2>1, RowIs
  <2>3. PairRow(r)
    BY <2>2, PropertyEquationFit DEF PairRow, RowFields, FitsAsIs
  <2>. QED  BY <2>1, <2>3 DEF RowOK
<1>2. RowOK(Row("inverse", "triples", "owl:inverseOf", "ObjectInverseOf"))
  <2>1. PICK r : r = Row("inverse", "triples", "owl:inverseOf", "ObjectInverseOf")
    OBVIOUS
  <2>2. RowFields(r, "inverse", "triples", "owl:inverseOf", "ObjectInverseOf", "ObjectInverseOf",
                  "", "")
    BY <2>1, RowIs
  <2>3. PairRow(r)
    BY <2>2, EnumerationFit DEF PairRow, RowFields, FitsAsIs
  <2>. QED  BY <2>1, <2>3 DEF RowOK
<1>3. RowOK(Row("owned", "subjects", "owl:disjointUnionOf", "DisjointUnion"))
  <2>1. PICK r : r = Row("owned", "subjects", "owl:disjointUnionOf", "DisjointUnion")
    OBVIOUS
  <2>2. RowFields(r, "owned", "subjects", "owl:disjointUnionOf", "DisjointUnion", "DisjointUnion",
                  "", "")
    BY <2>1, RowIs
  <2>3. OwnedRow(r)
    BY <2>2, ClassEquationFit DEF OwnedRow, RowFields, FitsAsIs
  <2>. QED  BY <2>1, <2>3 DEF RowOK
<1>4. RowOK(Row("classesNary", "types", "owl:AllDisjointClasses", "DisjointClassesNary"))
  <2>1. PICK r : r = Row("classesNary", "types", "owl:AllDisjointClasses", "DisjointClassesNary")
    OBVIOUS
  <2>2. RowFields(r, "classesNary", "types", "owl:AllDisjointClasses", "DisjointClassesNary",
                  "DisjointClassesNary", "", "")
    BY <2>1, RowIs
  <2>3. ClassesNaryRow(r)
    BY <2>2, ClassEquationFit DEF ClassesNaryRow, RowFields, FitsAsIs
  <2>. QED  BY <2>1, <2>3 DEF RowOK
<1>5. RowOK([Row("propertiesNary", "types", "owl:AllDisjointProperties",
                 "DisjointObjectPropertiesNary") EXCEPT !.data = "DisjointDataPropertiesNary"])
  <2>1. PICK r : r = [Row("propertiesNary", "types", "owl:AllDisjointProperties",
                          "DisjointObjectPropertiesNary") EXCEPT !.data = "DisjointDataPropertiesNary"]
    OBVIOUS
  <2>2. RowFields(r, "propertiesNary", "types", "owl:AllDisjointProperties",
                  "DisjointObjectPropertiesNary", "DisjointDataPropertiesNary", "", "")
    BY <2>1, SharedRowIs
  <2>3. PropertiesNaryRow(r)
    BY <2>2, DisjointPropertyFit, KeyFit DEF PropertiesNaryRow, RowFields, FitsAsIs
  <2>. QED  BY <2>1, <2>3 DEF RowOK
<1>6. RowOK(Row("differentNary", "types", "owl:AllDifferent", "DifferentIndividualsNary"))
  <2>1. PICK r : r = Row("differentNary", "types", "owl:AllDifferent", "DifferentIndividualsNary")
    OBVIOUS
  <2>2. RowFields(r, "differentNary", "types", "owl:AllDifferent", "DifferentIndividualsNary",
                  "DifferentIndividualsNary", "", "")
    BY <2>1, RowIs
  <2>3. DifferentNaryRow(r)
    BY <2>2, IndividualFit DEF DifferentNaryRow, RowFields
  <2>. QED  BY <2>1, <2>3 DEF RowOK
<1>7. RowOK(Row("pair", "triples", "owl:disjointWith", "DisjointClasses"))
  <2>1. PICK r : r = Row("pair", "triples", "owl:disjointWith", "DisjointClasses")
    OBVIOUS
  <2>2. RowFields(r, "pair", "triples", "owl:disjointWith", "DisjointClasses", "DisjointClasses",
                  "", "")
    BY <2>1, RowIs
  <2>3. PairRow(r)
    BY <2>2, ClassEquationFit DEF PairRow, RowFields, FitsAsIs
  <2>. QED  BY <2>1, <2>3 DEF RowOK
<1>8. RowOK(Row("pair", "triples", "rdfs:subClassOf", "SubClassOf"))
  <2>1. PICK r : r = Row("pair", "triples", "rdfs:subClassOf", "SubClassOf")
    OBVIOUS
  <2>2. RowFields(r, "pair", "triples", "rdfs:subClassOf", "SubClassOf", "SubClassOf", "", "")
    BY <2>1, RowIs
  <2>3. PairRow(r)
    BY <2>2, ClassAxiomFit DEF PairRow, RowFields, FitsAsIs
  <2>. QED  BY <2>1, <2>3 DEF RowOK
<1>. QED  BY <1>1, <1>2, <1>3, <1>4, <1>5, <1>6, <1>7, <1>8 DEF ExpressionAxiomPasses

LEMMA PropertyAxiomRows == \A i \in 1 .. 10 : RowOK(PropertyAxiomPasses[i])
<1>1. RowOK(PropertyPass("rdfs:subPropertyOf", "SubObjectPropertyOf", "SubDataPropertyOf"))
  <2>1. PICK r : r = PropertyPass("rdfs:subPropertyOf", "SubObjectPropertyOf", "SubDataPropertyOf")
    OBVIOUS
  <2>2. RowFields(r, "propertyPair", "triples", "rdfs:subPropertyOf", "SubObjectPropertyOf",
                  "SubDataPropertyOf", "", "")
    BY <2>1, PropertyPassIs
  <2>3. SharedPairRow(r)
    BY <2>2, SubPropertyFit DEF SharedPairRow, RowFields, FitsAsIs
  <2>. QED  BY <2>1, <2>3 DEF RowOK
<1>2. RowOK(Row("owned", "subjects", "owl:propertyChainAxiom", "SubObjectPropertyOfChain"))
  <2>1. PICK r : r = Row("owned", "subjects", "owl:propertyChainAxiom", "SubObjectPropertyOfChain")
    OBVIOUS
  <2>2. RowFields(r, "owned", "subjects", "owl:propertyChainAxiom", "SubObjectPropertyOfChain",
                  "SubObjectPropertyOfChain", "", "")
    BY <2>1, RowIs
  <2>3. OwnedRow(r)
    BY <2>2, SubPropertyFit DEF OwnedRow, RowFields, FitsAsIs
  <2>. QED  BY <2>1, <2>3 DEF RowOK
<1>3. RowOK(PropertyPass("rdfs:domain", "ObjectPropertyDomain", "DataPropertyDomain"))
  <2>1. PICK r : r = PropertyPass("rdfs:domain", "ObjectPropertyDomain", "DataPropertyDomain")
    OBVIOUS
  <2>2. RowFields(r, "propertyPair", "triples", "rdfs:domain", "ObjectPropertyDomain",
                  "DataPropertyDomain", "", "")
    BY <2>1, PropertyPassIs
  <2>3. SharedPairRow(r)
    BY <2>2, PropertyDomainFit DEF SharedPairRow, RowFields, FitsAsIs
  <2>. QED  BY <2>1, <2>3 DEF RowOK
<1>4. RowOK(PropertyPass("rdfs:range", "ObjectPropertyRange", "DataPropertyRange"))
  <2>1. PICK r : r = PropertyPass("rdfs:range", "ObjectPropertyRange", "DataPropertyRange")
    OBVIOUS
  <2>2. RowFields(r, "propertyPair", "triples", "rdfs:range", "ObjectPropertyRange",
                  "DataPropertyRange", "", "")
    BY <2>1, PropertyPassIs
  <2>3. SharedPairRow(r)
    BY <2>2, PropertyDomainFit DEF SharedPairRow, RowFields, FitsAsIs
  <2>. QED  BY <2>1, <2>3 DEF RowOK
<1>5. RowOK(PropertyPass("owl:propertyDisjointWith", "DisjointObjectProperties",
                         "DisjointDataProperties"))
  <2>1. PICK r : r = PropertyPass("owl:propertyDisjointWith", "DisjointObjectProperties",
                                  "DisjointDataProperties")
    OBVIOUS
  <2>2. RowFields(r, "propertyPair", "triples", "owl:propertyDisjointWith",
                  "DisjointObjectProperties", "DisjointDataProperties", "", "")
    BY <2>1, PropertyPassIs
  <2>3. SharedPairRow(r)
    BY <2>2, DisjointPropertyFit DEF SharedPairRow, RowFields, FitsAsIs
  <2>. QED  BY <2>1, <2>3 DEF RowOK
<1>6. RowOK([Row("equivalentClass", "triples", "owl:equivalentClass",
                 "EquivalentClasses") EXCEPT !.data = "DatatypeDefinition"])
  <2>1. PICK r : r = [Row("equivalentClass", "triples", "owl:equivalentClass",
                          "EquivalentClasses") EXCEPT !.data = "DatatypeDefinition"]
    OBVIOUS
  <2>2. RowFields(r, "equivalentClass", "triples", "owl:equivalentClass", "EquivalentClasses",
                  "DatatypeDefinition", "", "")
    BY <2>1, SharedRowIs
  <2>3. SharedPairRow(r)
    BY <2>2, ClassEquationFit, PropertyEquationFit DEF SharedPairRow, RowFields, FitsAsIs
  <2>. QED  BY <2>1, <2>3 DEF RowOK
<1>7. RowOK(PropertyPass("owl:equivalentProperty", "EquivalentObjectProperties",
                         "EquivalentDataProperties"))
  <2>1. PICK r : r = PropertyPass("owl:equivalentProperty", "EquivalentObjectProperties",
                                  "EquivalentDataProperties")
    OBVIOUS
  <2>2. RowFields(r, "propertyPair", "triples", "owl:equivalentProperty",
                  "EquivalentObjectProperties", "EquivalentDataProperties", "", "")
    BY <2>1, PropertyPassIs
  <2>3. SharedPairRow(r)
    BY <2>2, PropertyEquationFit DEF SharedPairRow, RowFields, FitsAsIs
  <2>. QED  BY <2>1, <2>3 DEF RowOK
<1>8. RowOK(Row("owned", "subjects", "owl:hasKey", "HasKey"))
  <2>1. PICK r : r = Row("owned", "subjects", "owl:hasKey", "HasKey")
    OBVIOUS
  <2>2. RowFields(r, "owned", "subjects", "owl:hasKey", "HasKey", "HasKey", "", "")
    BY <2>1, RowIs
  <2>3. OwnedRow(r)
    BY <2>2, KeyFit DEF OwnedRow, RowFields, FitsAsIs
  <2>. QED  BY <2>1, <2>3 DEF RowOK
<1>9. RowOK(Row("pair", "triples", "owl:differentFrom", "DifferentIndividuals"))
  <2>1. PICK r : r = Row("pair", "triples", "owl:differentFrom", "DifferentIndividuals")
    OBVIOUS
  <2>2. RowFields(r, "pair", "triples", "owl:differentFrom", "DifferentIndividuals",
                  "DifferentIndividuals", "", "")
    BY <2>1, RowIs
  <2>3. PairRow(r)
    BY <2>2, IndividualFit DEF PairRow, RowFields, FitsAsIs
  <2>. QED  BY <2>1, <2>3 DEF RowOK
<1>10. RowOK(Row("pair", "triples", "owl:sameAs", "SameIndividual"))
  <2>1. PICK r : r = Row("pair", "triples", "owl:sameAs", "SameIndividual")
    OBVIOUS
  <2>2. RowFields(r, "pair", "triples", "owl:sameAs", "SameIndividual", "SameIndividual", "", "")
    BY <2>1, RowIs
  <2>3. PairRow(r)
    BY <2>2, IndividualFit DEF PairRow, RowFields, FitsAsIs
  <2>. QED  BY <2>1, <2>3 DEF RowOK
<1>. QED  BY <1>1, <1>2, <1>3, <1>4, <1>5, <1>6, <1>7, <1>8, <1>9, <1>10 DEF PropertyAxiomPasses

LEMMA CharacteristicRows == \A i \in 1 .. 7 : RowOK(CharacteristicPasses[i])
<1>1. RowOK(Row("type", "types", "owl:InverseFunctionalProperty",
                "InverseFunctionalObjectProperty"))
  <2>1. PICK r : r = Row("type", "types", "owl:InverseFunctionalProperty",
                         "InverseFunctionalObjectProperty")
    OBVIOUS
  <2>2. RowFields(r, "type", "types", "owl:InverseFunctionalProperty",
                  "InverseFunctionalObjectProperty", "InverseFunctionalObjectProperty", "", "")
    BY <2>1, RowIs
  <2>3. TypeRow(r)
    BY <2>2, CharacteristicFit DEF TypeRow, RowFields, FitsAsIs
  <2>. QED  BY <2>1, <2>3 DEF RowOK
<1>2. RowOK(Row("type", "types", "owl:ReflexiveProperty", "ReflexiveObjectProperty"))
  <2>1. PICK r : r = Row("type", "types", "owl:ReflexiveProperty", "ReflexiveObjectProperty")
    OBVIOUS
  <2>2. RowFields(r, "type", "types", "owl:ReflexiveProperty", "ReflexiveObjectProperty",
                  "ReflexiveObjectProperty", "", "")
    BY <2>1, RowIs
  <2>3. TypeRow(r)
    BY <2>2, CharacteristicFit DEF TypeRow, RowFields, FitsAsIs
  <2>. QED  BY <2>1, <2>3 DEF RowOK
<1>3. RowOK(Row("type", "types", "owl:IrreflexiveProperty", "IrreflexiveObjectProperty"))
  <2>1. PICK r : r = Row("type", "types", "owl:IrreflexiveProperty", "IrreflexiveObjectProperty")
    OBVIOUS
  <2>2. RowFields(r, "type", "types", "owl:IrreflexiveProperty", "IrreflexiveObjectProperty",
                  "IrreflexiveObjectProperty", "", "")
    BY <2>1, RowIs
  <2>3. TypeRow(r)
    BY <2>2, CharacteristicFit DEF TypeRow, RowFields, FitsAsIs
  <2>. QED  BY <2>1, <2>3 DEF RowOK
<1>4. RowOK(Row("type", "types", "owl:SymmetricProperty", "SymmetricObjectProperty"))
  <2>1. PICK r : r = Row("type", "types", "owl:SymmetricProperty", "SymmetricObjectProperty")
    OBVIOUS
  <2>2. RowFields(r, "type", "types", "owl:SymmetricProperty", "SymmetricObjectProperty",
                  "SymmetricObjectProperty", "", "")
    BY <2>1, RowIs
  <2>3. TypeRow(r)
    BY <2>2, CharacteristicFit DEF TypeRow, RowFields, FitsAsIs
  <2>. QED  BY <2>1, <2>3 DEF RowOK
<1>5. RowOK(Row("type", "types", "owl:AsymmetricProperty", "AsymmetricObjectProperty"))
  <2>1. PICK r : r = Row("type", "types", "owl:AsymmetricProperty", "AsymmetricObjectProperty")
    OBVIOUS
  <2>2. RowFields(r, "type", "types", "owl:AsymmetricProperty", "AsymmetricObjectProperty",
                  "AsymmetricObjectProperty", "", "")
    BY <2>1, RowIs
  <2>3. TypeRow(r)
    BY <2>2, CharacteristicFit DEF TypeRow, RowFields, FitsAsIs
  <2>. QED  BY <2>1, <2>3 DEF RowOK
<1>6. RowOK(Row("type", "types", "owl:TransitiveProperty", "TransitiveObjectProperty"))
  <2>1. PICK r : r = Row("type", "types", "owl:TransitiveProperty", "TransitiveObjectProperty")
    OBVIOUS
  <2>2. RowFields(r, "type", "types", "owl:TransitiveProperty", "TransitiveObjectProperty",
                  "TransitiveObjectProperty", "", "")
    BY <2>1, RowIs
  <2>3. TypeRow(r)
    BY <2>2, CharacteristicFit DEF TypeRow, RowFields, FitsAsIs
  <2>. QED  BY <2>1, <2>3 DEF RowOK
<1>7. RowOK([Row("functional", "types", "owl:FunctionalProperty",
                 "FunctionalObjectProperty") EXCEPT !.data = "FunctionalDataProperty"])
  <2>1. PICK r : r = [Row("functional", "types", "owl:FunctionalProperty",
                          "FunctionalObjectProperty") EXCEPT !.data = "FunctionalDataProperty"]
    OBVIOUS
  <2>2. RowFields(r, "functional", "types", "owl:FunctionalProperty", "FunctionalObjectProperty",
                  "FunctionalDataProperty", "", "")
    BY <2>1, SharedRowIs
  <2>3. FunctionalRow(r)
    BY <2>2, CharacteristicFit DEF FunctionalRow, RowFields, FitsAsIs
  <2>. QED  BY <2>1, <2>3 DEF RowOK
<1>. QED  BY <1>1, <1>2, <1>3, <1>4, <1>5, <1>6, <1>7 DEF CharacteristicPasses

LEMMA DeclarationRows == \A i \in 1 .. 6 : RowOK(DeclarationPasses[i])
<1>1. RowOK(Row("type", "types", "rdfs:Datatype", "DeclarationDatatype"))
  <2>1. PICK r : r = Row("type", "types", "rdfs:Datatype", "DeclarationDatatype")
    OBVIOUS
  <2>2. RowFields(r, "type", "types", "rdfs:Datatype", "DeclarationDatatype",
                  "DeclarationDatatype", "", "")
    BY <2>1, RowIs
  <2>3. TypeRow(r)
    BY <2>2, DataRangeFit DEF TypeRow, RowFields, FitsAsIs
  <2>. QED  BY <2>1, <2>3 DEF RowOK
<1>2. RowOK(Row("type", "types", "owl:Class", "DeclarationClass"))
  <2>1. PICK r : r = Row("type", "types", "owl:Class", "DeclarationClass")
    OBVIOUS
  <2>2. RowFields(r, "type", "types", "owl:Class", "DeclarationClass", "DeclarationClass", "", "")
    BY <2>1, RowIs
  <2>3. TypeRow(r)
    BY <2>2, ClassAxiomFit DEF TypeRow, RowFields, FitsAsIs
  <2>. QED  BY <2>1, <2>3 DEF RowOK
<1>3. RowOK(Row("type", "types", "owl:ObjectProperty", "DeclarationObjectProperty"))
  <2>1. PICK r : r = Row("type", "types", "owl:ObjectProperty", "DeclarationObjectProperty")
    OBVIOUS
  <2>2. RowFields(r, "type", "types", "owl:ObjectProperty", "DeclarationObjectProperty",
                  "DeclarationObjectProperty", "", "")
    BY <2>1, RowIs
  <2>3. TypeRow(r)
    BY <2>2, DeclarationFit DEF TypeRow, RowFields, FitsAsIs
  <2>. QED  BY <2>1, <2>3 DEF RowOK
<1>4. RowOK(Row("type", "types", "owl:DatatypeProperty", "DeclarationDataProperty"))
  <2>1. PICK r : r = Row("type", "types", "owl:DatatypeProperty", "DeclarationDataProperty")
    OBVIOUS
  <2>2. RowFields(r, "type", "types", "owl:DatatypeProperty", "DeclarationDataProperty",
                  "DeclarationDataProperty", "", "")
    BY <2>1, RowIs
  <2>3. TypeRow(r)
    BY <2>2, DeclarationFit DEF TypeRow, RowFields, FitsAsIs
  <2>. QED  BY <2>1, <2>3 DEF RowOK
<1>5. RowOK(Row("type", "types", "owl:AnnotationProperty", "DeclarationAnnotationProperty"))
  <2>1. PICK r : r = Row("type", "types", "owl:AnnotationProperty", "DeclarationAnnotationProperty")
    OBVIOUS
  <2>2. RowFields(r, "type", "types", "owl:AnnotationProperty", "DeclarationAnnotationProperty",
                  "DeclarationAnnotationProperty", "", "")
    BY <2>1, RowIs
  <2>3. TypeRow(r)
    BY <2>2, DeclarationFit DEF TypeRow, RowFields, FitsAsIs
  <2>. QED  BY <2>1, <2>3 DEF RowOK
<1>6. RowOK(Row("type", "types", "owl:NamedIndividual", "NamedIndividual"))
  <2>1. PICK r : r = Row("type", "types", "owl:NamedIndividual", "NamedIndividual")
    OBVIOUS
  <2>2. RowFields(r, "type", "types", "owl:NamedIndividual", "NamedIndividual", "NamedIndividual",
                  "", "")
    BY <2>1, RowIs
  <2>3. TypeRow(r)
    BY <2>2, DeclarationFit DEF TypeRow, RowFields, FitsAsIs
  <2>. QED  BY <2>1, <2>3 DEF RowOK
<1>. QED  BY <1>1, <1>2, <1>3, <1>4, <1>5, <1>6 DEF DeclarationPasses

LEMMA AssertionRows == \A i \in 1 .. 5 : RowOK(AssertionPasses[i])
<1>1. RowOK(Row("classAssertion", "triples", "rdf:type", "ClassAssertion"))
  <2>1. PICK r : r = Row("classAssertion", "triples", "rdf:type", "ClassAssertion")
    OBVIOUS
  <2>2. RowFields(r, "classAssertion", "triples", "rdf:type", "ClassAssertion", "ClassAssertion",
                  "", "")
    BY <2>1, RowIs
  <2>3. PairRow(r)
    BY <2>2, ClassAxiomFit DEF PairRow, RowFields, FitsAsIs
  <2>. QED  BY <2>1, <2>3 DEF RowOK
<1>2. RowOK(Row("objectAssertion", "left", "", "ObjectPropertyAssertion"))
  <2>1. PICK r : r = Row("objectAssertion", "left", "", "ObjectPropertyAssertion")
    OBVIOUS
  <2>2. RowFields(r, "objectAssertion", "left", "", "ObjectPropertyAssertion",
                  "ObjectPropertyAssertion", "", "")
    BY <2>1, RowIs
  <2>3. AssertionRow(r)
    BY <2>2 DEF AssertionRow, RowFields
  <2>. QED  BY <2>1, <2>3 DEF RowOK
<1>3. RowOK(Row("negative", "types", "owl:NegativePropertyAssertion",
                "NegativeObjectPropertyAssertion"))
  <2>1. PICK r : r = Row("negative", "types", "owl:NegativePropertyAssertion",
                         "NegativeObjectPropertyAssertion")
    OBVIOUS
  <2>2. RowFields(r, "negative", "types", "owl:NegativePropertyAssertion",
                  "NegativeObjectPropertyAssertion", "NegativeObjectPropertyAssertion", "", "")
    BY <2>1, RowIs
  <2>3. NegativeRow(r)
    BY <2>2, NegativeAssertionFit DEF NegativeRow, RowFields, FitsAsIs, Target
  <2>. QED  BY <2>1, <2>3 DEF RowOK
<1>4. RowOK(Row("dataAssertion", "left", "", "DataPropertyAssertion"))
  <2>1. PICK r : r = Row("dataAssertion", "left", "", "DataPropertyAssertion")
    OBVIOUS
  <2>2. RowFields(r, "dataAssertion", "left", "", "DataPropertyAssertion",
                  "DataPropertyAssertion", "", "")
    BY <2>1, RowIs
  <2>3. AssertionRow(r)
    BY <2>2 DEF AssertionRow, RowFields
  <2>. QED  BY <2>1, <2>3 DEF RowOK
<1>5. RowOK(Row("negative", "types", "owl:NegativePropertyAssertion",
                "NegativeDataPropertyAssertion"))
  <2>1. PICK r : r = Row("negative", "types", "owl:NegativePropertyAssertion",
                         "NegativeDataPropertyAssertion")
    OBVIOUS
  <2>2. RowFields(r, "negative", "types", "owl:NegativePropertyAssertion",
                  "NegativeDataPropertyAssertion", "NegativeDataPropertyAssertion", "", "")
    BY <2>1, RowIs
  <2>3. NegativeRow(r)
    BY <2>2, NegativeAssertionFit DEF NegativeRow, RowFields, FitsAsIs, Target
  <2>. QED  BY <2>1, <2>3 DEF RowOK
<1>6. RowOK(AssertionPasses[1])
  BY <1>1 DEF AssertionPasses
<1>7. RowOK(AssertionPasses[2])
  BY <1>2 DEF AssertionPasses
<1>8. RowOK(AssertionPasses[3])
  BY <1>3 DEF AssertionPasses
<1>9. RowOK(AssertionPasses[4])
  BY <1>4 DEF AssertionPasses
<1>10. RowOK(AssertionPasses[5])
  BY <1>5 DEF AssertionPasses
<1>. QED  BY <1>6, <1>7, <1>8, <1>9, <1>10

\* All the passes have such rows.
LEMMA PassesOK == Len(Passes) \in Nat /\ \A i \in 1 .. Len(Passes) : RowOK(Passes[i])
<1>. DEFINE Rows == Range(ExpressionPasses) \cup Range(CardinalityPasses) \cup Range(ValuesPasses)
                      \cup Range(ExpressionAxiomPasses) \cup Range(PropertyAxiomPasses)
                      \cup Range(CharacteristicPasses) \cup Range(DeclarationPasses)
                      \cup Range(AssertionPasses)
<1>1. /\ DOMAIN ExpressionPasses = 1 .. 9 /\ DOMAIN CardinalityPasses = 1 .. 8
      /\ DOMAIN ValuesPasses = 1 .. 2 /\ DOMAIN ExpressionAxiomPasses = 1 .. 8
      /\ DOMAIN PropertyAxiomPasses = 1 .. 10 /\ DOMAIN CharacteristicPasses = 1 .. 7
      /\ DOMAIN DeclarationPasses = 1 .. 6 /\ DOMAIN AssertionPasses = 1 .. 5
  BY DEF ExpressionPasses, CardinalityPasses, ValuesPasses, ExpressionAxiomPasses,
         PropertyAxiomPasses, CharacteristicPasses, DeclarationPasses, AssertionPasses
<1>2. \A r \in Rows : RowOK(r)
  BY <1>1, ExpressionRows, CardinalityRows, ValuesRows, ExpressionAxiomRows, PropertyAxiomRows,
     CharacteristicRows, DeclarationRows, AssertionRows DEF Range
<1>3. ExpressionPasses \in Seq(Rows)
  <2>1. ExpressionPasses = [i \in 1 .. 9 |-> ExpressionPasses[i]]
    BY DEF ExpressionPasses
  <2>2. \A i \in 1 .. 9 : ExpressionPasses[i] \in Rows
    BY <1>1 DEF Range
  <2>. HIDE DEF Rows
  <2>. QED  BY <2>1, <2>2
<1>4. CardinalityPasses \in Seq(Rows)
  <2>1. CardinalityPasses = [i \in 1 .. 8 |-> CardinalityPasses[i]]
    BY DEF CardinalityPasses
  <2>2. \A i \in 1 .. 8 : CardinalityPasses[i] \in Rows
    BY <1>1 DEF Range
  <2>. HIDE DEF Rows
  <2>. QED  BY <2>1, <2>2
<1>5. ValuesPasses \in Seq(Rows)
  <2>1. ValuesPasses = [i \in 1 .. 2 |-> ValuesPasses[i]]
    BY DEF ValuesPasses
  <2>2. \A i \in 1 .. 2 : ValuesPasses[i] \in Rows
    BY <1>1 DEF Range
  <2>. HIDE DEF Rows
  <2>. QED  BY <2>1, <2>2
<1>6. ExpressionAxiomPasses \in Seq(Rows)
  <2>1. ExpressionAxiomPasses = [i \in 1 .. 8 |-> ExpressionAxiomPasses[i]]
    BY DEF ExpressionAxiomPasses
  <2>2. \A i \in 1 .. 8 : ExpressionAxiomPasses[i] \in Rows
    BY <1>1 DEF Range
  <2>. HIDE DEF Rows
  <2>. QED  BY <2>1, <2>2
<1>7. PropertyAxiomPasses \in Seq(Rows)
  <2>1. PropertyAxiomPasses = [i \in 1 .. 10 |-> PropertyAxiomPasses[i]]
    BY DEF PropertyAxiomPasses
  <2>2. \A i \in 1 .. 10 : PropertyAxiomPasses[i] \in Rows
    BY <1>1 DEF Range
  <2>. HIDE DEF Rows
  <2>. QED  BY <2>1, <2>2
<1>8. CharacteristicPasses \in Seq(Rows)
  <2>1. CharacteristicPasses = [i \in 1 .. 7 |-> CharacteristicPasses[i]]
    BY DEF CharacteristicPasses
  <2>2. \A i \in 1 .. 7 : CharacteristicPasses[i] \in Rows
    BY <1>1 DEF Range
  <2>. HIDE DEF Rows
  <2>. QED  BY <2>1, <2>2
<1>9. DeclarationPasses \in Seq(Rows)
  <2>1. DeclarationPasses = [i \in 1 .. 6 |-> DeclarationPasses[i]]
    BY DEF DeclarationPasses
  <2>2. \A i \in 1 .. 6 : DeclarationPasses[i] \in Rows
    BY <1>1 DEF Range
  <2>. HIDE DEF Rows
  <2>. QED  BY <2>1, <2>2
<1>10. AssertionPasses \in Seq(Rows)
  <2>1. AssertionPasses = [i \in 1 .. 5 |-> AssertionPasses[i]]
    BY DEF AssertionPasses
  <2>2. \A i \in 1 .. 5 : AssertionPasses[i] \in Rows
    BY <1>1 DEF Range
  <2>. HIDE DEF Rows
  <2>. QED  BY <2>1, <2>2
<1>. HIDE DEF Rows
<1>11. Passes \in Seq(Rows)
  BY <1>3, <1>4, <1>5, <1>6, <1>7, <1>8, <1>9, <1>10 DEF Passes
<1>. QED  BY <1>2, <1>11

\* What a pass visits.
Visits(r, x) ==
  /\ r.by = "triples" => x \in graph /\ x[2] = r.at
  /\ r.by = "types" => x \in graph /\ x[2] = "rdf:type" /\ x[3] = r.at
  /\ r.by = "left" => x \in graph

\* The items of a pass are what it visits.
LEMMA ItemsAreVisits ==
  ASSUME NEW r, RowOK(r), NEW x \in Items(r)
  PROVE  Visits(r, x) /\ x \in graph \cup {<<t[1]>> : t \in graph}
<1>1. r.by \in {"subjects", "triples", "types", "left"}
  BY DEF RowOK, ListRow, OwnedRow, ComplementRow, DatatypeRestrictionRow, HasSelfRow, HasValueRow,
         QualifiedRow, UnqualifiedRow, ValuesRow, PairRow, SharedPairRow, ClassesNaryRow,
         PropertiesNaryRow, DifferentNaryRow, NegativeRow, TypeRow, FunctionalRow, AssertionRow
<1>2. CASE r.by = "subjects"
  BY <1>2 DEF Items, Visits
<1>3. CASE r.by = "triples"
  BY <1>3 DEF Items, Visits
<1>4. CASE r.by = "types"
  BY <1>4 DEF Items, Visits
<1>5. CASE r.by = "left"
  BY <1>5 DEF Items, Visits
<1>. QED  BY <1>1, <1>2, <1>3, <1>4, <1>5

\* Whatever a pass reads and does not leave alone is an element of a kind that fits.
LEMMA ReadingsFit ==
  ASSUME GraphOK, NEW r, RowOK(r), NEW x, Visits(r, x), ~Reading(r, x).skip
  PROVE  ReadsSubject(Reading(r, x)) \/ ReadsTriple(Reading(r, x))
<1>1. CASE ListRow(r)
  <2>1. CASE r.read = "boolean"
    <3>1. Reading(r, x) = ReadBoolean(r, x[1])
      BY <2>1 DEF Reading
    <3>. QED  BY <1>1, <3>1, BooleanReading DEF ListRow
  <2>2. CASE r.read = "oneOf"
    <3>1. Reading(r, x) = ReadOneOf(r, x[1])
      BY <2>2 DEF Reading
    <3>. QED  BY <1>1, <3>1, OneOfReading DEF ListRow
  <2>. QED  BY <1>1, <2>1, <2>2 DEF ListRow
<1>2. CASE OwnedRow(r)
  <2>1. r.read = "owned"
    BY <1>2 DEF OwnedRow
  <2>2. Reading(r, x) = ReadOwned(r, x[1])
    BY <2>1 DEF Reading
  <2>. QED  BY <1>2, <2>2, OwnedReading DEF OwnedRow
<1>3. CASE ComplementRow(r)
  <2>1. r.read = "complement"
    BY <1>3 DEF ComplementRow
  <2>2. Reading(r, x) = ReadComplement(r, x[1])
    BY <2>1 DEF Reading
  <2>. QED  BY <1>3, <2>2, ComplementReading DEF ComplementRow
<1>4. CASE DatatypeRestrictionRow(r)
  <2>1. r.read = "datatypeRestriction"
    BY <1>4 DEF DatatypeRestrictionRow
  <2>2. Reading(r, x) = ReadDatatypeRestriction(r, x[1])
    BY <2>1 DEF Reading
  <2>. QED  BY <1>4, <2>2, DatatypeRestrictionReading DEF DatatypeRestrictionRow
<1>5. CASE HasSelfRow(r)
  <2>1. r.read = "hasSelf"
    BY <1>5 DEF HasSelfRow
  <2>2. Reading(r, x) = ReadHasSelf(r, x[1])
    BY <2>1 DEF Reading
  <2>. QED  BY <1>5, <2>2, HasSelfReading DEF HasSelfRow
<1>6. CASE HasValueRow(r)
  <2>1. r.read = "hasValue"
    BY <1>6 DEF HasValueRow
  <2>2. Reading(r, x) = ReadHasValue(r, x[1])
    BY <2>1 DEF Reading
  <2>. QED  BY <1>6, <2>2, HasValueReading DEF HasValueRow
<1>7. CASE QualifiedRow(r)
  <2>1. r.read = "qualified"
    BY <1>7 DEF QualifiedRow
  <2>2. Reading(r, x) = ReadQualified(r, x[1])
    BY <2>1 DEF Reading
  <2>. QED  BY <1>7, <2>2, QualifiedReading DEF QualifiedRow
<1>8. CASE UnqualifiedRow(r)
  <2>1. r.read = "unqualified"
    BY <1>8 DEF UnqualifiedRow
  <2>2. Reading(r, x) = ReadUnqualified(r, x[1])
    BY <2>1 DEF Reading
  <2>. QED  BY <1>8, <2>2, UnqualifiedReading DEF UnqualifiedRow
<1>9. CASE ValuesRow(r)
  <2>1. r.read = "values"
    BY <1>9 DEF ValuesRow
  <2>2. Reading(r, x) = ReadValues(r, x[1])
    BY <2>1 DEF Reading
  <2>. QED  BY <1>9, <2>2, ValuesReading DEF ValuesRow
<1>10. CASE PairRow(r)
  <2>1. x \in graph /\ x[2] = r.at
    BY <1>10 DEF PairRow, Visits
  <2>2. CASE r.read = "inverse"
    <3>1. Reading(r, x) = ReadInverse(r, x)
      BY <2>2 DEF Reading
    <3>. QED  BY <1>10, <2>1, <3>1, InverseReading DEF PairRow
  <2>3. CASE r.read = "pair"
    <3>1. Reading(r, x) = ReadPair(r, x)
      BY <2>3 DEF Reading
    <3>. QED  BY <1>10, <2>1, <3>1, PairReading DEF PairRow
  <2>4. CASE r.read = "classAssertion"
    <3>1. Reading(r, x) = ReadClassAssertion(r, x)
      BY <2>4 DEF Reading
    <3>. QED  BY <1>10, <2>1, <3>1, ClassAssertionReading DEF PairRow
  <2>. QED  BY <1>10, <2>2, <2>3, <2>4 DEF PairRow
<1>11. CASE SharedPairRow(r)
  <2>1. x \in graph /\ x[2] = r.at
    BY <1>11 DEF SharedPairRow, Visits
  <2>2. CASE r.read = "propertyPair"
    <3>1. Reading(r, x) = ReadPropertyPair(r, x)
      BY <2>2 DEF Reading
    <3>. QED  BY <1>11, <2>1, <3>1, PropertyPairReading DEF SharedPairRow
  <2>3. CASE r.read = "equivalentClass"
    <3>1. Reading(r, x) = ReadEquivalentClass(r, x)
      BY <2>3 DEF Reading
    <3>. QED  BY <1>11, <2>1, <3>1, EquivalentClassReading DEF SharedPairRow
  <2>. QED  BY <1>11, <2>2, <2>3 DEF SharedPairRow
<1>12. CASE AssertionRow(r)
  <2>1. x \in graph
    BY <1>12 DEF AssertionRow, Visits
  <2>2. CASE r.read = "objectAssertion"
    <3>1. Reading(r, x) = ReadObjectAssertion(r, x)
      BY <2>2 DEF Reading
    <3>. QED  BY <1>12, <2>1, <3>1, ObjectAssertionReading, AssertionFit DEF AssertionRow
  <2>3. CASE r.read = "dataAssertion"
    <3>1. Reading(r, x) = ReadDataAssertion(r, x)
      BY <2>3 DEF Reading
    <3>. QED  BY <1>12, <2>1, <3>1, DataAssertionReading, AssertionFit DEF AssertionRow
  <2>. QED  BY <1>12, <2>2, <2>3 DEF AssertionRow
<1>13. CASE ClassesNaryRow(r)
  <2>1. r.read = "classesNary" /\ x \in graph /\ x[2] = "rdf:type" /\ x[3] = r.at
    BY <1>13 DEF ClassesNaryRow, Visits
  <2>2. Has(x[1], "rdf:type", r.at)
    BY <2>1 DEF GraphOK, Has
  <2>3. Reading(r, x) = ReadClassesNary(r, x)
    BY <2>1 DEF Reading
  <2>. QED  BY <1>13, <2>1, <2>2, <2>3, ClassesNaryReading DEF ClassesNaryRow
<1>14. CASE PropertiesNaryRow(r)
  <2>1. r.read = "propertiesNary" /\ x \in graph /\ x[2] = "rdf:type" /\ x[3] = r.at
    BY <1>14 DEF PropertiesNaryRow, Visits
  <2>2. Has(x[1], "rdf:type", r.at)
    BY <2>1 DEF GraphOK, Has
  <2>3. Reading(r, x) = ReadPropertiesNary(r, x)
    BY <2>1 DEF Reading
  <2>. QED  BY <1>14, <2>1, <2>2, <2>3, PropertiesNaryReading DEF PropertiesNaryRow
<1>15. CASE DifferentNaryRow(r)
  <2>1. r.read = "differentNary" /\ x \in graph /\ x[2] = "rdf:type" /\ x[3] = r.at
    BY <1>15 DEF DifferentNaryRow, Visits
  <2>2. Has(x[1], "rdf:type", r.at)
    BY <2>1 DEF GraphOK, Has
  <2>3. Reading(r, x) = ReadDifferentNary(r, x)
    BY <2>1 DEF Reading
  <2>. QED  BY <1>15, <2>1, <2>2, <2>3, DifferentNaryReading DEF DifferentNaryRow
<1>16. CASE NegativeRow(r)
  <2>1. r.read = "negative" /\ x \in graph /\ x[2] = "rdf:type" /\ x[3] = r.at
    BY <1>16 DEF NegativeRow, Visits
  <2>2. Has(x[1], "rdf:type", r.at)
    BY <2>1 DEF GraphOK, Has
  <2>3. Reading(r, x) = ReadNegative(r, x)
    BY <2>1 DEF Reading
  <2>. QED  BY <1>16, <2>1, <2>2, <2>3, NegativeReading DEF NegativeRow
<1>17. CASE TypeRow(r)
  <2>1. r.read = "type" /\ x \in graph /\ x[2] = "rdf:type" /\ x[3] = r.at
    BY <1>17 DEF TypeRow, Visits
  <2>2. Has(x[1], "rdf:type", r.at)
    BY <2>1 DEF GraphOK, Has
  <2>3. Reading(r, x) = ReadType(r, x)
    BY <2>1 DEF Reading
  <2>. QED  BY <1>17, <2>1, <2>2, <2>3, TypeReading DEF TypeRow
<1>18. CASE FunctionalRow(r)
  <2>1. r.read = "functional" /\ x \in graph /\ x[2] = "rdf:type" /\ x[3] = r.at
    BY <1>18 DEF FunctionalRow, Visits
  <2>2. Has(x[1], "rdf:type", r.at)
    BY <2>1 DEF GraphOK, Has
  <2>3. Reading(r, x) = ReadFunctional(r, x)
    BY <2>1 DEF Reading
  <2>. QED  BY <1>18, <2>1, <2>2, <2>3, FunctionalReading DEF FunctionalRow
<1>. QED  BY <1>1, <1>2, <1>3, <1>4, <1>5, <1>6, <1>7, <1>8, <1>9, <1>10, <1>11, <1>12, <1>13,
             <1>14, <1>15, <1>16, <1>17, <1>18 DEF RowOK

-----------------------------------------------------------------------------
(* What the elements are                                                   *)

\* What is visited is visited by the running pass,
TodoOK == \A x \in todo : pass \in 1 .. Len(Passes) /\ Visits(Passes[pass], x)

\* and every element took triples of the graph and is written as what it took.
ElementOK(e) ==
  e.is.kind \in Kinds /\ e.claims \subseteq graph /\ AsTriples(e.is) = Rewritten(e)

\* The inductive invariant of lifting.
LiftInv ==
  /\ input \in Inputs /\ AxiomatizeTypeOK /\ TodoOK
  /\ \A e \in elements : ElementOK(e)

\* What is lifted is a graph.
LEMMA InputsAreGraphs == LiftInv => GraphOK
BY InputAssumption DEF LiftInv, GraphOK, graph

\* The element that a visit adds.
LEMMA AddedIsOK ==
  ASSUME LiftInv, NEW x \in todo, NEW f, f = Reading(Passes[pass], x), Verdict(f) = "element"
  PROVE  /\ Claims(f) \subseteq graph
         /\ ElementOK([is |-> ElementOf(f), claims |-> Claims(f)])
<1>1. GraphOK
  BY InputsAreGraphs
<1>2. pass \in 1 .. Len(Passes) /\ Visits(Passes[pass], x)
  BY DEF LiftInv, TodoOK
<1>3. PICK r : r = Passes[pass]
  OBVIOUS
<1>4. RowOK(r) /\ Visits(r, x) /\ f = Reading(r, x)
  BY <1>2, <1>3, PassesOK
<1>5. ~f.skip /\ ~Unreadable(f)
  BY DEF Verdict
<1>6. ReadsSubject(f) \/ ReadsTriple(f)
  BY <1>1, <1>4, <1>5, ReadingsFit
<1>7. Claims(f) \subseteq graph /\ AsTriples(ElementOf(f)) = Spelling(f.kind, Claims(f))
  BY <1>1, <1>5, <1>6, ClaimsInGraph, SubjectWritten, TripleWritten
<1>8. f.kind \in Kinds
  BY <1>6 DEF ReadsSubject, ReadsTriple, Fits, General
<1>9. PICK e, claims : e = ElementOf(f) /\ claims = Claims(f)
  OBVIOUS
<1>10. e.kind = f.kind
  BY <1>9, ElementFields
<1>11. PICK new : new = [is |-> e, claims |-> claims]
  OBVIOUS
<1>12. new.is = e /\ new.claims = claims
  BY <1>11
<1>13. Rewritten(new) = Spelling(f.kind, claims)
  BY <1>10, <1>12 DEF Rewritten, Spelling
<1>14. ElementOK(new)
  BY <1>7, <1>8, <1>9, <1>10, <1>12, <1>13 DEF ElementOK
<1>. QED  BY <1>7, <1>9, <1>11, <1>14

\* Nothing is read at first.
LEMMA InitLifts == Init => LiftInv
<1>1. 0 \in 0 .. Len(Passes)
  BY PassesOK
<1>. QED  BY <1>1 DEF Init, LiftInv, AxiomatizeTypeOK, TodoOK

\* No step reads anything but an element that is written as what it took.
LEMMA NextLifts == LiftInv /\ [Next]_vars => LiftInv'
<1> SUFFICES ASSUME LiftInv, [Next]_vars PROVE LiftInv'
  OBVIOUS
<1>1. CASE UNCHANGED vars
  BY <1>1 DEF vars, LiftInv, AxiomatizeTypeOK, TodoOK, ElementOK, Rewritten, Visits, graph
<1>2. CASE NextPass
  <2>1. PICK p \in (pass + 1) .. Len(Passes) : pass' = p /\ todo' = Items(Passes[p])
    BY <1>2 DEF NextPass
  <2>2. UNCHANGED <<input, consumed, elements, outcome>> /\ graph' = graph
    BY <1>2 DEF NextPass, graph
  <2>3. p \in 1 .. Len(Passes) /\ p \in 0 .. Len(Passes)
    BY <2>1, PassesOK DEF LiftInv, AxiomatizeTypeOK
  <2>4. PICK r : r = Passes[p]
    OBVIOUS
  <2>5. \A x \in todo' : Visits(r, x) /\ x \in graph \cup {<<t[1]>> : t \in graph}
    BY <2>1, <2>3, <2>4, PassesOK, ItemsAreVisits
  <2>6. TodoOK'
    <3>1. \A x \in todo' : Visits(r, x)'
      BY <2>2, <2>5 DEF Visits
    <3>. QED  BY <2>1, <2>3, <2>4, <3>1 DEF TodoOK
  <2>7. AxiomatizeTypeOK'
    BY <2>1, <2>2, <2>3, <2>5 DEF LiftInv, AxiomatizeTypeOK
  <2>8. \A e \in elements' : ElementOK(e)'
    BY <2>2 DEF LiftInv, ElementOK, Rewritten
  <2>. QED  BY <2>2, <2>6, <2>7, <2>8 DEF LiftInv
<1>3. ASSUME NEW x \in todo, LeaveAlone(x) PROVE LiftInv'
  BY <1>3 DEF LeaveAlone, LiftInv, AxiomatizeTypeOK, TodoOK, ElementOK, Rewritten, Visits, graph
<1>4. ASSUME NEW x \in todo, RaiseMalformed(x) PROVE LiftInv'
  BY <1>4 DEF RaiseMalformed, LiftInv, AxiomatizeTypeOK, TodoOK, ElementOK, Rewritten, Visits, graph
<1>5. ASSUME NEW x \in todo, AddElement(x) PROVE LiftInv'
  <2>1. PICK f : f = Reading(Passes[pass], x)
    OBVIOUS
  <2>2. /\ Verdict(f) = "element" /\ consumed' = consumed \cup Claims(f)
        /\ elements' = elements \cup {[is |-> ElementOf(f), claims |-> Claims(f)]}
        /\ todo' = todo \ {x} /\ UNCHANGED <<input, pass, outcome>>
    BY <1>5, <2>1 DEF AddElement, Visited
  <2>3. graph' = graph
    BY <2>2 DEF graph
  <2>4. /\ Claims(f) \subseteq graph
        /\ ElementOK([is |-> ElementOf(f), claims |-> Claims(f)])
    BY <2>1, <2>2, AddedIsOK
  <2>5. \A e \in elements' : ElementOK(e)
    BY <2>2, <2>4 DEF LiftInv
  <2>6. \A e \in elements' : ElementOK(e)'
    BY <2>3, <2>5 DEF ElementOK, Rewritten
  <2>7. TodoOK'
    BY <2>2, <2>3 DEF LiftInv, TodoOK, Visits
  <2>8. AxiomatizeTypeOK'
    <3>1. \A e \in elements' : e.is.kind \in Kinds /\ e.claims \subseteq graph'
      BY <2>3, <2>5 DEF ElementOK
    <3>2. consumed' \subseteq graph'
      BY <2>2, <2>3, <2>4 DEF LiftInv, AxiomatizeTypeOK
    <3>. QED  BY <2>2, <2>3, <3>1, <3>2 DEF LiftInv, AxiomatizeTypeOK
  <2>. QED  BY <2>2, <2>6, <2>7, <2>8 DEF LiftInv
<1>6. CASE Finish
  BY <1>6 DEF Finish, LiftInv, AxiomatizeTypeOK, TodoOK, ElementOK, Rewritten, Visits, graph
<1> QED
  BY <1>1, <1>2, <1>3, <1>4, <1>5, <1>6 DEF Next

\* Lifting any graph takes triples of that graph only, for elements of the kinds that
\* axiomatize knows, and visits only subjects and triples of the graph.
THEOREM AxiomatizeTypeCorrect == Spec => []AxiomatizeTypeOK
<1>1. Init => LiftInv
  BY InitLifts
<1>2. LiftInv /\ [Next]_vars => LiftInv'
  BY NextLifts
<1>3. LiftInv => AxiomatizeTypeOK
  BY DEF LiftInv
<1> QED
  BY <1>1, <1>2, <1>3, PTL DEF Spec

\* Whatever graph is lifted is partitioned by its elements: each is written (as_triples)
\* as the triples it took, no triple is taken twice and none is left over.
THEOREM LiftedGraphsPartition == Spec => []LiftedPartitions
<1>1. Init => IInv /\ LiftInv
  BY InitAccounted, InitLifts
<1>2. IInv /\ LiftInv /\ [Next]_vars => (IInv /\ LiftInv)'
  BY NextAccounted, NextLifts
<1>3. IInv /\ LiftInv => LiftedPartitions
  <2> SUFFICES ASSUME IInv, LiftInv, outcome = "lifted"
               PROVE  /\ TriplesAccounted /\ graph = UNION {e.claims : e \in elements}
                      /\ \A e \in elements : AsTriples(e.is) = Rewritten(e)
    BY DEF LiftedPartitions
  <2>1. TriplesAccounted /\ graph \subseteq consumed
    BY DEF IInv, CheckedFinish
  <2>2. consumed \subseteq graph
    BY DEF LiftInv, AxiomatizeTypeOK
  <2>3. consumed = UNION {e.claims : e \in elements}
    BY <2>1 DEF TriplesAccounted
  <2>4. \A e \in elements : AsTriples(e.is) = Rewritten(e)
    BY DEF LiftInv, ElementOK
  <2>. QED  BY <2>1, <2>2, <2>3, <2>4
<1> QED
  BY <1>1, <1>2, <1>3, PTL DEF Spec
-----------------------------------------------------------------------------
(* Lifting ends.                                                           *)

\* The steps of a pass, at most: one for each of its items and one to start it.
Span == Cardinality(graph) + 1

\* A bound on the steps that are left to axiomatize.
StepsLeft ==
  IF outcome # "running" THEN 0 ELSE (Len(Passes) - pass) * Span + Cardinality(todo) + 1
MostSteps == Len(Passes) * Span + 1

\* A pass has no more to visit than the graph has triples.
TodoSmall == IsFiniteSet(todo) /\ Cardinality(todo) <= Cardinality(graph)

LEMMA FewItems ==
  ASSUME GraphOK, NEW r, RowOK(r)
  PROVE  IsFiniteSet(Items(r)) /\ Cardinality(Items(r)) <= Cardinality(graph)
<1>1. IsFiniteSet(graph)
  BY DEF GraphOK
<1>2. r.by \in {"subjects", "triples", "types", "left"}
  BY DEF RowOK, ListRow, OwnedRow, ComplementRow, DatatypeRestrictionRow, HasSelfRow, HasValueRow,
         QualifiedRow, UnqualifiedRow, ValuesRow, PairRow, SharedPairRow, ClassesNaryRow,
         PropertiesNaryRow, DifferentNaryRow, NegativeRow, TypeRow, FunctionalRow, AssertionRow
<1>3. CASE r.by = "subjects"
  <2>1. PICK S : S = {t \in graph : t[2] = r.at}
    OBVIOUS
  <2>2. IsFiniteSet(S) /\ Cardinality(S) <= Cardinality(graph)
        /\ Cardinality(S) \in Nat /\ Cardinality(graph) \in Nat
    BY <1>1, <2>1, FS_Subset, FS_CardinalityType
  <2>3. PICK f : f = [t \in S |-> <<t[1]>>]
    OBVIOUS
  <2>4. Items(r) = {<<t[1]>> : t \in S}
    BY <1>3, <2>1 DEF Items
  <2>5. f \in Surjection(S, Items(r))
    <3>1. f \in [S -> Items(r)]
      BY <2>3, <2>4
    <3>2. \A y \in Items(r) : \E t \in S : f[t] = y
      BY <2>3, <2>4
    <3>. QED  BY <3>1, <3>2 DEF Surjection
  <2>6. IsFiniteSet(Items(r)) /\ Cardinality(Items(r)) <= Cardinality(S)
        /\ Cardinality(Items(r)) \in Nat
    BY <2>2, <2>5, FS_Surjection, FS_CardinalityType
  <2>. QED  BY <2>2, <2>6
<1>4. CASE r.by # "subjects"
  <2>1. Items(r) \subseteq graph
    BY <1>2, <1>4 DEF Items
  <2>. QED  BY <1>1, <2>1, FS_Subset
<1>. QED  BY <1>3, <1>4

\* Every later pass is worth a whole span.
LEMMA SpanSaved ==
  ASSUME NEW k \in Nat, NEW l \in Nat, l < k, NEW s \in Nat
  PROVE  l * s \in Nat /\ k * s \in Nat /\ l * s + s <= k * s
<1>1. PICK d \in Nat : k = l + 1 + d
  <2>1. k - l - 1 \in Nat /\ k = l + 1 + (k - l - 1)
    OBVIOUS
  <2>. QED  BY <2>1
<1>2. k * s = l * s + s + d * s /\ d * s \in Nat /\ l * s \in Nat
  BY <1>1
<1>. QED  BY <1>2

LEMMA StepsLeftBounded ==
  ASSUME LiftInv, TodoSmall
  PROVE  /\ Span \in Nat /\ Cardinality(todo) \in Nat /\ Len(Passes) - pass \in Nat
         /\ StepsLeft \in 0 .. MostSteps
<1>1. Cardinality(graph) \in Nat /\ Cardinality(todo) \in Nat /\ Len(Passes) \in Nat
  BY InputsAreGraphs, FS_CardinalityType, PassesOK DEF GraphOK, TodoSmall
<1>2. PICK s, n, k, c \in Nat :
        s = Cardinality(graph) + 1 /\ n = Cardinality(todo) /\ k = Len(Passes) /\ c = k - pass
        /\ c <= k
  BY <1>1 DEF LiftInv, AxiomatizeTypeOK
<1>3. n < s
  BY <1>1, <1>2 DEF TodoSmall
<1>4. c = k => n = 0
  <2>. SUFFICES ASSUME c = k PROVE todo = {}
    BY <1>2, FS_EmptySet
  <2>1. pass = 0
    BY <1>2 DEF LiftInv, AxiomatizeTypeOK
  <2>. QED  BY <2>1 DEF LiftInv, TodoOK
<1>5. c * s \in Nat /\ k * s \in Nat /\ c * s + n <= k * s
  <2>1. CASE c = k
    BY <1>4, <2>1
  <2>2. CASE c < k
    BY <1>3, <2>2, SpanSaved
  <2>. QED  BY <1>2, <2>1, <2>2
<1>6. StepsLeft = 0 \/ StepsLeft = c * s + n + 1
  BY <1>2 DEF StepsLeft, Span
<1>7. MostSteps = k * s + 1
  BY <1>2 DEF MostSteps, Span
<1>8. StepsLeft \in 0 .. MostSteps
  BY <1>5, <1>6, <1>7
<1>. QED  BY <1>1, <1>2, <1>8 DEF Span

LEMMA TodoStaysSmall ==
  ASSUME LiftInv, TodoSmall, [Next]_vars
  PROVE  TodoSmall'
<1>1. CASE NextPass
  <2>1. PICK p \in (pass + 1) .. Len(Passes) : pass' = p /\ todo' = Items(Passes[p]) /\ graph' = graph
    BY <1>1 DEF NextPass, graph
  <2>2. p \in 1 .. Len(Passes)
    BY <2>1, PassesOK DEF LiftInv, AxiomatizeTypeOK
  <2>. QED  BY <2>1, <2>2, PassesOK, InputsAreGraphs, FewItems DEF TodoSmall
<1>2. ASSUME NEW x \in todo, LeaveAlone(x) \/ AddElement(x) PROVE TodoSmall'
  <2>1. todo' = todo \ {x} /\ graph' = graph
    BY <1>2 DEF LeaveAlone, AddElement, graph
  <2>2. IsFiniteSet(todo \ {x}) /\ Cardinality(todo \ {x}) <= Cardinality(todo)
        /\ Cardinality(todo \ {x}) \in Nat /\ Cardinality(todo) \in Nat
    BY FS_Subset, FS_CardinalityType DEF TodoSmall
  <2>3. Cardinality(graph) \in Nat
    BY InputsAreGraphs, FS_CardinalityType DEF GraphOK
  <2>. QED  BY <2>1, <2>2, <2>3 DEF TodoSmall
<1>3. ASSUME NEW x \in todo, RaiseMalformed(x) PROVE TodoSmall'
  BY <1>3 DEF RaiseMalformed, TodoSmall, graph
<1>4. CASE Finish \/ UNCHANGED vars
  BY <1>4 DEF Finish, vars, TodoSmall, graph
<1>. QED  BY <1>1, <1>2, <1>3, <1>4 DEF Next

LEMMA LiftingLowers ==
  ASSUME LiftInv, TodoSmall, LiftInv', TodoSmall', Next
  PROVE  StepsLeft' < StepsLeft
<1>1. /\ Span \in Nat /\ Cardinality(todo) \in Nat /\ Len(Passes) - pass \in Nat
      /\ Len(Passes) \in Nat
  BY StepsLeftBounded, PassesOK
<1>2. outcome = "running" /\ graph' = graph
  BY DEF Next, NextPass, PassDone, LeaveAlone, RaiseMalformed, AddElement, Visited, Finish, graph
<1>3. PICK s, n, c \in Nat : s = Span /\ n = Cardinality(todo) /\ c = Len(Passes) - pass
  BY <1>1
<1>4. StepsLeft = c * s + n + 1 /\ c * s \in Nat
  BY <1>2, <1>3 DEF StepsLeft
<1>5. CASE NextPass
  <2>1. PICK p \in (pass + 1) .. Len(Passes) : pass' = p /\ outcome' = outcome
    BY <1>5 DEF NextPass
  <2>2. p \in Nat /\ pass \in Nat /\ pass < p /\ p <= Len(Passes)
    BY <1>1, <2>1 DEF LiftInv, AxiomatizeTypeOK
  <2>3. PICK d \in Nat : d = Len(Passes) - p /\ d < c
    <3>1. PICK k \in Nat, q \in Nat, o \in Nat : k = Len(Passes) /\ q = p /\ o = pass
      BY <1>1, <2>2
    <3>2. k - q \in Nat /\ k - q < k - o
      BY <2>2, <3>1
    <3>. QED  BY <1>3, <3>1, <3>2
  <2>4. PICK m : m = Cardinality(todo)'
    OBVIOUS
  <2>5. m \in Nat /\ m < s
    <3>1. Cardinality(todo') \in Nat
      <4>1. IsFiniteSet(todo')
        BY DEF TodoSmall
      <4>. QED  BY <4>1, FS_CardinalityType
    <3>2. Cardinality(todo') <= Cardinality(graph) /\ Cardinality(graph) \in Nat
      BY <1>2, InputsAreGraphs, FS_CardinalityType DEF TodoSmall, GraphOK
    <3>. QED  BY <1>3, <2>4, <3>1, <3>2 DEF Span
  <2>6. StepsLeft' = d * s + m + 1
    BY <1>2, <1>3, <2>1, <2>3, <2>4 DEF StepsLeft, Span
  <2>7. d * s \in Nat /\ d * s + s <= c * s
    BY <2>3, SpanSaved
  <2>. QED  BY <1>4, <2>5, <2>6, <2>7
<1>6. ASSUME NEW x \in todo, LeaveAlone(x) \/ AddElement(x) PROVE StepsLeft' < StepsLeft
  <2>1. todo' = todo \ {x} /\ UNCHANGED <<pass, outcome>>
    BY <1>6 DEF LeaveAlone, AddElement
  <2>2. Cardinality(todo') = n - 1
    BY <1>3, <2>1, FS_RemoveElement DEF TodoSmall
  <2>3. StepsLeft' = c * s + (n - 1) + 1
    BY <1>2, <1>3, <2>1, <2>2 DEF StepsLeft, Span
  <2>. QED  BY <1>4, <2>3
<1>7. ASSUME outcome' # "running" PROVE StepsLeft' < StepsLeft
  <2>1. StepsLeft' = 0
    BY <1>7 DEF StepsLeft
  <2>. QED  BY <1>4, <2>1
<1>8. ASSUME NEW x \in todo, RaiseMalformed(x) PROVE outcome' # "running"
  BY <1>8 DEF RaiseMalformed
<1>9. Finish => outcome' # "running"
  BY DEF Finish
<1>. QED  BY <1>5, <1>6, <1>7, <1>8, <1>9 DEF Next

\* axiomatize ends on every graph, whatever its passes find: every step of a run brings
\* it nearer to its end, and no run takes more steps than there are passes, times one
\* more than the graph has triples, and one.
THEOREM LiftingEnds == Spec => [](StepsLeft \in 0 .. MostSteps) /\ [][StepsLeft' < StepsLeft]_vars
<1>1. Init => LiftInv /\ TodoSmall
  <2>1. Init => TodoSmall
    <3>. SUFFICES ASSUME Init PROVE TodoSmall
      OBVIOUS
    <3>1. IsFiniteSet(graph) /\ Cardinality(graph) \in Nat
      BY InitLifts, InputsAreGraphs, FS_CardinalityType DEF GraphOK
    <3>2. todo = {}
      BY DEF Init
    <3>. QED  BY <3>1, <3>2, FS_EmptySet DEF TodoSmall
  <2>. QED  BY <2>1, InitLifts
<1>2. LiftInv /\ TodoSmall /\ [Next]_vars => (LiftInv /\ TodoSmall)'
  BY NextLifts, TodoStaysSmall
<1>3. LiftInv /\ TodoSmall => StepsLeft \in 0 .. MostSteps
  BY StepsLeftBounded
<1>4. LiftInv /\ TodoSmall /\ (LiftInv /\ TodoSmall)' /\ [Next]_vars
        => [StepsLeft' < StepsLeft]_vars
  BY LiftingLowers
<1>. QED  BY <1>1, <1>2, <1>3, <1>4, PTL DEF Spec
-----------------------------------------------------------------------------
(* Reading back what was written                                           *)

\* A predicate with one object has what it says.
LEMMA OneObject ==
  ASSUME NEW s, NEW p, NEW o, <<s, p, o>> \in graph,
         \A t \in graph : t[1] = s /\ t[2] = p => t = <<s, p, o>>
  PROVE  /\ The(s, p) = o
         /\ \A test : Is(o, test) => Single(s, p, test)
<1>1. Objects(s, p) = {o}
  <2>1. o \in Objects(s, p)
    <3>1. PICK u : u = <<s, p, o>>
      OBVIOUS
    <3>2. u \in graph /\ u[1] = s /\ u[2] = p /\ u[3] = o
      BY <3>1
    <3>. QED  BY <3>2 DEF Objects
  <2>2. \A v \in Objects(s, p) : v = o
    <3>. TAKE v \in Objects(s, p)
    <3>1. PICK t \in graph : t[1] = s /\ t[2] = p /\ v = t[3]
      BY DEF Objects
    <3>2. t = <<s, p, o>>
      BY <3>1
    <3>. QED  BY <3>1, <3>2
  <2>. QED  BY <2>1, <2>2
<1>2. The(s, p) = o
  BY <1>1 DEF The
<1>3. Cardinality(Objects(s, p)) = 1
  BY <1>1, FS_Singleton
<1>. QED  BY <1>2, <1>3 DEF Single

\* A sequence of pairs.
PairList(s) == \E n \in Nat : s = [i \in 1 .. n |-> <<s[i][1], s[i][2]>>]

\* The rows of a list that is in the graph, of which the graph says nothing else, and of
\* which nothing is taken: no cell has another value, another rest or another place.
ListSaidAlone(rows) ==
  /\ PairList(rows)
  /\ SeqTriples(rows) \subseteq graph /\ SeqTriples(rows) \cap consumed = {}
  /\ \A u \in SeqTriples(rows), t \in graph : t[1] = u[1] /\ t[2] = u[2] => t = u
  /\ \A i \in DOMAIN rows, t \in graph :
       t[2] = "rdf:rest" /\ t[3] = rows[i][1] => t \in SeqTriples(rows)
  /\ \A i \in DOMAIN rows : Is(rows[i][1], "resource") /\ rows[i][1] # Nil
  /\ \A i, j \in DOMAIN rows : rows[i][1] = rows[j][1] => i = j

\* What follows the first m rows, and what a walk has found when it has gone along them.
NextOf(rows, m) == IF m = Len(rows) THEN Nil ELSE rows[m + 1][1]
Along(rows, m) ==
  [ok |-> TRUE, cells |-> [i \in 1 .. m |-> rows[i][1]], at |-> NextOf(rows, m)]

LEMMA RowsOfPairs ==
  ASSUME NEW rows, PairList(rows)
  PROVE  /\ Len(rows) \in Nat /\ DOMAIN rows = 1 .. Len(rows)
         /\ \A i \in 1 .. Len(rows) : rows[i] = <<rows[i][1], rows[i][2]>>
<1>1. PICK n \in Nat : rows = [i \in 1 .. n |-> <<rows[i][1], rows[i][2]>>]
  BY DEF PairList
<1>2. PICK S : S = {<<rows[i][1], rows[i][2]>> : i \in 1 .. n}
  OBVIOUS
<1>3. rows \in [1 .. n -> S]
  BY <1>1, <1>2
<1>4. rows \in Seq(S) /\ Len(rows) = n
  BY <1>3
<1>. QED  BY <1>1, <1>4

\* What the graph says of a row.
LEMMA CellIsSound ==
  ASSUME NEW rows, ListSaidAlone(rows), NEW i \in DOMAIN rows
  PROVE  LET c == rows[i][1] IN
         /\ Single(c, "rdf:first", "node") /\ Single(c, "rdf:rest", "resource")
         /\ The(c, "rdf:first") = rows[i][2] /\ The(c, "rdf:rest") = NextOf(rows, i)
         /\ <<c, "rdf:first", rows[i][2]>> \in graph \ consumed
         /\ <<c, "rdf:rest", NextOf(rows, i)>> \in graph \ consumed
<1>1. PICK c, v, next : c = rows[i][1] /\ v = rows[i][2] /\ next = NextOf(rows, i)
  OBVIOUS
<1>2. Len(rows) \in Nat /\ DOMAIN rows = 1 .. Len(rows)
  BY RowsOfPairs DEF ListSaidAlone
<1>3. <<c, "rdf:first", v>> \in SeqTriples(rows) /\ <<c, "rdf:rest", next>> \in SeqTriples(rows)
  BY <1>1 DEF SeqTriples, NextOf
<1>4. Is(v, "node")
  BY DEF Is
<1>5. Is(next, "resource")
  <2>1. CASE i = Len(rows)
    BY <1>1, <2>1, NodeAssumption DEF NextOf, Is
  <2>2. CASE i # Len(rows)
    <3>1. i + 1 \in DOMAIN rows
      BY <1>2, <2>2
    <3>. QED  BY <1>1, <2>2, <3>1 DEF NextOf, ListSaidAlone
  <2>. QED  BY <2>1, <2>2
<1>6. \A t \in graph : t[1] = c /\ t[2] = "rdf:first" => t = <<c, "rdf:first", v>>
  <2>1. PICK u : u = <<c, "rdf:first", v>>
    OBVIOUS
  <2>2. u \in SeqTriples(rows) /\ u[1] = c /\ u[2] = "rdf:first"
    BY <1>3, <2>1
  <2>. QED  BY <2>1, <2>2 DEF ListSaidAlone
<1>7. \A t \in graph : t[1] = c /\ t[2] = "rdf:rest" => t = <<c, "rdf:rest", next>>
  <2>1. PICK u : u = <<c, "rdf:rest", next>>
    OBVIOUS
  <2>2. u \in SeqTriples(rows) /\ u[1] = c /\ u[2] = "rdf:rest"
    BY <1>3, <2>1
  <2>. QED  BY <2>1, <2>2 DEF ListSaidAlone
<1>8. /\ <<c, "rdf:first", v>> \in graph \ consumed
      /\ <<c, "rdf:rest", next>> \in graph \ consumed
  BY <1>3 DEF ListSaidAlone
<1>9. The(c, "rdf:first") = v /\ Single(c, "rdf:first", "node")
  BY <1>4, <1>6, <1>8, OneObject
<1>10. The(c, "rdf:rest") = next /\ Single(c, "rdf:rest", "resource")
  BY <1>5, <1>7, <1>8, OneObject
<1>. QED  BY <1>1, <1>8, <1>9, <1>10

\* Nothing but the cell before it leads to a cell.
LEMMA OnePredecessor ==
  ASSUME NEW rows, ListSaidAlone(rows), NEW m \in Nat, m < Len(rows)
  PROVE  {t \in graph : t[2] = "rdf:rest" /\ t[3] = NextOf(rows, m)}
           = IF m = 0 THEN {} ELSE {<<rows[m][1], "rdf:rest", NextOf(rows, m)>>}
<1>1. Len(rows) \in Nat /\ DOMAIN rows = 1 .. Len(rows)
  BY RowsOfPairs DEF ListSaidAlone
<1>2. m + 1 \in DOMAIN rows /\ NextOf(rows, m) = rows[m + 1][1]
  BY <1>1 DEF NextOf
<1>3. PICK c : c = NextOf(rows, m)
  OBVIOUS
<1>4. ASSUME NEW t \in graph, t[2] = "rdf:rest", t[3] = c
      PROVE  m # 0 /\ t = <<rows[m][1], "rdf:rest", c>>
  <2>1. t \in SeqTriples(rows)
    BY <1>2, <1>3, <1>4 DEF ListSaidAlone
  <2>2. PICK i \in DOMAIN rows : t = <<rows[i][1], "rdf:rest", NextOf(rows, i)>>
    <3>1. ASSUME NEW i \in DOMAIN rows, t = <<rows[i][1], "rdf:first", rows[i][2]>> PROVE FALSE
      <4>1. PICK s, o : t = <<s, "rdf:first", o>>
        BY <3>1
      <4>. QED  BY <1>4, <4>1
    <3>. QED  BY <2>1, <3>1 DEF SeqTriples, NextOf
  <2>3. NextOf(rows, i) = c
    <3>1. PICK s, o : s = rows[i][1] /\ o = NextOf(rows, i)
      OBVIOUS
    <3>2. t = <<s, "rdf:rest", o>>
      BY <2>2, <3>1
    <3>. QED  BY <1>4, <3>1, <3>2
  <2>4. c # Nil
    BY <1>2, <1>3 DEF ListSaidAlone
  <2>5. i # Len(rows) /\ rows[i + 1][1] = c
    BY <2>3, <2>4 DEF NextOf
  <2>6. i + 1 \in DOMAIN rows
    BY <1>1, <2>5
  <2>7. i + 1 = m + 1
    BY <1>2, <1>3, <2>5, <2>6 DEF ListSaidAlone
  <2>. QED  BY <1>1, <2>2, <2>3, <2>7
<1>5. m # 0 => <<rows[m][1], "rdf:rest", c>> \in graph
  <2>1. m # 0 => m \in DOMAIN rows
    BY <1>1
  <2>. QED  BY <1>3, <2>1, CellIsSound
<1>6. CASE m = 0
  BY <1>3, <1>4, <1>6
<1>7. CASE m # 0
  <2>1. PICK u : u = <<rows[m][1], "rdf:rest", c>>
    OBVIOUS
  <2>2. u \in graph /\ u[2] = "rdf:rest" /\ u[3] = c
    <3>1. PICK s : s = rows[m][1]
      OBVIOUS
    <3>2. u = <<s, "rdf:rest", c>>
      BY <2>1, <3>1
    <3>. QED  BY <1>5, <1>7, <2>1, <3>2
  <2>. QED  BY <1>3, <1>4, <1>7, <2>1, <2>2
<1>. QED  BY <1>6, <1>7

\* So a walk that has gone along some of the rows goes on to the next one.
LEMMA StepAlong ==
  ASSUME NEW rows, ListSaidAlone(rows), NEW m \in Nat, m < Len(rows)
  PROVE  WalkStep(Along(rows, m)) = Along(rows, m + 1)
<1>1. Len(rows) \in Nat /\ DOMAIN rows = 1 .. Len(rows)
  BY RowsOfPairs DEF ListSaidAlone
<1>2. PICK c : c = NextOf(rows, m)
  OBVIOUS
<1>3. m + 1 \in DOMAIN rows /\ c = rows[m + 1][1] /\ c # Nil
  BY <1>1, <1>2 DEF NextOf, ListSaidAlone
<1>4. PICK S : S = {rows[i][1] : i \in 1 .. Len(rows)}
  OBVIOUS
<1>5. PICK cells : cells = [i \in 1 .. m |-> rows[i][1]]
  OBVIOUS
<1>6. cells \in Seq(S) /\ Len(cells) = m /\ c \in S
  BY <1>1, <1>3, <1>4, <1>5
<1>7. PICK w : w = Along(rows, m)
  OBVIOUS
<1>8. w.ok = TRUE /\ w.cells = cells /\ w.at = c
  BY <1>2, <1>5, <1>7 DEF Along
<1>9. ~CellBroken(cells, c)
  <2>1. c \notin Range(cells)
    <3>1. \A i \in 1 .. m : i \in DOMAIN rows /\ i # m + 1 /\ cells[i] = rows[i][1]
      BY <1>1, <1>5
    <3>2. DOMAIN cells = 1 .. m
      BY <1>5
    <3>. QED  BY <1>3, <3>1, <3>2 DEF ListSaidAlone, Range
  <2>2. {t \in graph : t[2] = "rdf:rest" /\ t[3] = c}
          = IF cells = <<>> THEN {} ELSE {<<Last(cells), "rdf:rest", c>>}
    <3>1. cells = <<>> <=> m = 0
      BY <1>6
    <3>2. m # 0 => Last(cells) = rows[m][1]
      BY <1>5, <1>6 DEF Last
    <3>. QED  BY <1>2, <3>1, <3>2, OnePredecessor
  <2>3. /\ Single(c, "rdf:first", "node") /\ Single(c, "rdf:rest", "resource")
        /\ <<c, "rdf:first", The(c, "rdf:first")>> \notin consumed
        /\ <<c, "rdf:rest", The(c, "rdf:rest")>> \notin consumed
    BY <1>3, CellIsSound
  <2>. QED  BY <2>1, <2>2, <2>3 DEF CellBroken
<1>10. The(c, "rdf:rest") = NextOf(rows, m + 1)
  BY <1>3, CellIsSound
<1>11. Append(cells, c) = [i \in 1 .. m + 1 |-> rows[i][1]]
  <2>0. Append(cells, c) \in Seq(S) /\ Len(Append(cells, c)) = m + 1
    BY <1>6
  <2>1. PICK more \in Seq(S) : more = Append(cells, c) /\ Len(more) = m + 1
    BY <2>0
  <2>2. more = [i \in 1 .. m + 1 |-> more[i]]
    <3>1. more \in [1 .. m + 1 -> S]
      BY <2>1, LenProperties
    <3>. QED  BY <3>1
  <2>3. \A i \in 1 .. m + 1 : more[i] = rows[i][1]
    BY <1>3, <1>5, <1>6, <2>1
  <2>. QED  BY <2>1, <2>2, <2>3
<1>12. WalkStep(w) = [ok |-> TRUE, cells |-> Append(cells, c), at |-> The(c, "rdf:rest")]
  BY <1>3, <1>8, <1>9 DEF WalkStep
<1>. QED  BY <1>7, <1>10, <1>11, <1>12 DEF Along

\* There are n numbers from 1 to n.
LEMMA NumbersCounted ==
  ASSUME NEW n \in Nat
  PROVE  IsFiniteSet(1 .. n) /\ Cardinality(1 .. n) = n
<1>1. 1 \in Int /\ n \in Int
  OBVIOUS
<1>2. Cardinality(1 .. n) = IF 1 > n THEN 0 ELSE n - 1 + 1
  BY <1>1, FS_Interval, Zenon
<1>3. IsFiniteSet(1 .. n)
  BY <1>1, FS_Interval, Zenon
<1>. QED  BY <1>2, <1>3

\* A list has no more cells than the graph has triples.
LEMMA ListIsShort ==
  ASSUME GraphOK, NEW rows, ListSaidAlone(rows)
  PROVE  Len(rows) <= Cardinality(graph)
<1>1. Len(rows) \in Nat /\ DOMAIN rows = 1 .. Len(rows)
  BY RowsOfPairs DEF ListSaidAlone
<1>2. PICK n \in Nat : n = Len(rows)
  BY <1>1
<1>3. PICK g : g = [i \in 1 .. n |-> <<rows[i][1], "rdf:first", rows[i][2]>>]
  OBVIOUS
<1>4. g \in [1 .. n -> graph]
  BY <1>1, <1>2, <1>3, CellIsSound
<1>5. \A i, j \in 1 .. n : g[i] = g[j] => i = j
  <2>. TAKE i, j \in 1 .. n
  <2>1. PICK a, b, v, w : a = rows[i][1] /\ b = rows[j][1] /\ v = rows[i][2] /\ w = rows[j][2]
    OBVIOUS
  <2>2. g[i] = <<a, "rdf:first", v>> /\ g[j] = <<b, "rdf:first", w>>
    BY <1>3, <2>1
  <2>3. g[i] = g[j] => a = b
    BY <2>2
  <2>. QED  BY <1>1, <1>2, <2>1, <2>3 DEF ListSaidAlone
<1>6. PICK T : T = graph /\ IsFiniteSet(T)
  BY DEF GraphOK
<1>7. Cardinality(1 .. n) <= Cardinality(T)
  <2>1. g \in Injection(1 .. n, T)
    BY <1>4, <1>5, <1>6 DEF Injection, IsInjective
  <2>. QED  BY <1>6, <2>1, FS_Injection
<1>8. Cardinality(1 .. n) = n
  BY NumbersCounted
<1>. QED  BY <1>2, <1>6, <1>7, <1>8

\* A list that is written is walked to its end, whatever its length.
LEMMA WrittenListIsWalked ==
  ASSUME GraphOK, NEW rows, ListSaidAlone(rows)
  PROVE  Walk(ListHead(rows)) = Along(rows, Len(rows))
<1>1. Len(rows) \in Nat /\ DOMAIN rows = 1 .. Len(rows)
  BY RowsOfPairs DEF ListSaidAlone
<1>2. PICK N : N = Cardinality(graph)
  OBVIOUS
<1>3. N \in Nat /\ Len(rows) <= N
  BY <1>2, ListIsShort, FS_CardinalityType DEF GraphOK
<1>4. PICK walk : WalkSteps(walk, ListHead(rows)) /\ Walk(ListHead(rows)) = walk[N]
  BY <1>2, WalkIsIterated
<1>5. walk[0] = Along(rows, 0)
  <2>1. ListHead(rows) = NextOf(rows, 0)
    <3>1. rows = <<>> <=> Len(rows) = 0
      BY <1>1 DEF ListSaidAlone, PairList
    <3>. QED  BY <3>1 DEF ListHead, NextOf
  <2>2. [i \in 1 .. 0 |-> rows[i][1]] = <<>>
    OBVIOUS
  <2>. QED  BY <1>4, <2>1, <2>2 DEF WalkSteps, WalkStart, Along
<1>6. WalkStep(Along(rows, Len(rows))) = Along(rows, Len(rows))
  <2>1. Along(rows, Len(rows)).at = Nil
    BY DEF Along, NextOf
  <2>. QED  BY <2>1 DEF WalkStep
<1>0. PICK k \in Nat : k = Len(rows)
  BY <1>1
<1>. DEFINE reach(n) == IF n <= k THEN n ELSE k
            P == {n \in Nat : n <= N => walk[n] = Along(rows, reach(n))}
<1>7. 0 \in P
  BY <1>0, <1>5
<1>8. ASSUME NEW n \in Nat, n \in P PROVE n + 1 \in P
  <2>. SUFFICES ASSUME n + 1 <= N PROVE walk[n + 1] = Along(rows, reach(n + 1))
    OBVIOUS
  <2>1. n + 1 \in 1 .. N /\ (n + 1) - 1 = n /\ walk[n] = Along(rows, reach(n))
    BY <1>3, <1>8
  <2>2. walk[n + 1] = WalkStep(Along(rows, reach(n)))
    BY <1>2, <1>4, <2>1 DEF WalkSteps
  <2>3. CASE n < k
    <3>1. reach(n) = n /\ reach(n + 1) = n + 1
      BY <2>3
    <3>. QED  BY <1>0, <2>2, <2>3, <3>1, StepAlong
  <2>4. CASE ~(n < k)
    <3>1. reach(n) = k /\ reach(n + 1) = k
      BY <2>4
    <3>. QED  BY <1>0, <1>6, <2>2, <3>1
  <2>. QED  BY <2>3, <2>4
<1>. HIDE DEF P
<1>9. N \in P
  BY <1>3, <1>7, <1>8, NaturalsByInduction
<1>10. reach(N) = k
  BY <1>0, <1>3
<1>. QED  BY <1>0, <1>3, <1>4, <1>9, <1>10 DEF P

\* An element as the constructors of its class make it: it has the fields of the class,
\* and a list only if the class owns one.
WellFormed(e) ==
  /\ e = Element(e.kind, e.name, e.nodes, e.rows, e.facets) /\ e.kind \in Kinds
  /\ DOMAIN e.nodes = DOMAIN Shape[e.kind].nodes
  /\ e.nodes = [i \in DOMAIN e.nodes |-> e.nodes[i]]
  /\ PairList(e.rows) /\ PairList(e.facets)
  /\ \A i \in DOMAIN e.rows : Is(e.rows[i][1], "resource")
  /\ Shape[e.kind].list = "" => e.rows = <<>>
  /\ Valid(e)

\* What a reading asks of the fields and of the members of a list.
Facet(e, i) == <<e.rows[i][2], e.facets[i][1], e.facets[i][2]>>
Accepts(f, e) ==
  /\ \A i \in DOMAIN f.fetch : Is(e.nodes[i], f.fetch[i][2])
  /\ f.members # "facet" => /\ e.facets = <<>>
                            /\ \A i \in DOMAIN e.rows : Is(e.rows[i][2], f.members)
  /\ f.members = "facet" =>
       /\ DOMAIN e.facets = DOMAIN e.rows
       /\ \A i \in DOMAIN e.rows : /\ Is(e.rows[i][2], "resource") /\ Is(e.facets[i][1], "iri")
                                   /\ e.facets[i][1] \notin {"rdf:first", "rdf:rest"}

\* The graph says an element, and of its fields, its list and its facets nothing else.
SaidAlone(e) ==
  /\ AsTriples(e) \subseteq graph
  /\ \A u \in Owned(e) \cup FieldsOf(e), t \in graph : t[1] = u[1] /\ t[2] = u[2] => t = u
  /\ \A i \in DOMAIN e.rows, t \in graph :
       t[2] = "rdf:rest" /\ t[3] = e.rows[i][1] => t \in SeqTriples(e.rows)
  /\ \A i \in DOMAIN e.facets : Facets(e.rows[i][2]) \subseteq {Facet(e, i)}

\* The cells of a valid list are different, so its list is as a walk needs it.
LEMMA OwnListSaidAlone ==
  ASSUME NEW e, General(e.kind), Shape[e.kind].list # "", WellFormed(e), SaidAlone(e),
         AsTriples(e) \cap consumed = {}
  PROVE  ListSaidAlone(e.rows)
<1>1. PICK rows, n : rows = e.rows /\ n = Len(rows)
  OBVIOUS
<1>2. PairList(rows)
  BY <1>1 DEF WellFormed
<1>3. n \in Nat /\ DOMAIN rows = 1 .. n
  BY <1>1, <1>2, RowsOfPairs
<1>4. PICK C : C = {rows[i][1] : i \in DOMAIN rows}
  OBVIOUS
<1>5. Cardinality(C) = n /\ Nil \notin C
  BY <1>1, <1>4 DEF WellFormed, Valid
<1>6. \A i, j \in DOMAIN rows : rows[i][1] = rows[j][1] => i = j
  <2>1. PICK g : g = [i \in 1 .. n |-> rows[i][1]]
    OBVIOUS
  <2>2. g \in Surjection(1 .. n, C)
    <3>1. g \in [1 .. n -> C] /\ \A y \in C : \E i \in 1 .. n : g[i] = y
      BY <1>3, <1>4, <2>1
    <3>. QED  BY <3>1 DEF Surjection
  <2>3. IsFiniteSet(1 .. n) /\ Cardinality(1 .. n) = n
    BY <1>3, NumbersCounted
  <2>4. g \in Injection(1 .. n, C)
    BY <1>5, <2>2, <2>3, FS_Surjection
  <2>5. \A i, j \in 1 .. n : g[i] = g[j] => i = j
    BY <2>2, <2>4 DEF Injection, IsInjective, Surjection
  <2>. QED  BY <1>3, <2>1, <2>5
<1>7. SeqTriples(rows) \subseteq Owned(e) /\ SeqTriples(rows) \subseteq AsTriples(e)
  BY <1>1, GeneralAsTriples DEF Owned
<1>8. \A i \in DOMAIN rows : Is(rows[i][1], "resource") /\ rows[i][1] # Nil
  BY <1>1, <1>4, <1>5 DEF WellFormed
<1>9. \A i \in DOMAIN rows, t \in graph :
        t[2] = "rdf:rest" /\ t[3] = rows[i][1] => t \in SeqTriples(rows)
  BY <1>1 DEF SaidAlone
<1>10. \A u \in SeqTriples(rows), t \in graph : t[1] = u[1] /\ t[2] = u[2] => t = u
  BY <1>7 DEF SaidAlone
<1>11. SeqTriples(rows) \subseteq graph /\ SeqTriples(rows) \cap consumed = {}
  BY <1>7 DEF SaidAlone
<1>. QED  BY <1>1, <1>2, <1>6, <1>8, <1>9, <1>10, <1>11 DEF ListSaidAlone

\* What a reading has in common with an element that it is to find.
MayRead(f, e) ==
  /\ f.kind = e.kind /\ f.name = e.name /\ Accepts(f, e) /\ ~f.bad
  /\ WellFormed(e) /\ AsTriples(e) \cap consumed = {}

\* The kind of the element is what the reading looks for,
LEMMA SameShape ==
  ASSUME NEW f, NEW e, ReadsSubject(f), MayRead(f, e), SaidAlone(e)
  PROVE  /\ General(e.kind) /\ f.list = Shape[e.kind].list /\ f.type = Shape[e.kind].type
         /\ DOMAIN e.nodes = DOMAIN f.fetch
         /\ \A i \in DOMAIN f.fetch : Shape[e.kind].nodes[i][1] = f.fetch[i][1]
<1>1. PICK kind : kind = e.kind /\ kind = f.kind
  BY DEF MayRead
<1>2. Fits(kind, f.type, Spelled(f.list), PredsOf(f))
  BY <1>1 DEF ReadsSubject
<1>3. General(kind) /\ f.type = Shape[kind].type /\ Spelled(f.list) = Shape[kind].list
  BY <1>2 DEF Fits
<1>4. DOMAIN Shape[kind].nodes = DOMAIN f.fetch
      /\ \A i \in DOMAIN f.fetch : Shape[kind].nodes[i][1] = f.fetch[i][1]
  BY <1>2 DEF Fits, PredsOf
<1>5. f.list # "owl:distinctMembers"
  <2>. SUFFICES ASSUME f.list = "owl:distinctMembers" PROVE FALSE
    OBVIOUS
  <2>1. ~HasAny(e.name, "owl:members")
    BY DEF ReadsSubject, MayRead
  <2>2. Shape[kind].list = "owl:members"
    BY <1>3 DEF Spelled
  <2>3. <<e.name, "owl:members", ListHead(e.rows)>> \in graph
    BY <1>1, <1>3, <2>2, GeneralAsTriples DEF Owned, SaidAlone
  <2>4. PICK u : u = <<e.name, "owl:members", ListHead(e.rows)>>
    OBVIOUS
  <2>5. u \in graph /\ u[1] = e.name /\ u[2] = "owl:members"
    BY <2>3, <2>4
  <2>. QED  BY <2>1, <2>5 DEF HasAny, Objects
<1>6. Spelled(f.list) = f.list
  BY <1>5 DEF Spelled
<1>7. DOMAIN e.nodes = DOMAIN Shape[kind].nodes
  BY <1>1 DEF MayRead, WellFormed
<1>. QED  BY <1>1, <1>3, <1>4, <1>6, <1>7

\* its fields are fetched,
LEMMA FieldsReadBack ==
  ASSUME NEW f, NEW e, ReadsSubject(f), MayRead(f, e), SaidAlone(e)
  PROVE  /\ \A i \in DOMAIN f.fetch : Single(f.name, f.fetch[i][1], f.fetch[i][2])
         /\ Fetched(f) = e.nodes
<1>1. ASSUME NEW i \in DOMAIN f.fetch
      PROVE  Single(f.name, f.fetch[i][1], f.fetch[i][2]) /\ The(f.name, f.fetch[i][1]) = e.nodes[i]
  <2>1. PICK s, p, o, test : s = f.name /\ p = f.fetch[i][1] /\ o = e.nodes[i]
                             /\ test = f.fetch[i][2]
    OBVIOUS
  <2>2. s = e.name /\ i \in DOMAIN e.nodes /\ p = Shape[e.kind].nodes[i][1] /\ Is(o, test)
    BY <2>1, SameShape DEF MayRead, Accepts
  <2>3. <<s, p, o>> \in FieldsOf(e)
    BY <2>1, <2>2 DEF FieldsOf
  <2>4. <<s, p, o>> \in graph
    BY <2>3, SameShape, GeneralAsTriples DEF SaidAlone
  <2>5. \A t \in graph : t[1] = s /\ t[2] = p => t = <<s, p, o>>
    <3>1. PICK u : u = <<s, p, o>>
      OBVIOUS
    <3>2. u \in FieldsOf(e) /\ u[1] = s /\ u[2] = p
      BY <2>3, <3>1
    <3>. QED  BY <3>1, <3>2 DEF SaidAlone
  <2>. QED  BY <2>1, <2>2, <2>4, <2>5, OneObject
<1>2. e.nodes = [i \in DOMAIN f.fetch |-> e.nodes[i]]
  BY SameShape DEF MayRead, WellFormed
<1>3. [i \in DOMAIN f.fetch |-> The(f.name, f.fetch[i][1])] = [i \in DOMAIN f.fetch |-> e.nodes[i]]
  BY <1>1
<1>. QED  BY <1>1, <1>2, <1>3 DEF Fetched

\* and its list is walked to its end.
LEMMA ListReadBack ==
  ASSUME GraphOK, NEW f, NEW e, ReadsSubject(f), MayRead(f, e), SaidAlone(e), HasList(f)
  PROVE  /\ ListSaidAlone(e.rows) /\ Single(f.name, f.list, "resource")
         /\ Walk(The(f.name, f.list)) = Along(e.rows, Len(e.rows))
<1>1. PICK s, p, o : s = f.name /\ p = f.list /\ o = ListHead(e.rows)
  OBVIOUS
<1>2. s = e.name /\ p = Shape[e.kind].list /\ p # "" /\ General(e.kind)
  BY <1>1, SameShape DEF MayRead, HasList
<1>3. ListSaidAlone(e.rows)
  BY <1>2, OwnListSaidAlone DEF MayRead
<1>4. <<s, p, o>> \in Owned(e)
  BY <1>1, <1>2 DEF Owned
<1>5. <<s, p, o>> \in graph
  BY <1>2, <1>4, GeneralAsTriples DEF SaidAlone
<1>6. \A t \in graph : t[1] = s /\ t[2] = p => t = <<s, p, o>>
  <2>1. PICK u : u = <<s, p, o>>
    OBVIOUS
  <2>2. u \in Owned(e) /\ u[1] = s /\ u[2] = p
    BY <1>4, <2>1
  <2>. QED  BY <2>1, <2>2 DEF SaidAlone
<1>7. Is(o, "resource")
  <2>1. CASE e.rows = <<>>
    BY <1>1, <2>1, NodeAssumption DEF ListHead, Is
  <2>2. CASE e.rows # <<>>
    <3>1. DOMAIN e.rows = 1 .. Len(e.rows) /\ Len(e.rows) \in Nat
      BY <1>3, RowsOfPairs DEF ListSaidAlone
    <3>2. Len(e.rows) # 0
      BY <1>3, <2>2, <3>1 DEF ListSaidAlone, PairList
    <3>3. 1 \in DOMAIN e.rows
      BY <3>1, <3>2
    <3>. QED  BY <1>1, <1>3, <2>2, <3>3 DEF ListHead, ListSaidAlone
  <2>. QED  BY <2>1, <2>2
<1>8. The(s, p) = o /\ Single(s, p, "resource")
  BY <1>5, <1>6, <1>7, OneObject
<1>. QED  BY <1>1, <1>3, <1>8, WrittenListIsWalked

\* So the rows are what the list was written from,
LEMMA RowsReadBack ==
  ASSUME GraphOK, NEW f, NEW e, ReadsSubject(f), MayRead(f, e), SaidAlone(e)
  PROVE  /\ DOMAIN CellsOf(f) = DOMAIN e.rows
         /\ \A i \in DOMAIN e.rows : The(CellsOf(f)[i], "rdf:first") = e.rows[i][2]
         /\ RowsOf(CellsOf(f)) = e.rows
<1>1. PICK cells, rows : cells = CellsOf(f) /\ rows = e.rows
  OBVIOUS
<1>2. PairList(rows)
  BY <1>1 DEF MayRead, WellFormed
<1>3. Len(rows) \in Nat /\ DOMAIN rows = 1 .. Len(rows)
  BY <1>2, RowsOfPairs
<1>4. rows = [i \in DOMAIN rows |-> <<rows[i][1], rows[i][2]>>]
  BY <1>2, <1>3 DEF PairList
<1>5. CASE HasList(f)
  <2>1. ListSaidAlone(rows) /\ Walk(The(f.name, f.list)) = Along(rows, Len(rows))
    BY <1>1, <1>5, ListReadBack
  <2>2. cells = [i \in DOMAIN rows |-> rows[i][1]]
    <3>1. Along(rows, Len(rows)).cells = [i \in 1 .. Len(rows) |-> rows[i][1]]
      BY DEF Along
    <3>. QED  BY <1>1, <1>3, <1>5, <2>1, <3>1 DEF CellsOf
  <2>3. DOMAIN cells = DOMAIN rows
    BY <2>2
  <2>4. \A i \in DOMAIN rows : cells[i] = rows[i][1] /\ The(cells[i], "rdf:first") = rows[i][2]
    BY <2>1, <2>2, CellIsSound
  <2>5. RowsOf(cells) = [i \in DOMAIN rows |-> <<rows[i][1], rows[i][2]>>]
    BY <2>3, <2>4 DEF RowsOf
  <2>. QED  BY <1>1, <1>4, <2>3, <2>4, <2>5
<1>6. CASE ~HasList(f)
  <2>1. rows = <<>> /\ cells = <<>>
    BY <1>1, <1>6, SameShape DEF MayRead, WellFormed, HasList, CellsOf
  <2>2. DOMAIN rows = {} /\ DOMAIN cells = {}
    BY <2>1
  <2>3. RowsOf(cells) = [i \in DOMAIN rows |-> <<rows[i][1], rows[i][2]>>]
    BY <2>2 DEF RowsOf
  <2>. QED  BY <1>1, <1>4, <2>2, <2>3
<1>. QED  BY <1>5, <1>6

\* the anchors say what they were written to say,
LEMMA AnchorsReadBack ==
  ASSUME GraphOK, NEW f, NEW e, ReadsSubject(f), MayRead(f, e), SaidAlone(e), HasList(f),
         f.members = "facet", NEW i \in DOMAIN e.rows
  PROVE  /\ ~AnchorBroken(e.rows[i][2])
         /\ Tail(FacetOf(e.rows[i][2])) = e.facets[i]
<1>1. PICK anchor, p, v : anchor = e.rows[i][2] /\ p = e.facets[i][1] /\ v = e.facets[i][2]
  OBVIOUS
<1>2. i \in DOMAIN e.facets /\ Is(anchor, "resource") /\ Is(p, "iri")
      /\ p \notin {"rdf:first", "rdf:rest"}
  BY <1>1 DEF MayRead, Accepts
<1>3. PICK t : t = <<anchor, p, v>>
  OBVIOUS
<1>4. t \in AsTriples(e)
  <2>1. t \in FacetTriples(e)
    BY <1>1, <1>2, <1>3 DEF FacetTriples
  <2>2. Shape[e.kind].list # "" /\ General(e.kind)
    BY SameShape DEF HasList
  <2>. QED  BY <2>1, <2>2, GeneralAsTriples DEF Owned
<1>5. t \in graph /\ t \notin consumed
  BY <1>4 DEF SaidAlone, MayRead
<1>6. t[1] = anchor /\ t[2] = p /\ Tail(t) = <<p, v>>
  BY <1>3
<1>7. Facets(anchor) = {t}
  <2>1. t \in Facets(anchor)
    BY <1>2, <1>5, <1>6 DEF Facets
  <2>2. Facets(anchor) \subseteq {t}
    BY <1>1, <1>2, <1>3 DEF SaidAlone, Facet
  <2>. QED  BY <2>1, <2>2
<1>8. ~AnchorBroken(anchor)
  <2>1. Cardinality(Facets(anchor)) = 1
    BY <1>7, FS_Singleton
  <2>. QED  BY <1>2, <1>5, <1>6, <1>7, <2>1 DEF AnchorBroken
<1>9. FacetOf(anchor) = t
  BY <1>7 DEF FacetOf
<1>10. e.facets[i] = <<p, v>>
  <2>1. PICK facets : facets = e.facets
    OBVIOUS
  <2>2. facets[i] = <<facets[i][1], facets[i][2]>>
    BY <1>2, <2>1, RowsOfPairs DEF MayRead, WellFormed
  <2>. QED  BY <1>1, <2>1, <2>2
<1>. QED  BY <1>1, <1>6, <1>8, <1>9, <1>10

\* What is read is an element,
LEMMA IsAnElement ==
  ASSUME NEW f
  PROVE  LET g == ElementOf(f) IN g = Element(g.kind, g.name, g.nodes, g.rows, g.facets)
<1>1. PICK kind, name, nodes, rows, facets :
        ElementOf(f) = Element(kind, name, nodes, rows, facets)
  BY DEF ElementOf
<1>2. PICK g : g = [kind |-> kind, name |-> name, nodes |-> nodes, rows |-> rows,
                    facets |-> facets]
  OBVIOUS
<1>3. g.kind = kind /\ g.name = name /\ g.nodes = nodes /\ g.rows = rows /\ g.facets = facets
  BY <1>2
<1>. QED  BY <1>1, <1>2, <1>3 DEF Element

\* and so the element is read as it was written.
LEMMA SubjectReadBack ==
  ASSUME GraphOK, NEW f, NEW e, ReadsSubject(f), MayRead(f, e), SaidAlone(e)
  PROVE  ~Unreadable(f) /\ ElementOf(f) = e
<1>1. PICK cells, rows : cells = CellsOf(f) /\ rows = e.rows
  OBVIOUS
<1>2. /\ DOMAIN cells = DOMAIN rows
      /\ \A i \in DOMAIN rows : The(cells[i], "rdf:first") = rows[i][2]
      /\ RowsOf(cells) = rows
  BY <1>1, RowsReadBack
<1>3. \A c \in Range(cells) : \E i \in DOMAIN rows : The(c, "rdf:first") = rows[i][2]
  BY <1>2 DEF Range
<1>4. HasList(f) => ~ListBroken(f)
  <2>. SUFFICES ASSUME HasList(f) PROVE ~ListBroken(f)
    OBVIOUS
  <2>1. /\ Single(f.name, f.list, "resource")
        /\ Walk(The(f.name, f.list)) = Along(rows, Len(rows))
    BY <1>1, ListReadBack
  <2>2. Along(rows, Len(rows)).ok = TRUE /\ Along(rows, Len(rows)).at = Nil
    BY DEF Along, NextOf
  <2>3. f.members # "facet" => \A c \in Range(CellsOf(f)) : Is(The(c, "rdf:first"), f.members)
    BY <1>1, <1>3 DEF MayRead, Accepts
  <2>4. \A anchor \in AnchorsOf(f) : ~AnchorBroken(anchor)
    BY <1>1, <1>3, AnchorsReadBack DEF AnchorsOf
  <2>. QED  BY <2>1, <2>2, <2>3, <2>4 DEF ListBroken
<1>5. ~Unreadable(f)
  BY <1>4, FieldsReadBack DEF Unreadable, MayRead
<1>6. ElementOf(f).nodes = e.nodes
  <2>1. PICK n \in Nat : DOMAIN f.fetch = 1 .. n
    BY DEF ReadsSubject
  <2>. QED  BY <2>1, NodesAreFetched, FieldsReadBack DEF ReadsSubject
<1>7. ElementOf(f).facets = e.facets
  <2>1. CASE f.members # "facet"
    BY <2>1, ElementFields DEF MayRead, Accepts
  <2>2. CASE f.members = "facet"
    <3>1. PICK facets : facets = e.facets
      OBVIOUS
    <3>2. DOMAIN facets = DOMAIN rows
      BY <1>1, <2>2, <3>1 DEF MayRead, Accepts
    <3>3. facets = [i \in DOMAIN facets |-> facets[i]]
      <4>1. PairList(facets)
        BY <3>1 DEF MayRead, WellFormed
      <4>. QED  BY <4>1 DEF PairList
    <3>4. \A i \in DOMAIN rows : Tail(FacetOf(The(cells[i], "rdf:first"))) = facets[i]
      <4>1. HasList(f) \/ DOMAIN rows = {}
        <5>1. HasList(f) \/ rows = <<>>
          BY <1>1, SameShape, Zenon DEF HasList, MayRead, WellFormed
        <5>. QED  BY <5>1
      <4>. QED  BY <1>1, <1>2, <2>2, <3>1, <4>1, AnchorsReadBack
    <3>5. FacetRows(cells) = facets
      BY <1>2, <3>2, <3>3, <3>4 DEF FacetRows
    <3>. QED  BY <1>1, <2>2, <3>1, <3>5, ElementFields
  <2>. QED  BY <2>1, <2>2
<1>8. ElementOf(f) = Element(e.kind, e.name, e.nodes, e.rows, e.facets)
  <2>1. PICK g : g = ElementOf(f)
    OBVIOUS
  <2>2. g.kind = e.kind /\ g.name = e.name /\ g.nodes = e.nodes /\ g.rows = e.rows
        /\ g.facets = e.facets
    BY <1>1, <1>2, <1>6, <1>7, <2>1, ElementFields DEF MayRead
  <2>3. g = Element(g.kind, g.name, g.nodes, g.rows, g.facets)
    BY <2>1, IsAnElement
  <2>. QED  BY <2>1, <2>2, <2>3
<1>. QED  BY <1>5, <1>8 DEF MayRead, WellFormed

\* What it took are the triples the element is written as.
LEMMA SubjectClaims ==
  ASSUME GraphOK, NEW f, NEW e, ReadsSubject(f), MayRead(f, e), SaidAlone(e)
  PROVE  Claims(f) = AsTriples(e)
<1>1. ~Unreadable(f) /\ ElementOf(f) = e
  BY SubjectReadBack
<1>2. General(e.kind) /\ f.list = Shape[e.kind].list
  BY SameShape
<1>3. AsTriples(e) = TypeTriples(f) \cup Owned(e) \cup FieldTriples(f)
  BY <1>1, <1>2, GeneralAsTriples, SubjectParts
<1>4. f.take = {}
  BY DEF ReadsSubject
<1>5. CASE HasList(f)
  <2>1. Spelled(f.list) = f.list
    <3>1. PICK kind : kind = e.kind /\ kind = f.kind
      BY DEF MayRead
    <3>2. Spelled(f.list) = Shape[kind].list
      BY <3>1 DEF ReadsSubject, Fits
    <3>. QED  BY <1>2, <3>1, <3>2
  <2>2. Owned(e) = {HeadTriple(f)} \cup CellTriples(CellsOf(f)) \cup AnchorTriples(f)
    BY <1>1, <1>5, <2>1, SubjectOwns DEF HeadTriple
  <2>. QED  BY <1>3, <1>4, <1>5, <2>2, ClaimsAre
<1>6. CASE ~HasList(f)
  <2>1. Owned(e) = {} /\ CellTriples(CellsOf(f)) = {} /\ AnchorTriples(f) = {}
    BY <1>1, <1>6, NothingOwned
  <2>. QED  BY <1>3, <1>4, <1>6, <2>1, ClaimsAre
<1>. QED  BY <1>5, <1>6

\* The fields that are read in one triple are the fields of the element.
LEMMA FieldsAreKept ==
  ASSUME NEW f, ReadsTriple(f), NEW S, f.fields \in Seq(S)
  PROVE  ElementOf(f).nodes = f.fields
<1>1. PICK fields, fetched : fields = f.fields /\ fetched = Fetched(f)
  OBVIOUS
<1>2. DOMAIN fetched = {} /\ fetched = [i \in {} |-> 0]
  BY <1>1 DEF Fetched, ReadsTriple
<1>3. fetched = <<>>
  BY <1>2
<1>4. fields \o fetched = fields
  BY <1>1, <1>3, ConcatEmptySeq
<1>. QED  BY <1>1, <1>4, ElementFields

\* One that is written as one triple has the fields that the triple says,
LEMMA TripleFields ==
  ASSUME GraphOK, NEW f, NEW e, ReadsTriple(f), MayRead(f, e), f.take \subseteq AsTriples(e)
  PROVE  ElementOf(f).nodes = e.nodes /\ Shape[e.kind].list = ""
<1>1. PICK kind, name, nodes : kind = e.kind /\ name = e.name /\ nodes = e.nodes
  OBVIOUS
<1>2. kind = f.kind /\ name = f.name /\ DOMAIN nodes = DOMAIN Shape[kind].nodes
      /\ nodes = [i \in DOMAIN nodes |-> nodes[i]]
  BY <1>1 DEF MayRead, WellFormed
<1>3. PICK t \in graph :
        /\ f.take = {t} /\ f.name = t[1]
        /\ \/ Fits(f.kind, "", "", <<t[2]>>) /\ f.fields = <<t[3]>>
           \/ Fits(f.kind, t[3], "", <<>>) /\ t[3] # "" /\ t[2] = "rdf:type" /\ f.fields = <<>>
           \/ /\ f.kind \in DOMAIN AssertionShapes /\ f.fields = <<t[2], t[3]>>
              /\ Shape[f.kind].type = "" /\ Shape[f.kind].list = ""
  BY DEF ReadsTriple
<1>4. t \in AsTriples(e)
  BY <1>3
<1>5. PICK p, v : p = t[2] /\ v = t[3]
  OBVIOUS
<1>6. CASE Fits(f.kind, "", "", <<t[2]>>) /\ f.fields = <<t[3]>>
  <2>1. PICK preds : preds = <<p>>
    OBVIOUS
  <2>2. Fits(kind, "", "", preds)
    BY <1>2, <1>5, <1>6, <2>1, Zenon
  <2>3. General(kind) /\ Shape[kind].type = "" /\ Shape[kind].list = ""
    BY <2>2 DEF Fits
  <2>0. DOMAIN nodes = {1}
    <3>1. DOMAIN nodes = DOMAIN preds
      BY <1>2, <2>2, Zenon DEF Fits
    <3>. QED  BY <2>1, <3>1
  <2>4. AsTriples(e) = FieldsOf(e)
    BY <1>1, <2>3, GeneralAsTriples DEF Typing, Owned
  <2>5. t[3] = nodes[1]
    <3>1. PICK q : q = Shape[kind].nodes[1][1]
      OBVIOUS
    <3>2. t = <<name, q, nodes[1]>>
      BY <1>1, <1>4, <2>0, <2>4, <3>1 DEF FieldsOf
    <3>. QED  BY <3>2
  <2>6. f.fields = <<v>> /\ <<v>> \in Seq({v})
    <3>1. <<v>> \in Seq({v})
      OBVIOUS
    <3>. QED  BY <1>5, <1>6, <3>1
  <2>7. ElementOf(f).nodes = <<v>>
    <3>1. f.fields \in Seq({v})
      BY <2>6
    <3>. QED  BY <2>6, <3>1, FieldsAreKept
  <2>8. nodes = <<v>>
    <3>1. nodes = [i \in {1} |-> v]
      BY <1>2, <1>5, <2>0, <2>5
    <3>. QED  BY <3>1
  <2>. QED  BY <1>1, <2>3, <2>7, <2>8
<1>7. CASE Fits(f.kind, t[3], "", <<>>) /\ t[3] # "" /\ t[2] = "rdf:type" /\ f.fields = <<>>
  <2>0. PICK preds : preds = <<>>
    OBVIOUS
  <2>1. Fits(kind, v, "", preds)
    BY <1>2, <1>5, <1>7, <2>0, Zenon
  <2>2. nodes = <<>>
    <3>1. DOMAIN nodes = DOMAIN preds
      BY <1>2, <2>1, Zenon DEF Fits
    <3>2. nodes = [i \in {} |-> 0]
      BY <1>2, <2>0, <3>1
    <3>. QED  BY <3>2
  <2>3. ElementOf(f).nodes = <<>>
    <3>1. <<>> \in Seq({v})
      OBVIOUS
    <3>2. f.fields \in Seq({v})
      BY <1>7, <3>1
    <3>. QED  BY <1>7, <3>2, FieldsAreKept
  <2>4. Shape[kind].list = ""
    BY <2>1 DEF Fits
  <2>. QED  BY <1>1, <2>2, <2>3, <2>4
<1>8. CASE /\ f.kind \in DOMAIN AssertionShapes /\ f.fields = <<t[2], t[3]>>
           /\ Shape[f.kind].type = "" /\ Shape[f.kind].list = ""
  <2>1. kind \in DOMAIN AssertionShapes /\ Shape[kind].type = "" /\ Shape[kind].list = ""
    BY <1>2, <1>8
  <2>2. DOMAIN nodes = 1 .. 2
    BY <1>2, <2>1, AssertionFit DEF AssertionShapes
  <2>3. AsTriples(e) = {<<name, nodes[1], nodes[2]>>}
    BY <1>1, <2>1 DEF AsTriples
  <2>4. t[2] = nodes[1] /\ t[3] = nodes[2]
    BY <1>4, <2>3
  <2>5. <<p, v>> \in Seq({p, v})
    OBVIOUS
  <2>6. f.fields = <<p, v>>
    BY <1>5, <1>8
  <2>7. ElementOf(f).nodes = <<p, v>>
    <3>1. f.fields \in Seq({p, v})
      BY <2>5, <2>6
    <3>. QED  BY <2>6, <3>1, FieldsAreKept
  <2>8. nodes = <<p, v>>
    BY <1>2, <1>5, <2>2, <2>4
  <2>. QED  BY <1>1, <2>1, <2>7, <2>8
<1>. QED  BY <1>3, <1>6, <1>7, <1>8

\* and is read as it was written.
LEMMA TripleReadBack ==
  ASSUME GraphOK, NEW f, NEW e, ReadsTriple(f), MayRead(f, e), f.take \subseteq AsTriples(e)
  PROVE  ~Unreadable(f) /\ ElementOf(f) = e /\ Claims(f) = AsTriples(e)
<1>1. ~HasList(f) /\ DOMAIN f.fetch = {} /\ f.members # "facet" /\ f.kind # "DifferentIndividualsNary"
  BY DEF ReadsTriple, HasList
<1>2. ~Unreadable(f)
  BY <1>1 DEF Unreadable, MayRead
<1>3. ElementOf(f).rows = <<>>
  <2>1. PICK cells : cells = CellsOf(f)
    OBVIOUS
  <2>2. cells = <<>>
    BY <1>1, <2>1 DEF CellsOf
  <2>3. RowsOf(cells) = [i \in {} |-> 0]
    <3>1. DOMAIN cells = {}
      BY <2>2
    <3>. QED  BY <3>1 DEF RowsOf
  <2>4. RowsOf(cells) = <<>>
    BY <2>3
  <2>. QED  BY <2>1, <2>4, ElementFields
<1>4. ElementOf(f).facets = <<>>
  BY <1>1, ElementFields
<1>5. e.rows = <<>>
  BY TripleFields, Zenon DEF MayRead, WellFormed
<1>6. e.facets = <<>>
  BY <1>1 DEF MayRead, Accepts
<1>7. ElementOf(f) = e
  <2>1. PICK g : g = ElementOf(f)
    OBVIOUS
  <2>2. g.kind = e.kind /\ g.name = e.name
    BY <2>1, ElementFields DEF MayRead
  <2>3. g.nodes = e.nodes /\ g.rows = e.rows /\ g.facets = e.facets
    BY <1>3, <1>4, <1>5, <1>6, <2>1, TripleFields
  <2>4. g = Element(g.kind, g.name, g.nodes, g.rows, g.facets)
    BY <2>1, IsAnElement
  <2>5. e = Element(e.kind, e.name, e.nodes, e.rows, e.facets)
    BY DEF MayRead, WellFormed
  <2>. QED  BY <2>1, <2>2, <2>3, <2>4, <2>5
<1>8. Claims(f) = AsTriples(e)
  <2>1. AsTriples(e) = Spelling(f.kind, Claims(f))
    BY <1>7, TripleWritten
  <2>. QED  BY <1>1, <2>1 DEF Spelling
<1>. QED  BY <1>2, <1>7, <1>8

\* What an ontology was written as is lifted into what it was written from: when the
\* pass that looks for an element of this kind comes to its name (or to its triple),
\* does not leave it alone, and accepts the types of its fields and members, then it adds
\* this element and takes exactly the triples that as_triples wrote for it, provided that
\* the graph says all of it, gives its fields, its list and its facets no second value,
\* and no other element has taken a part of it.  This is RoundTrip for each element; that
\* the order of the passes keeps every part free until its element's turn is left to it.
THEOREM WrittenElementsAreReadBack ==
  ASSUME LiftInv, NEW x \in todo, NEW e, NEW f, f = Reading(Passes[pass], x),
         MayRead(f, e), ~f.skip, ~f.late, f.take \subseteq AsTriples(e),
         f.take = {} => SaidAlone(e)
  PROVE  /\ Verdict(f) = "element"
         /\ ElementOf(f) = e /\ Claims(f) = AsTriples(e)
<1>1. GraphOK
  BY InputsAreGraphs
<1>2. pass \in 1 .. Len(Passes) /\ Visits(Passes[pass], x)
  BY DEF LiftInv, TodoOK
<1>3. PICK r : r = Passes[pass]
  OBVIOUS
<1>4. RowOK(r) /\ Visits(r, x) /\ f = Reading(r, x)
  BY <1>2, <1>3, PassesOK
<1>5. ReadsSubject(f) \/ ReadsTriple(f)
  BY <1>1, <1>4, ReadingsFit
<1>6. ~Unreadable(f) /\ ElementOf(f) = e /\ Claims(f) = AsTriples(e)
  <2>1. CASE ReadsSubject(f)
    <3>1. SaidAlone(e)
      BY <2>1 DEF ReadsSubject
    <3>. QED  BY <1>1, <2>1, <3>1, SubjectReadBack, SubjectClaims
  <2>2. CASE ReadsTriple(f)
    BY <1>1, <2>2, TripleReadBack
  <2>. QED  BY <1>5, <2>1, <2>2
<1>7. Valid(e) /\ ~Overlaps(f)
  BY <1>6 DEF MayRead, WellFormed, Overlaps
<1>8. Verdict(f) = "element"
  BY <1>6, <1>7 DEF Verdict
<1>. QED  BY <1>6, <1>8
=============================================================================
