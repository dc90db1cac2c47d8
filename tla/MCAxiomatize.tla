---------------------------- MODULE MCAxiomatize ----------------------------
(* Small ontologies for Axiomatize: one element of every kind and role, their  *)
(* pairs, and the same graphs with a triple missing or a triple too many.      *)
EXTENDS Axiomatize

MCCounts   == {"2"}
MCLiterals == {"2", "lit", True}

N(r) == ToString(r)
MCBlanks == UNION {{"_:x" \o N(r), "_:a" \o N(r), "_:b" \o N(r), "_:c" \o N(r), "_:p" \o N(r)} : r \in 1..2}

\* A list of n values in cells of role r.
Rows(r, values) ==
  LET cell == <<"_:a" \o N(r), "_:b" \o N(r), "_:c" \o N(r)>>
  IN [i \in DOMAIN values |-> <<cell[i], values[i]>>]

Plain(kind, name, nodes)     == Element(kind, name, nodes, <<>>, <<>>)
Owning(kind, name, values, r) == Element(kind, name, <<>>, Rows(r, values), <<>>)

Blank(r) == "_:x" \o N(r)
Prop(r)  == "p" \o N(r)

Declarations ==
  {Plain("DeclarationClass", "C", <<>>), Plain("DeclarationObjectProperty", "p", <<>>),
   Plain("DeclarationDataProperty", "d", <<>>)}

\* An element of each kind over the declared names C, p and d.
Example(kind, r) ==
  LET s == Blank(r)
      onP(nodes) == Plain(kind, s, <<"p">> \o nodes)
      onD(nodes) == Plain(kind, s, <<"d">> \o nodes)
  IN CASE kind \in {"ObjectIntersectionOf", "ObjectUnionOf"} -> Owning(kind, s, <<"C", "C">>, r)
       [] kind \in {"DataIntersectionOf", "DataUnionOf"} -> Owning(kind, s, <<"D", "D">>, r)
       [] kind \in {"ObjectComplementOf"}   -> Plain(kind, s, <<"C">>)
       [] kind \in {"DataComplementOf"}     -> Plain(kind, s, <<"D">>)
       [] kind = "ObjectOneOf"              -> Owning(kind, s, <<"i">>, r)
       [] kind = "DataOneOf"                -> Owning(kind, s, <<"lit">>, r)
       [] kind = "DatatypeRestriction"      ->
            Element(kind, s, <<"D">>, Rows(r, <<"_:p" \o N(r)>>), <<<<"min", "2">>>>)
       [] kind \in {"ObjectSomeValuesFrom", "ObjectAllValuesFrom"} -> onP(<<"C">>)
       [] kind \in {"DataSomeValuesFrom", "DataAllValuesFrom"}     -> onD(<<"D">>)
       [] kind \in Nary -> Element(kind, s, <<"D">>, Rows(r, <<"d", "d">>), <<>>)
       [] kind = "ObjectHasValue" -> onP(<<"i">>)
       [] kind = "DataHasValue"   -> onD(<<"lit">>)
       [] kind = "ObjectHasSelf"  -> onP(<<True>>)
       [] kind \in DOMAIN ObjectCardinalityShapes \cup DOMAIN ObjectExactCardinalityShapes ->
            onP(IF Len(Shape[kind].nodes) = 2 THEN <<"2">> ELSE <<"2", "C">>)
       [] kind \in DOMAIN DataCardinalityShapes \cup DOMAIN DataExactCardinalityShapes ->
            onD(IF Len(Shape[kind].nodes) = 2 THEN <<"2">> ELSE <<"2", "D">>)
       [] kind \in {"ObjectInverseOf"}      -> Plain(kind, s, <<"p">>)
       [] kind = "InverseObjectProperties"  -> Plain(kind, Prop(r), <<"p">>)
       [] kind = "DisjointUnion"            -> Owning(kind, "U" \o N(r), <<"C", "C">>, r)
       [] kind = "HasKey"                   -> Owning(kind, "C", <<"p">>, r)
       [] kind = "SubObjectPropertyOfChain" -> Owning(kind, Prop(r), <<"p", "p">>, r)
       [] kind = "DisjointClassesNary"      -> Owning(kind, s, <<"C", "C", "E">>, r)
       [] kind = "DifferentIndividualsNary" -> Owning(kind, s, <<"i", "j", "i">>, r)
       [] kind = "DisjointObjectPropertiesNary" -> Owning(kind, s, <<"p", "p", "d">>, r)
       [] kind = "DisjointDataPropertiesNary"   -> Owning(kind, s, <<"d", "d", "d">>, r)
       [] kind \in {"SubClassOf", "EquivalentClasses", "DisjointClasses"} -> Plain(kind, "E" \o N(r), <<"C">>)
       [] kind = "ClassAssertion"     -> Plain(kind, "i" \o N(r), <<"C">>)
       [] kind = "DatatypeDefinition" -> Plain(kind, "D", <<"F" \o N(r)>>)
       [] kind \in {"SubObjectPropertyOf", "EquivalentObjectProperties", "DisjointObjectProperties"} ->
            Plain(kind, Prop(r), <<"p">>)
       [] kind \in {"SubDataPropertyOf", "EquivalentDataProperties", "DisjointDataProperties"} ->
            Plain(kind, "d", <<"e" \o N(r)>>)
       [] kind \in {"ObjectPropertyDomain", "ObjectPropertyRange"} -> Plain(kind, "p", <<"C" \o N(r)>>)
       [] kind \in {"DataPropertyDomain", "DataPropertyRange"} -> Plain(kind, "d", <<"C" \o N(r)>>)
       [] kind = "ObjectPropertyAssertion" -> Plain(kind, "i", <<"p", "i" \o N(r)>>)
       [] kind = "DataPropertyAssertion"   -> Plain(kind, "i" \o N(r), <<"d", "lit">>)
       [] kind = "NegativeObjectPropertyAssertion" -> Plain(kind, s, <<"p", "i", "j">>)
       [] kind = "NegativeDataPropertyAssertion"   -> Plain(kind, s, <<"d", "i", "lit">>)
       [] kind \in {"DifferentIndividuals", "SameIndividual"} -> Plain(kind, "i", <<"i" \o N(r)>>)
       [] kind = "FunctionalDataProperty" -> Plain(kind, "d", <<>>)
       [] kind \in DOMAIN CharacteristicShapes \ {"FunctionalDataProperty"} -> Plain(kind, "q" \o N(r), <<>>)
       [] kind = "DeclarationDatatype" -> Plain(kind, "D", <<>>)
       [] kind \in {"DeclarationClass", "DeclarationObjectProperty", "DeclarationDataProperty",
                    "DeclarationAnnotationProperty", "NamedIndividual"} ->
            Plain(kind, "n" \o N(r), <<>>)

Written(ontology) == UNION {AsTriples(e) : e \in ontology}

\* The elements share no triple, and no node owns two lists of one kind (see Repeated).
Apart(ontology) ==
  \A e, d \in ontology : e # d =>
    /\ AsTriples(e) \cap AsTriples(d) = {}
    /\ ~(e.name = d.name /\ e.kind = d.kind /\ Shape[e.kind].list # "")

Sound(ontology)  == [graph |-> Written(ontology), from |-> ontology]
Damaged(triples) == [graph |-> triples, from |-> {}]

Datatypes == {Plain("DeclarationDatatype", "D", <<>>)}
Context   == Declarations \cup Datatypes

\* Every two kinds side by side.
Whole == {o \in {Context \cup {Example(k, 1), Example(l, 2)} : k \in Kinds, l \in Kinds} : Apart(o)}

\* Assertions about the expressions other elements name.
Expressions == DOMAIN ClassExpressionShapes \cup {"ObjectOneOf"} \cup ObjectRestrictions
Asserted(kinds) ==
  {Context \cup {Example(k, 1), Plain("ClassAssertion", "i", <<"_:x1">>)} : k \in kinds}
Inverted == Context \cup {Example("ObjectInverseOf", 1),
                         Plain("ObjectPropertyAssertion", "i", <<"_:x1", "j">>),
                         Plain("NegativeObjectPropertyAssertion", "_:x2", <<"_:x1", "i", "j">>)}

\* The one legacy spelling the code reads.
Legacy ==
  LET o == Context \cup {Example("DifferentIndividualsNary", 1)}
  IN [graph |-> {IF t[2] = "owl:members" THEN <<t[1], "owl:distinctMembers", t[3]>> ELSE t : t \in Written(o)},
      from  |-> o]

\* A triple lost, or one more object for a subject and predicate of the element.
Short == UNION {{Written(Context \cup {Example(k, 1)}) \ {t} : t \in AsTriples(Example(k, 1))} : k \in Kinds}
Long  == UNION {{Written(Context \cup {Example(k, 1)}) \cup {<<t[1], t[2], o>>} :
                    t \in AsTriples(Example(k, 1)), o \in {"lit", "_:b1"}} : k \in Kinds}

\* Two elements over one node or one list, and names nothing has declared.
Shared == {Written({Example(k, 1)} \cup {[Example(l, 2) EXCEPT !.name = "_:x1"]}) :
             k \in Kinds, l \in {"ObjectHasSelf", "DataOneOf", "SubClassOf"}}
Bare   == {Written({Example(k, 1)}) : k \in Kinds}

\* What the passes do not read back: two keys of one class, two chains under one
\* property, two partitions of a class; assertions to data restrictions.
Repeated == {Written(Declarations \cup {[Example(k, r) EXCEPT !.name = "C"] : r \in 1..2}) :
               k \in {"HasKey", "SubObjectPropertyOfChain", "DisjointUnion"}}
Unread   == Repeated \cup {Written(o) : o \in Asserted(DataRestrictions)}

MCInputs ==
  {Sound(o) : o \in Whole \cup Asserted(Expressions) \cup {Inverted}} \cup {Legacy}
    \cup {Damaged(g) : g \in Short \cup Long \cup Shared \cup Bare \cup Unread}
=============================================================================
