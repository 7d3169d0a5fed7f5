------------------------ MODULE MCSemanticValidation ------------------------
(***************************************************************************)
(* Instance of SemanticValidation: two fields and a name no schema has,    *)
(* two concepts, one relation and the one triple over it that matters.     *)
(***************************************************************************)
EXTENDS SemanticValidation

CONSTANTS a, b, other, c, d, measures

MCSemantics ==
  { [concept |-> c, relations |-> << >>],
    [concept |-> c, relations |-> << [relation |-> measures, target |-> d] >>] }

MCPermissible == {<< c, measures, d >>}

MCSchemas == { << a, b >>, << b >> }

MCDocuments == { {}, {a}, {a, b, other} }
=============================================================================
