SPECIFICATION Spec
CONSTANTS
  Precision = 4
  Infinity = 9
  First <- MCFirst
  Rest <- MCRest
  ValueOf <- MCValueOf
  Decimal <- MCDecimal
  MaxU32 = 3
  Texts <- MCTexts
  Parts <- MCParts
  FieldLists <- MCFieldLists
  MaxPublished = 2
INVARIANT HashIdentifiesStructure
INVARIANT EqualHashIsCompatible
INVARIANT PrintedIdentity
INVARIANT GrammarsAgree
CHECK_DEADLOCK FALSE
