\* Seven row ids, inserted in every order and more than once.
SPECIFICATION Spec
CONSTANT
  Modulus = 8
INVARIANTS
  TypeOK
  InOrder
PROPERTY
  ImplementsPointSet
