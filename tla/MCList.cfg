SPECIFICATION Spec
CONSTANTS
  NULL = NULL
  l1 = l1
  l2 = l2
  a = a
  b = b
  c = c
  Lists = {l1, l2}
  Items = {a, b, c}
  Corners = {}
INVARIANTS
  TypeOK
  DoublyLinked
  NoDangling
  WalksAgree
PROPERTY
  ImplementsLists
VIEW Rings
