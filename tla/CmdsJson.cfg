SPECIFICATION Spec
CONSTANTS
  Conns = {t1, t2}
  Structs = {a, b}
  Null = Null
  Asked = 2
  Changes = 1
INVARIANTS TypeOK ListIsAlive
PROPERTIES AnswersInOrder ClientIsTold
CHECK_DEADLOCK FALSE
