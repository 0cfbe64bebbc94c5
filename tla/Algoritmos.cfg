SPECIFICATION Spec
CONSTANTS
  Nada = Nada
  Lineas <- MCLineas
  Casos <- MCCasos
INVARIANTS TrainsKeepApart DoorsAreNotWalledUp FlatsHaveAFreeFacade ShowroomKeepsClear RoutesAndTurnsKeepClear
PROPERTY TrainsNeverJump
CHECK_DEADLOCK FALSE
