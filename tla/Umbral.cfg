SPECIFICATION Spec
CONSTANTS
  Nada = Nada
  p1 = p1
  b1 = b1
  Parcelas = {p1}
  Barrios = {b1}
  Vistas <- MCVistas
  VistaBarrio <- MCBarrio
  TapadoPor <- MCTapado
  PlanDe <- MCPlan
  Dado <- MCDado
  Colocaciones = {0, 1}
  MaxArregladas = 1
INVARIANTS
  NoHouseOutsideWalk
  LiftIsAtTheLanding
  FurnitureIsKept
  SelectionIsOfThisRoom
PROPERTIES
  FramesKeepVisitorInside
  SetCityLeavesNoStaleHouse
  GuidedWalksEnd
