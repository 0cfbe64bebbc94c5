----------------------------- MODULE MCUmbral -----------------------------
(* One parcel that may be a tower (whole, or divided and of one owner or     *)
(* another), an empty lot or nothing, and one villa of a quarter that the    *)
(* parcel hides.                                                             *)
EXTENDS Umbral, TLC
CONSTANTS p1, b1

MCVista(arch, alto, dueno, U, mias) ==
  [parcela |-> TRUE, arch |-> arch, alto |-> alto, dueno |-> dueno, unidades |-> U, mias |-> mias]
MCVistas == {MCVista("torre", 2, "yo", 0, {}), MCVista("torre", 2, "otro", 2, {1}),
             MCVista("torre", 2, "yo", 2, {}), MCVista("solar", 0, "otro", 0, {})}
MCBarrio == [parcela |-> FALSE, arch |-> "villas", alto |-> 0, dueno |-> "nadie", unidades |-> 0, mias |-> {}]
MCPlan(pc) ==
  LET plantas == IF pc.alto = 2 THEN <<1, 3>> ELSE <<>>
      tipo == TipoFinal(TipoInterior(pc), plantas)
  IN [tipo |-> tipo, plantas |-> plantas,
      upp |-> IF plantas = <<>> THEN 1 ELSE UnidadesPorPlanta(1500, Len(plantas), Divisiones(pc))]
MCTapado == b1 :> p1
MCDado == <<1, 2>>
=============================================================================
