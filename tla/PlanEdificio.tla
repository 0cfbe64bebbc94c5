--------------------------- MODULE PlanEdificio ---------------------------
(***************************************************************************)
(* What lies behind the door of a building of the city view: the plan that *)
(* umbral.js draws up from the pieces of the catalogue.  Lengths are whole *)
(* centimetres in the building's own frame (x along the facade, z towards  *)
(* the street, y up).                                                      *)
(***************************************************************************)
EXTENDS Integers, Sequences, FiniteSetsExt, SequencesExt

CONSTANT Nada          \* the JavaScript null

(* null is not the place of a flat.                                          *)
ASSUME NadaNoEsSitio == Nada \notin [planta : Nat, slot : Nat]

Acota(v, a, b) == IF v < a THEN a ELSE IF v > b THEN b ELSE v
Techo(a, b) == (a + b - 1) \div b
Dist(a, b) == IF a < b THEN b - a ELSE a - b
Mayor(a, b) == IF a > b THEN a ELSE b
Menor(a, b) == IF a < b THEN a ELSE b

AltoPlanta == 360
FachadaPorUnidad == 1100
MinHuecoUnidad == 740
TramoMinimo == 750

(***************************************************************************)
(* Pieces are boxes [x0, x1, z0, z1, y0, y1].  A body is a piece that      *)
(* stands on the ground slab and has room inside.                          *)
(***************************************************************************)
EsCuerpo(p, suelo) == /\ p.y0 <= suelo /\ p.y1 - p.y0 >= 600
                      /\ p.x1 - p.x0 >= 500 /\ p.z1 - p.z0 >= 500
Cuerpos(ed) == {i \in DOMAIN ed.piezas : EsCuerpo(ed.piezas[i], ed.suelo)}

(* The first of a set of pieces that is least by the measure m. *)
Primero(S, m(_)) == CHOOSE i \in S : \A j \in S : m(i) < m(j) \/ (m(i) = m(j) /\ i <= j)

(* The body of the door: the first whose facade holds it, else the nearest,  *)
(* else a made-up one.                                                       *)
CuerpoPuerta(ed) ==
  LET C == Cuerpos(ed)
      P(i) == ed.piezas[i]
      EnFachada == {i \in C : Dist(P(i).z1, ed.zf) < 60 /\ P(i).x0 <= ed.px /\ ed.px <= P(i).x1}
      Lejos(i) == Dist(P(i).z1, ed.zf) + Dist(Acota(ed.px, P(i).x0, P(i).x1), ed.px)
  IN IF EnFachada # {} THEN P(Min(EnFachada))
     ELSE IF C # {} THEN P(Primero(C, Lejos))
     ELSE [x0 |-> ed.px - 600, x1 |-> ed.px + 600, z0 |-> ed.zf - 1200, z1 |-> ed.zf,
           y0 |-> 0, y1 |-> ed.suelo + 400]

(* The tall body, where the flats go: the highest, and of equals the one     *)
(* nearest to the door.                                                      *)
IndiceAlto(ed) ==
  LET P(i) == ed.piezas[i]
      Altos == {i \in Cuerpos(ed) : \A j \in Cuerpos(ed) : P(j).y1 <= P(i).y1}
      Lado(i) == Dist(P(i).x0 + P(i).x1, 2 * ed.px)
  IN IF Altos = {} THEN 0 ELSE Primero(Altos, Lado)
CuerpoAlto(ed) == IF IndiceAlto(ed) = 0 THEN CuerpoPuerta(ed) ELSE ed.piezas[IndiceAlto(ed)]

(* What stands in front of the tall body B at the height of a floor that     *)
(* begins at yb.                                                             *)
Delante(ed, B, yb) ==
  LET Tapa(o) == /\ o.z1 > B.z1 + 5 /\ o.z0 < B.z1 + 120
                 /\ o.y0 < yb + 260 /\ o.y1 > yb + 60
                 /\ o.x0 < B.x1 /\ o.x1 > B.x0
  IN {ed.piezas[i] : i \in {k \in DOMAIN ed.piezas \ {IndiceAlto(ed)} : Tapa(ed.piezas[k])}}

(* The stretch of B's facade around the door that D leaves free, if a flat   *)
(* fits in it.                                                               *)
Despejado(B, px, D) ==
  LET ancla == Acota(px, B.x0 + 400, B.x1 - 400)
      a == Max({B.x0} \cup {o.x1 : o \in {q \in D : q.x1 <= ancla}})
      b == Min({B.x1} \cup {o.x0 : o \in {q \in D : q.x1 > ancla}})
  IN IF (\E o \in D : o.x0 < ancla /\ ancla < o.x1) \/ b - a < TramoMinimo THEN Nada ELSE <<a, b>>
TramoLibre(ed, yb) == Despejado(CuerpoAlto(ed), ed.px, Delante(ed, CuerpoAlto(ed), yb))

AltoZaguan(tipo) == CASE tipo = "concesionario" -> 520 [] tipo = "hotel" -> 420 [] OTHER -> 340

TipoInterior(ed) ==
  CASE ~ed.parcela -> (CASE ed.arch = "villas" -> "villa" [] ed.arch = "warehouses" -> "nave" [] OTHER -> "torre")
    [] ed.arch \in {"hotel", "concesionario"} -> ed.arch
    [] ed.arch \in {"industria", "solar", "agua", "granja", "taxi"} -> "nave"
    [] OTHER -> "torre"

Subiendo(V) == [i \in 1..Cardinality(V) |-> CHOOSE k \in V : Cardinality({j \in V : j < k}) = i - 1]

(* The floors between the top of the hall and the top of the tall body whose *)
(* facade is free, each with its stretch.                                    *)
PlantasEntre(suelo, alto, top) ==
  {k \in 1..199 : suelo + AltoPlanta * (k + 1) <= top /\ AltoPlanta * k >= alto + 40}
TramosLibres(ed) ==
  [k \in {q \in PlantasEntre(ed.suelo, AltoZaguan(TipoInterior(ed)), CuerpoAlto(ed).y1 - 150) :
            TramoLibre(ed, ed.suelo + AltoPlanta * q) # Nada} |-> TramoLibre(ed, ed.suelo + AltoPlanta * k)]

(* One stretch that serves all the floors: what they share or, when that is  *)
(* too short for a flat, the highest floor's, and then only the floors that  *)
(* contain it.                                                               *)
ElDeLaAlta(T) == [plantas |-> Subiendo(DOMAIN T), fx0 |-> T[Max(DOMAIN T)][1], fx1 |-> T[Max(DOMAIN T)][2]]
UnSoloTramo(T) ==
  LET V == DOMAIN T
      fa == Max({T[k][1] : k \in V})
      fb == Min({T[k][2] : k \in V})
      alta == T[Max(V)]
  IN IF fb - fa >= TramoMinimo
     THEN [plantas |-> Subiendo(V), fx0 |-> fa, fx1 |-> fb]
     ELSE [plantas |-> Subiendo({k \in V : T[k][1] <= alta[1] /\ T[k][2] >= alta[2]}),
           fx0 |-> alta[1], fx1 |-> alta[2]]
Reparto(T) == IF DOMAIN T = {} THEN [plantas |-> <<>>, fx0 |-> 0, fx1 |-> 0] ELSE UnSoloTramo(T)

(* Flats per floor: by the width of the facade, squeezed when the parcel is  *)
(* divided into more.                                                        *)
UnidadesPorPlanta(fx, n, U) ==
  LET base == Acota((fx - 100) \div FachadaPorUnidad, 1, 4)
  IN IF U > n * base
     THEN Menor(Mayor(base, (fx - 100) \div MinHuecoUnidad), Techo(U, n))
     ELSE base

PlanPisos(r, U) ==
  [plantas |-> r.plantas, fx0 |-> r.fx0, fx1 |-> r.fx1,
   upp |-> UnidadesPorPlanta(r.fx1 - r.fx0, Len(r.plantas), U)]

(* A tower that is too low for a flat is a house on the ground floor. *)
TipoFinal(tipo, plantas) == IF tipo \in {"torre", "hotel", "concesionario"} /\ plantas = <<>> THEN "villa" ELSE tipo

(* The lift is in front of the free stretch and the hall reaches it. *)
Ascensor(ed, r) == Acota(ed.px, r.fx0 + 160, r.fx1 - 160)
FondoExpoFijo(ed, ancho, coches, muestra) ==
  LET n == IF coches = 0 THEN muestra ELSE Menor(coches, 12)
  IN [n |-> n, porFila |-> Techo(n, 2), filas |-> 2, fondo |-> 2000]
FondoExpo(ed, ancho, coches, muestra) ==
  LET n == IF coches = 0 THEN muestra ELSE Menor(coches, 12)
      porFila == Mayor(1, (ancho - 600) \div 600 + 1)
  IN [n |-> n, porFila |-> porFila, filas |-> Techo(n, porFila),
      fondo |-> Mayor(2000, 1060 + (Techo(n, porFila) - 1) * 620)]
Zaguan(ed, r, coches, muestra) ==
  LET B0 == CuerpoPuerta(ed)
      B1 == CuerpoAlto(ed)
      ex == Ascensor(ed, r)
      tipo == TipoInterior(ed)
      ancho == CASE tipo = "concesionario" -> 1700 [] tipo = "hotel" -> 700 [] OTHER -> 340
      a == Mayor(Menor(ed.px - ancho, ex - 240), B0.x0 + 60)
      b == Menor(Mayor(ed.px + ancho, ex + 240), B0.x1 - 60)
      x0 == IF b - a < 500 THEN Menor(ed.px, ex) - 260 ELSE a
      x1 == IF b - a < 500 THEN Mayor(ed.px, ex) + 260 ELSE b
      fondo == CASE tipo = "concesionario" -> FondoExpo(ed, x1 - x0, coches, muestra).fondo
                 [] tipo = "hotel" -> 1200 [] OTHER -> 750
      zA0 == (B1.z1 - 35) - Acota((B1.z1 - B1.z0) - 600, 650, 1050)
      zL0 == Menor(zA0 - 240, ed.zf - 45 - fondo)
  IN [x0 |-> x0, x1 |-> x1, z0 |-> zL0, z1 |-> ed.zf - 45, ex |-> ex, zA0 |-> zA0,
      cab |-> [x0 |-> ex - 95, x1 |-> ex + 95, z0 |-> zL0 - 205, z1 |-> zL0]]

(* Where flat n is, and which flat a place is. `atico` (slot -1) takes the   *)
(* whole floor.                                                              *)
SitioUnidad(plan, n) ==
  LET f == (n - 1) \div plan.upp
  IN IF n < 1 \/ f >= Len(plan.plantas) THEN Nada
     ELSE [planta |-> plan.plantas[f + 1], slot |-> (n - 1) % plan.upp]
NumeroUnidad(plan, planta, slot) ==
  LET F == {f \in DOMAIN plan.plantas : plan.plantas[f] = planta}
  IN IF F # {} /\ slot >= 0 THEN (Min(F) - 1) * plan.upp + slot + 1 ELSE 0

(* The stretch of facade of a flat. *)
Fachada(plan, slot) ==
  LET fx == plan.fx1 - plan.fx0
      Ws == (fx - 100) \div plan.upp
      W == IF slot < 0 THEN Mayor(700, Menor(fx - 140, 1600)) ELSE Mayor(700, Menor(Ws - 40, 1500))
      cx == IF slot < 0 THEN (plan.fx0 + plan.fx1) \div 2
            ELSE plan.fx0 + 50 + ((2 * slot + 1) * Ws) \div 2
  IN <<cx - W \div 2, cx + W \div 2>>

(***************************************************************************)
(* Which flat the visitor is taken to.  A parcel view `pc` says whether it *)
(* is a parcel at all, whose it is, in how many flats it is divided and    *)
(* which of them are the visitor's; `dado` is what the morphology rolls,   *)
(* in quarters.                                                            *)
(***************************************************************************)
Divisiones(pc) == IF pc.parcela THEN pc.unidades ELSE 0
AticoLibre(plan, pc) ==
  pc.parcela /\ (Divisiones(pc) = 0 \/ Techo(Divisiones(pc), plan.upp) < Len(plan.plantas))
EligePiso(plan, pc, dado) ==
  LET v == plan.plantas
      mias == {n \in pc.mias : 1 <= n /\ n <= Divisiones(pc)}
      sitio == IF mias = {} THEN Nada ELSE SitioUnidad(plan, Min(mias))
      nv == IF AticoLibre(plan, pc) /\ Len(v) > 1 THEN Len(v) - 1 ELSE Len(v)
  IN IF pc.dueno = "yo" /\ AticoLibre(plan, pc)
     THEN [clase |-> "atico", planta |-> v[Len(v)], slot |-> -1]
     ELSE IF sitio # Nada THEN [clase |-> "unidad", planta |-> sitio.planta, slot |-> sitio.slot]
     ELSE [clase |-> "muestra", planta |-> v[Menor(nv - 1, (dado[1] * nv) \div 4) + 1],
           slot |-> Menor(plan.upp - 1, (dado[2] * plan.upp) \div 4)]

(* The floor nearest to the one asked for: the visitor's own flat if it is   *)
(* there, else one to look at.                                               *)
PisoEnPlanta(plan, n, actual) ==
  LET v == plan.plantas
      Lejos(i) == Dist(v[i], n)
      k == v[Primero(DOMAIN v, Lejos)]
  IN IF actual.planta = k THEN actual ELSE [clase |-> "muestra", planta |-> k, slot |-> 0]
=============================================================================
