--------------------------- MODULE MCAlgoritmos ---------------------------
(***************************************************************************)
(* The computations of the city view that are functions of their input:    *)
(* each initial state is one input.  The metro then runs through its       *)
(* cycle; a building or a street is looked at where it is.                 *)
(***************************************************************************)
EXTENDS Metro, Piso

SinLinea == Horario([i \in 0..2 |-> i * 150000])
SinCaso == [clase |-> "nada"]

(* The shortest line, two whose cycle is half an interval over a whole       *)
(* number of trains (the least distance between trains), two with rounding   *)
(* of the number of stations, with and without a site.                       *)
MCLineas ==
  LET W(L, v) == [L |-> L, vetos |-> v]
  IN {W(250000, {}), W(630000, {}), W(625000, {<<0, 20000>>, <<140000, 190000>>}),
      W(375000, {<<70000, 170000>>, <<226000, 300000>>}), W(376000, {<<50000, 330000>>})}

MCDados == [s : {56, 61, 65}, df : {56, 64}, espejo : BOOLEAN, camaIzq : BOOLEAN, nPlantas : {2, 3}]
MCPlanes == [plantas : {<<1>>}, upp : {1, 2}, fx0 : {-375, -800}, fx1 : {375, 800}]
MCCasos ==
  LET Calle == [calzada |-> 1000, acera |-> 240, rango |-> 10]
      Secundaria == [calzada |-> 1500, acera |-> 300, rango |-> 1015]
      Troncal == [calzada |-> 4200, acera |-> 500, rango |-> 3042]
      Pieza(xa, xb, za, zb, alto) == [x0 |-> xa, x1 |-> xb, z0 |-> za, z1 |-> zb, y0 |-> 0, y1 |-> alto]
      (* a tower behind a podium, with a wing in front of part of it; the door in the podium *)
      Bloques == {[piezas |-> <<Pieza(-1500, 1500, -2000, 0, podio), Pieza(-900, 900, -1900, -300, 3000),
                                Pieza(x, x + 500, -1900, -250, ala)>>,
                   suelo |-> 20, zf |-> 0, px |-> px, parcela |-> par, arch |-> "towers"] :
                    podio \in {700, 1300}, x \in {-900, 100, 700}, ala \in {900, 1600, 3200}, px \in {-600, 0, 500},
                    par \in BOOLEAN}
      Ed(w, px) == [piezas |-> <<[x0 |-> -w, x1 |-> w, z0 |-> -1200, z1 |-> 0, y0 |-> 0, y1 |-> 2000]>>,
                    suelo |-> 0, zf |-> 0, px |-> px, parcela |-> TRUE, arch |-> "concesionario"]
      Planes == {p \in MCPlanes : p.fx0 = -p.fx1 /\ (p.upp = 2 => p.fx1 = 800)}
      Sitios == {<<p, n>> \in Planes \X (-1..1) : n < p.upp}
  IN {[clase |-> "piso", plan |-> q[1], slot |-> q[2], ex |-> ex, r |-> r] :
        q \in Sitios, ex \in {-200, 0, 200}, r \in MCDados}
     \cup [clase : {"villa"}, izq : {600, 700, 1000}, der : {600, 700, 1000}, fondo : {700, 1300}, hueco : {200}, r : MCDados]
     \cup {[clase |-> "bloque", ed |-> e, unidades |-> u] : e \in Bloques, u \in {0, 3, 9, 40}}
     \cup {[clase |-> "via", v |-> Secundaria, vivos |-> {<<0, 45000>>}, tapados |-> t,
            otras |-> {[v |-> Secundaria, s |-> a], [v |-> w, s |-> b]}] :
             a \in {2500, 9000, 14000}, b \in {24000, 29000, 43500}, w \in {Secundaria, Calle, Troncal},
             t \in {{}, {<<12500, 15000>>}, {<<-5, 2000>>, <<40000, 45005>>}}}
     \cup {[clase |-> "via", v |-> Calle, vivos |-> {<<0, 20000>>, <<20500, 40000>>}, tapados |-> {},
            otras |-> {[v |-> Calle, s |-> a], [v |-> w, s |-> b]}] :
             a \in {3000, 6000}, b \in {13000, 17500, 22000}, w \in {Calle, Secundaria}}
     \cup {[clase |-> "expo", ed |-> Ed(w, px), tramo |-> [fx0 |-> -w, fx1 |-> w], coches |-> c, muestra |-> m] :
             w \in {700, 1000, 1500, 2000}, px \in {0, 300}, c \in 0..13, m \in {3, 6}}

(* The streets of a case that cross it in a roundabout, and what each        *)
(* crossing takes up of a route.                                             *)
Anillos(c) == {[s |-> o.s, g |-> Glorieta(c.v, o.v, o.s, 9000)] : o \in {q \in c.otras : EsGlorieta(c.v, q.v)}}
Zonas(c, r) ==
  {LET alc == AlcanceConf(c.v.calzada \div 2, [tipo |-> "gl", d |-> a.g.dA])
   IN <<a.s - r[1] - alc, a.s - r[1] + alc>> : a \in {q \in Anillos(c) : r[1] - 100 <= q.s /\ q.s <= r[2] + 100}}
  \cup UNION {LET x == Cruce(c.v, 1, o.s, o.v, 2, 9000)
                  alc == AlcanceConf(c.v.calzada \div 2, [tipo |-> IF x.may = 1 THEN "manda" ELSE "cede",
                           lin |-> IF x.may = 1 THEN 0 ELSE x.lin, semiOtra |-> o.v.calzada \div 2])
              IN {<<o.s - r[1] - alc, o.s - r[1] + alc>>}
                 \cup {<<z[1] - r[1] - 100, z[2] - r[1] + 100>> : z \in IF x.may = 1 THEN x.cebrasMay ELSE x.cebrasMen} :
              o \in {q \in c.otras : ~ EsGlorieta(c.v, q.v) /\ r[1] - 100 <= q.s /\ q.s <= r[2] + 100}}

Pisa(z, a, b) == z[1] < b /\ a < z[2]

(* No route of cars begins or ends within two metres of a roundabout's       *)
(* chord, nor runs where another street covers it; and where it is long      *)
(* enough, both half circles in which the cars turn round are clear of every *)
(* crossing, roundabout and zebra, however many stand in a row               *)
(* (buildTrafficPaths and centrosVuelta; the comment: turning inside a ring  *)
(* took a car onto those that were in it).                                   *)
RoutesAndTurnsKeepClear ==
  caso.clase = "via" =>
       LET cuerdas == {a.g.corteA : a \in Anillos(caso)}
           lanes == CarrilesDe(caso.v.calzada)
           need == NecesitaVuelta(lanes[Len(lanes)])
       IN \A r \in Rutas(caso.vivos, caso.tapados, cuerdas) :
            LET Z == Zonas(caso, r)
                tc == CentrosVuelta(r[2] - r[1], lanes[Len(lanes)], Z)
            IN /\ \A k \in cuerdas, s \in {r[1], r[2]} : s <= k[1] - 200 \/ s >= k[2] + 200
               /\ \A q \in caso.tapados : q[2] <= r[1] \/ r[2] <= q[1]
               /\ need <= tc.tc0 /\ tc.tc0 < tc.tc1 /\ tc.tc1 <= r[2] - r[1] - need
               /\ tc.libre => \A z \in Z : ~ Pisa(z, tc.tc0 - need, tc.tc0 + CocheHL + 200)
                                         /\ ~ Pisa(z, tc.tc1 - CocheHL - 200, tc.tc1 + need)

Init == \/ InitMetro /\ caso = SinCaso
        \/ InitPiso /\ linea = SinLinea /\ seg = linea.ciclo
Next == Segundo /\ UNCHANGED caso
Spec == Init /\ [][Next]_<<linea, seg, caso>>
===========================================================================
