------------------------------- MODULE Metro -------------------------------
(***************************************************************************)
(* The metro of extras.js: where the stations fall on the axis of the      *)
(* trunk road, the timetable that comes out of them and where each car of  *)
(* each train is at a second of the clock.  Nothing moves by itself: the   *)
(* train k is a function of the time, so that everybody who looks sees it  *)
(* in the same place.  Along the axis in centimetres, time in tenths of a  *)
(* second.  The ground is abstracted to `vetos`, the stretches of the axis *)
(* where `sitioEstacion` finds no site.                                    *)
(***************************************************************************)
EXTENDS Vias

CONSTANT Lineas        \* the lines to look at: [L |-> length, vetos |-> set of <<from, to>>]

ASSUME LineasAssumption == \A x \in Lineas : x.L >= 250000 /\ \A v \in x.vetos : v[1] <= v[2]

ESTACION == 150000
EXTREMO == 7000
VMAX == 222            \* centimetres per tenth of a second, reached with 1 m/s2 in as many tenths
PARADA == 300
TERMINAL == 1800
INTERVALO == 3600
COCHES == 5
PASO_COCHE == 1760
COCHE == 1700
ANCHO_COCHE == 295
VIA == 220
CRUCE == 15000

VARIABLES linea,       \* the line as built: stations, timetable and trains
          seg          \* the second of the clock
varsMetro == <<linea, seg>>

Redondo(a, b) == (2 * a + b) \div (2 * b)

(***************************************************************************)
(* Stations: shared out evenly and each moved as little as possible, in    *)
(* steps of 60 m up to 480 m, forwards first.  Without a site it stays     *)
(* where it was, with no access from the street.                           *)
(***************************************************************************)
SitioEstacion(x, s) == \A v \in x.vetos : s < v[1] \/ v[2] < s
Corrido(j) == (IF j % 2 = 1 THEN 1 ELSE -1) * ((j + 1) \div 2) * 6000
Lejos(previa, s) == s >= previa + 60000
Colocada(x, previa, s0) ==
  LET Vale(s) == s >= EXTREMO /\ s <= x.L - EXTREMO /\ Lejos(previa, s) /\ SitioEstacion(x, s)
      J == {j \in 0..16 : Vale(s0 + Corrido(j))}
  IN IF J = {} THEN s0 ELSE s0 + Corrido(Min(J))
Paradas(x) ==
  LET ne == Max({2, Redondo(x.L, ESTACION)})
      s[i \in 0..ne] == Colocada(x, IF i = 0 THEN -60000 ELSE s[i - 1],
                                 Tope(Redondo(i * (x.L \div 100), ne) * 100, EXTREMO, x.L - EXTREMO))
  IN s

(***************************************************************************)
(* Timetable: there and back, waiting at each end before leaving it.       *)
(***************************************************************************)
TiempoTramo(D) == IF D >= VMAX * VMAX THEN Redondo(D, VMAX) + VMAX ELSE 2 * Raiz(D)
Tramos(p) ==
  LET ne == Max(DOMAIN p)
      Parada(dir, i) == p[IF dir = 1 THEN i ELSE ne - i]
      Tramo(dir, m) ==
        LET i == (m - 1) \div 2
            a == Parada(dir, i)
            b == IF m % 2 = 1 THEN a ELSE Parada(dir, i + 1)
        IN [s0 |-> a, s1 |-> b,
            dur |-> CASE m = 1 -> TERMINAL [] m # 1 /\ a = b -> PARADA [] OTHER -> TiempoTramo(Magnitud(a - b))]
  IN [m \in 1..(4 * ne) |-> IF m <= 2 * ne THEN Tramo(1, m) ELSE Tramo(-1, m - 2 * ne)]
Comienzos(tr) == LET t0[m \in 1..(Len(tr) + 1)] == IF m = 1 THEN 0 ELSE t0[m - 1] + tr[m - 1].dur IN t0
IntervaloFijo(ciclo, n) == INTERVALO
Intervalo(ciclo, n) == ciclo \div n
Horario(p) ==
  LET tr == Tramos(p)
      t0 == Comienzos(tr)
      ciclo == t0[Len(tr) + 1]
      n == Max({1, Redondo(ciclo, INTERVALO)})
  IN [paradas |-> p, tramos |-> tr, t0 |-> t0, mitad |-> t0[Len(tr) \div 2 + 1], ciclo |-> ciclo,
      nTrenes |-> n, intervalo |-> Intervalo(ciclo, n)]

(* Speed trapeze between two stations. *)
AvanceTramo(D, T, tau) ==
  IF D >= VMAX * VMAX
  THEN CASE tau < VMAX -> (tau * tau) \div 2
         [] tau >= VMAX /\ tau < T - VMAX -> (VMAX * VMAX) \div 2 + VMAX * (tau - VMAX)
         [] OTHER -> D - ((T - tau) * (T - tau)) \div 2
  ELSE IF 2 * tau < T THEN (tau * tau) \div 2 ELSE D - ((T - tau) * (T - tau)) \div 2
PosTren(k, t) ==
  LET tau == (t - k * linea.intervalo) % linea.ciclo
      m == Max({i \in DOMAIN linea.tramos : linea.t0[i] <= tau})
      x == linea.tramos[m]
      d == IF x.s0 = x.s1 THEN 0 ELSE AvanceTramo(Magnitud(x.s0 - x.s1), x.dur, tau - linea.t0[m])
  IN [s |-> IF x.s1 > x.s0 THEN x.s0 + d ELSE x.s0 - d, dir |-> IF tau < linea.mitad THEN 1 ELSE -1]

(* Which track a car is on: it changes over the crossing beyond the platform *)
(* of the terminal it leaves.                                                *)
Suave(x) == LET f == Tope((x * 10) \div (CRUCE \div 100), 0, 1000) IN (f * f * (3000 - 2 * f)) \div 1000000
CarrilPorSentido(s, dir) == IF dir > 0 THEN VIA ELSE -VIA
CarrilTren(s, dir) ==
  LET p == linea.paradas
      mt == (COCHES * PASO_COCHE) \div 2
  IN IF dir > 0 THEN (2 * VIA * Suave(s - (p[0] + mt))) \div 1000 - VIA
     ELSE VIA - (2 * VIA * Suave(p[Max(DOMAIN p)] - mt - s)) \div 1000

Coche(k, j, t) ==
  LET p == PosTren(k, t)
      s == p.s + ((2 * j - (COCHES - 1)) * PASO_COCHE) \div 2
  IN [s |-> s, u |-> CarrilTren(s, p.dir)]

(***************************************************************************)
(* The clock goes through a whole cycle; after it every train is where     *)
(* another one was.                                                        *)
(***************************************************************************)
InitMetro == /\ linea \in {Horario(Paradas(x)) : x \in Lineas}
             /\ seg = 0
Segundo == /\ 10 * seg < linea.ciclo
           /\ seg' = seg + 1
           /\ UNCHANGED linea

(***************************************************************************)
(* Properties.                                                             *)
(***************************************************************************)

(* No two cars of different trains are ever in the same place: neither on    *)
(* the track, nor where the train that leaves a terminal crosses over, nor   *)
(* at the platform (the timetable of construyeMetro, posTren and carrilTren, *)
(* which nothing in the code checks at run time).                            *)
TrainsKeepApart ==
  LET coche == [k \in 0..(linea.nTrenes - 1) |-> [j \in 0..(COCHES - 1) |-> Coche(k, j, 10 * seg)]]
  IN \A k, q \in DOMAIN coche : k < q => \A i, j \in 0..(COCHES - 1) :
       \/ Magnitud(coche[k][i].s - coche[q][j].s) >= COCHE
       \/ Magnitud(coche[k][i].u - coche[q][j].u) >= ANCHO_COCHE

(* From one second to the next no car advances more than its top speed       *)
(* allows nor slips sideways by more than the crossing's curve, the ends of  *)
(* the line and the start of the cycle included (the comment of carrilTren:  *)
(* the train used to jump 4.4 m when the wait at the terminal began).        *)
TrainsNeverJump ==
  [][\A k \in 0..(linea.nTrenes - 1), j \in 0..(COCHES - 1) :
       LET a == Coche(k, j, 10 * seg)
           b == Coche(k, j, 10 * seg')
       IN Magnitud(a.s - b.s) <= 10 * VMAX + 130 /\ Magnitud(a.u - b.u) <= VIA \div 2]_varsMetro
=============================================================================
