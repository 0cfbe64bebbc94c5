------------------------------ MODULE Trafico ------------------------------
(***************************************************************************)
(* The traffic of the city view (city3d.js, updateTraffic): cars queue in  *)
(* their lane, give way at a crossing or a roundabout, keep crossings and  *)
(* zebras clear, turn round at the end of their route and are moved to     *)
(* another street when nobody looks.  A step is a frame of 0.1 s, the      *)
(* longest the viewer hands out, and in it the cars move one after the     *)
(* other, each seeing what the earlier ones have just done.                *)
(*                                                                         *)
(* Centimetres, and decimetres per second (so a speed is also the          *)
(* centimetres of one frame).  A direction is 1 or -1; a lateral position  *)
(* is measured from the axis of the route, positive to the right of +1.    *)
(***************************************************************************)
EXTENDS Vias

CONSTANTS
  Rutas0,      \* the routes: [len, semi, carriles, vmax, tc0, tc1, conf, cebras]
  Escenas,     \* the starts: [coches, jug]: well placed cars, and where the player stands, or Nadie
  Nadie,       \* nobody: no player, no leader, no cause
  Sitios,      \* where a car may be put again: [r, t, dir, k]
  Pasos,       \* the zebras <<route, index>> where people may be
  Turno,       \* bound: the people on the zebras change, and a car is put again, only every Turno frames
  MaxRecoloca, \* bound on the cars put again
  Fin          \* bound on the frames

VARIABLES
  cars,        \* the cars, in the order in which they move
  ocupadas,    \* S.cebraOcupada: the zebras <<route, index>> with people on them or about to be
  jug,         \* the player on the ground: [r, t, u], or Nadie
  cuadro,      \* frames so far
  movidos      \* cars put again
vars == <<cars, ocupadas, jug, cuadro, movidos>>

CocheFreno == 700       \* cars stop this far from what is ahead
(* As it would be if the patience were of minutes: neither valve nor         *)
(* courtesy in time.                                                         *)
CedePacienciaLarga == 3000
CedePaciencia == 300    \* frames at the line before the valve, and before the others make room
CortesiaAntes == 100
AnilloV == 80
DesvioHolgura == 240
DesvioV == 25

Sin == [h |-> 10000000, mot |-> "", causa |-> Nadie]
Arco(c) == (314 * c.off) \div 100
Lateral(c) == c.dir * (c.off + c.desv)
Quieto(c) == c.vel < 5
Frenado(v, pct) == (v * v * 100) \div (12 * pct)      \* metres to stop, at pct % of the normal deceleration
Gira(c) == c.vu >= 0
Conf(c, j) == Rutas0[c.r].conf[j]

(***************************************************************************)
(* The queues: one entry per car, two while it turns round.  A car that    *)
(* turns leads those that arrive behind it and follows those that have     *)
(* already left.                                                           *)
(***************************************************************************)
Entradas(cs) ==
  UNION {LET c == cs[i] IN
         IF Gira(c)
         THEN {[c |-> i, fila |-> <<c.r, -c.ve, c.k>>, t |-> c.t + c.ve * (Arco(c) - c.vu), suyo |-> TRUE],
               [c |-> i, fila |-> <<c.r, c.ve, c.k>>,
                t |-> c.t + c.ve * (c.vu - 2 * CocheHL - 300 + CocheFreno), suyo |-> FALSE]}
         ELSE {[c |-> i, fila |-> <<c.r, c.dir, c.k>>, t |-> c.t, suyo |-> TRUE]} : i \in DOMAIN cs}
OrdenaColas(cs) ==
  LET E == Entradas(cs)
      tras(e, f) == IF e.fila[2] > 0 THEN f.t > e.t \/ (f.t = e.t /\ f.c > e.c)
                                     ELSE f.t < e.t \/ (f.t = e.t /\ f.c < e.c)
      delante(e) == {f \in E : f.fila = e.fila /\ tras(e, f)}
  IN [i \in DOMAIN cs |->
       LET e == CHOOSE e \in E : e.c = i /\ e.suyo
       IN IF delante(e) = {} THEN [lider |-> Nadie, hueco |-> Sin.h]
          ELSE LET d == CHOOSE d \in delante(e) : \A f \in delante(e) : f = d \/ tras(d, f)
               IN [lider |-> d.c, hueco |-> Magnitud(d.t - e.t)]]

(***************************************************************************)
(* How far a car may swerve round the player: to the edge of the road, but *)
(* never into the next lane of its direction.                              *)
(***************************************************************************)
LimitesDesvio(c) ==
  LET L == Rutas0[c.r].carriles
  IN <<IF c.k > 1 THEN (L[c.k - 1] + L[c.k]) \div 2 - c.off + CocheHW + 20 ELSE 120 - c.off,
       IF c.k < Len(L) THEN (L[c.k] + L[c.k + 1]) \div 2 - c.off - CocheHW - 20
       ELSE Rutas0[c.r].semi - 120 - c.off>>
VGiro(off) == Tope(Raiz(3 * off), 20, 40)

(* Metres covered in n frames from speed v0, and whether that falls short of *)
(* D.                                                                        *)
Recorre(v0, vmax, n) ==
  LET t1 == Max({0, (vmax - v0) \div 3})
  IN IF n <= t1 THEN v0 * n + (3 * n * n) \div 2 ELSE v0 * t1 + (3 * t1 * t1) \div 2 + (n - t1) * vmax
TardaMas(D, v0, vmax, n) == n < 0 \/ (D > 0 /\ Recorre(v0, vmax, n) < D)

(***************************************************************************)
(* Car c at its crossing cf with car y of the other street: xc, xy how far *)
(* past the centre each is, in its own direction, and <<a0, a1>>, <<b0,    *)
(* b1>> where each is on the lane of the other.                            *)
(***************************************************************************)
GeoCruce(c, cf, y) ==
  LET h == CocheHL + CocheHW + CruceHolgura
      sc == Lateral(y) * cf.sab * c.dir
      sy == -(Lateral(c) * cf.sab * y.dir)
  IN [xc |-> (c.t - cf.t) * c.dir, a0 |-> sc - h, a1 |-> sc + h,
      xy |-> (y.t - cf.tOtra) * y.dir, b0 |-> sy - h, b1 |-> sy + h]
BandaCruce(cf) == cf.semiOtra + CocheHL + CruceHolgura
PrimeroEnFila(cs, colas, i, cf) ==
  LET l == colas[i].lider
  IN l = Nadie \/ Gira(cs[l]) \/ (cs[l].t - cf.t) * cs[i].dir > BandaCruce(cf)
ParadaCede(cf) == Min({-cf.lin - CocheHL - 50, -BandaCruce(cf) - 100})

(* The cars of the other street of cf that have not crossed the lane of car  *)
(* i yet.                                                                    *)
Otros(cs, i, cf) ==
  {y \in DOMAIN cs : /\ y # i
                     /\ cs[y].r = cf.otra
                     /\ ~Gira(cs[y])
                     /\ LET g == GeoCruce(cs[i], cf, cs[y]) IN g.xy <= g.b1}

(* Must car i give way? To whom is on its lane or will be before car i has   *)
(* left it.                                                                  *)
DebeCeder(cs, i, cf) ==
  LET c == cs[i]
      obliga(y) ==
        LET g == GeoCruce(c, cf, cs[y])
            yz == cs[y].causa
        IN \/ g.xy >= g.b0
           \/ /\ Quieto(cs[y])
              /\ cs[y].motivo = "cajaOcupada"
              /\ cs[y].conf = cf.par
              /\ yz \notin {Nadie, i}
              /\ ~Quieto(cs[yz]) \/ cs[yz].forz # 0
           \/ /\ ~Quieto(cs[y])
              /\ TardaMas(g.a1 - g.xc, c.vel, c.vmax, (g.b0 - g.xy) \div Max({cs[y].vel, 20}) - 8)
  IN {y \in Otros(cs, i, cf) : obliga(y)}
(* The valve opens only when everybody who comes can stop before the lane of *)
(* car i.                                                                    *)
ValvulaSegura(cs, i, cf) ==
  \A y \in Otros(cs, i, cf) :
    LET g == GeoCruce(cs[i], cf, cs[y])
    IN /\ g.xy < g.b0
       /\ Quieto(cs[y]) \/ g.b0 - 100 - g.xy >= Frenado(cs[y].vel, 120) + 100

(***************************************************************************)
(* Who on the other street stops car i: whoever is on its lane; and, for a *)
(* car with priority, whoever is past its line, forced or unable to stop,  *)
(* or, out of courtesy, has long waited there.  The nearest one, as [y,    *)
(* arco: how far car i may go, cortesia]; {} if nobody.                    *)
(***************************************************************************)
ElMasCerca(L) == {p \in L : \A q \in L : p.arco < q.arco \/ (p.arco = q.arco /\ p.y <= q.y)}
Cortesia(cs, colas, i, cf, y, xc) ==
  LET c == cs[i]
      x0 == -BandaCruce(cf)
  IN /\ cs[y].conf = cf.par
     /\ ~cs[y].tapa
     /\ Quieto(cs[y])
     /\ PrimeroEnFila(cs, colas, y, Rutas0[cf.otra].conf[cf.par])
     /\ cs[y].espera > CedePaciencia - CortesiaAntes
     /\ xc < x0 - 50
     /\ c.cortesia = y \/ x0 - 100 - xc >= Frenado(c.vel, 100) + 200
Dentro(o, cf, g, stop) ==
  \/ o.forz = cf.par
  \/ g.xy > stop + 80
  \/ o.vel > 20 /\ stop - g.xy < Frenado(o.vel, 150)
Para(cs, colas, i, cf, manda, y, g) ==
  LET dentro == g.xy >= g.b0 \/ (manda /\ Dentro(cs[y], cf, g, ParadaCede(Rutas0[cf.otra].conf[cf.par])))
  IN CASE g.xc > g.a0 - 50 -> {}
       [] g.xc <= g.a0 - 50 /\ dentro -> {[y |-> y, arco |-> g.a0 - 100 - g.xc, cortes |-> FALSE]}
       [] g.xc <= g.a0 - 50 /\ ~dentro ->
            IF manda /\ Cortesia(cs, colas, i, cf, y, g.xc) THEN {[y |-> y, arco |-> -BandaCruce(cf) - 100 - g.xc, cortes |-> TRUE]} ELSE {}
(* As it would be if nobody on the other street were looked at once past the *)
(* line.                                                                     *)
OcupaCarrilDeNadie(cs, colas, i, cf, manda) == {}
OcupaCarril(cs, colas, i, cf, manda) ==
  ElMasCerca(UNION {Para(cs, colas, i, cf, manda, y, GeoCruce(cs[i], cf, cs[y])) : y \in Otros(cs, i, cf)})
(* The way out: a zebra with people just behind the crossing, or the car     *)
(* ahead standing there.                                                     *)
SalidaTapada(c, t, alcance) ==
  \E z \in DOMAIN Rutas0[c.r].cebras :
    LET rel == (Rutas0[c.r].cebras[z].t - t) * c.dir
    IN rel > 0 /\ rel <= alcance /\ <<c.r, z>> \in ocupadas
CajaTapada(cs, colas, i, t, salida) ==
  LET l == colas[i].lider
  IN IF l # Nadie /\ ~Gira(cs[l]) /\ cs[l].vel < 30 /\ (cs[l].t - t) * cs[i].dir < salida + 2 * CocheHL + 300
     THEN l ELSE Nadie

(***************************************************************************)
(* The roundabout.  Angles in degrees; the ring is run with the angle      *)
(* falling.                                                                *)
(***************************************************************************)
Vuelta(a) == a % 360
EnAnillo(c, cf) == cf.tipo = "gl" /\ Magnitud(c.t - cf.t) < cf.d
Entrada(c, cf) == Vuelta(cf.ang + (IF c.dir > 0 THEN 0 ELSE 180) - cf.des[c.k])
Recorrido(c, cf) == 180 - 2 * cf.des[c.k]
Angulo(c, cf) == Entrada(c, cf) - ((c.t - (cf.t - c.dir * cf.d)) * c.dir * Recorrido(c, cf)) \div (2 * cf.d)
Metros(grados, cf) == (grados * cf.rr * 314) \div 18000
DelanteEnAnillo(cs, anillos, i, cf) ==
  LET arco(y) == Metros(Vuelta(cs[i].ang - cs[y].ang), cf)
      D == {y \in anillos[cf.gl] \ {i} : cs[y].anillo = cs[i].anillo /\ arco(y) > 1 /\ arco(y) < 3000}
  IN {[y |-> y, arco |-> arco(y)] : y \in {y \in D : \A o \in D : arco(y) <= arco(o)}}
DebeCederAnillo(cs, anillos, i, cf) ==
  {y \in anillos[cf.gl] \ {i} :
     LET falta == Vuelta(cs[y].ang - Entrada(cs[i], cf))
         resta == Vuelta(cs[y].ang - cs[y].salida)
     IN \/ falta > 334
        \/ falta < resta + 3 /\ Metros(falta, cf) < 45 * Max({cs[y].vel, 20})}

(***************************************************************************)
(* What crossing j asks of car i: [mm, dS: where it must stop, y: for      *)
(* whom, forz, abre: the valve opens, tapa, cajas: what it must not stop   *)
(* on, v2: the square of a speed limit, anillo: the car ahead in the ring] *)
(***************************************************************************)
Nada1(c) == [mm |-> "", dS |-> 0, y |-> Nadie, forz |-> c.forz, tapa |-> FALSE, cortesia |-> c.cortesia,
             cajas |-> {}, v2 |-> 90000, anillo |-> {}]
Puede(c, d) == d >= Frenado(c.vel, 150) - 100 \/ c.vel < 40
Alguien(S) == IF S = {} THEN Nadie ELSE Min(S)

EnGlorieta(cs, colas, anillos, i, cf) ==
  LET c == cs[i]
      dEnt == (cf.t - c.t) * c.dir - cf.d
      y == IF DebeCederAnillo(cs, anillos, i, cf) # {} THEN Min(DebeCederAnillo(cs, anillos, i, cf))
           ELSE CajaTapada(cs, colas, i, cf.t, cf.d)
  IN IF dEnt < -2 * cf.d THEN Nada1(c)
     ELSE IF dEnt <= 0
     THEN [Nada1(c) EXCEPT !.v2 = AnilloV * AnilloV,
                           !.anillo = IF c.anillo = cf.gl THEN DelanteEnAnillo(cs, anillos, i, cf) ELSE {}]
     ELSE [Nada1(c) EXCEPT !.v2 = AnilloV * AnilloV + 12 * dEnt,
                           !.mm = IF dEnt - CocheHL > 30 /\ y # Nadie THEN "glorieta" ELSE "",
                           !.dS = dEnt - 120 - CocheHL, !.y = y]

AlcanceSalida(cf) == Max({cf.caja, BandaCruce(cf) - CocheHL})
(* It stops for the one of oc whom it can still stop for, if any. *)
Ocupada(n, c, oc) ==
  IF \A p \in oc : ~Puede(c, p.arco) THEN n
  ELSE LET p == CHOOSE p \in oc : TRUE IN [n EXCEPT !.mm = "cajaOcupada", !.dS = p.arco, !.y = p.y]
Valvula(cs, colas, i, j, cf) ==
  LET c == cs[i]
  IN /\ c.espera > CedePaciencia
     /\ c.conf = j
     /\ c.forz # j
     /\ Quieto(c)
     /\ PrimeroEnFila(cs, colas, i, cf)
     /\ ValvulaSegura(cs, i, cf)
Cede(n, j, cede) == [n EXCEPT !.mm = IF n.forz # j /\ cede # {} THEN "cede" ELSE "", !.y = Alguien(cede)]
EnCede(cs, colas, i, j) ==
  LET c == cs[i]
      cf == Conf(c, j)
      d == ParadaCede(cf) - (c.t - cf.t) * c.dir
      suelta == [Nada1(c) EXCEPT !.forz = IF @ = j THEN 0 ELSE @]
      caja == CajaTapada(cs, colas, i, cf.t, AlcanceSalida(cf))
      sal == caja = Nadie /\ SalidaTapada(c, cf.t, AlcanceSalida(cf) + 800)
      forz == IF Valvula(cs, colas, i, j, cf) THEN j ELSE c.forz
  IN IF d < -80 THEN Ocupada(suelta, c, OcupaCarril(cs, colas, i, cf, FALSE))   \* past the line: it crosses, but not into someone who has stopped
     ELSE IF caja # Nadie \/ sal
     THEN [suelta EXCEPT !.tapa = TRUE, !.mm = IF sal THEN "salidaTapada" ELSE "cajaTapada", !.dS = d, !.y = caja]
     ELSE Cede([Nada1(c) EXCEPT !.forz = forz, !.dS = d], j, DebeCeder(cs, i, cf))

(* Where a car with priority waits to enter: before its own zebra, or past   *)
(* the one it is on.                                                         *)
ParaEntrar(c, x0, xc) ==
  LET Z == {[d |-> (z.t - c.t) * c.dir, m |-> z.med] : z \in Range(Rutas0[c.r].cebras)}
      sobre == {z.d + z.m + CocheHL + 30 : z \in {z \in Z : z.d - z.m < CocheHL /\ z.d + z.m > -CocheHL}}
      antes == {z.d - z.m - CocheHL - 150 :
                z \in {z \in Z : ~(z.d - z.m < CocheHL /\ z.d + z.m > -CocheHL)
                                 /\ z.d + z.m > 0 /\ z.d - z.m < x0 - xc + 100}}
      d == Min(antes \cup {x0 - 100 - xc})
  IN Max(sobre \cup {IF d < -50 THEN x0 - 100 - xc ELSE d})
ConCortesia(n, oc) == [n EXCEPT !.cortesia = IF \E p \in oc : p.cortes THEN Max({p.y : p \in oc}) ELSE @]
EnManda(cs, colas, i, j, oc) ==
  LET c == cs[i]
      cf == Conf(c, j)
      xc == (c.t - cf.t) * c.dir
      x0 == -BandaCruce(cf)
      con == ConCortesia(Nada1(c), oc)
      caja == CajaTapada(cs, colas, i, cf.t, AlcanceSalida(cf))
      d == ParaEntrar(c, x0, xc)
  IN IF \E p \in oc : Puede(c, p.arco) THEN Ocupada(con, c, oc)
     ELSE IF xc < x0 - 50 /\ Puede(c, d) /\ (caja # Nadie \/ SalidaTapada(c, cf.t, AlcanceSalida(cf) + 800))
     THEN [con EXCEPT !.mm = IF caja # Nadie THEN "cajaTapada" ELSE "salidaTapada", !.dS = d, !.y = caja]
     ELSE con
EnCruce(cs, colas, anillos, i, j) ==
  LET c == cs[i]
      cf == Conf(c, j)
      xc == (c.t - cf.t) * c.dir
      B == BandaCruce(cf)
      p == IF cf.tipo = "cede" THEN EnCede(cs, colas, i, j) ELSE EnManda(cs, colas, i, j, OcupaCarril(cs, colas, i, cf, TRUE))
  IN IF cf.tipo = "gl" THEN EnGlorieta(cs, colas, anillos, i, cf)
     ELSE IF xc > B \/ -B - xc > Frenado(c.vel, 100) + 4500 THEN Nada1(c)
     ELSE [p EXCEPT !.cajas = IF -B - xc > 50 THEN {<<-B - xc, B - xc>>} ELSE {}]

(* The crossings ahead together: the shortest stop rules. `p` is what        *)
(* crossing j asks.                                                          *)
Mete(a, j, p) ==
  LET suma == [p EXCEPT !.tapa = @ \/ a.p.tapa, !.cajas = @ \cup a.p.cajas, !.anillo = @ \cup a.p.anillo, !.v2 = Min({@, a.p.v2})]
  IN IF p.mm # "" /\ p.dS + CocheFreno < a.h
     THEN [p |-> suma, h |-> p.dS + CocheFreno, mot |-> p.mm, causa |-> p.y, cede |-> j]
     ELSE [a EXCEPT !.p = suma]
Delante(cs, colas, anillos, i) ==
  LET c == cs[i]
      N == Len(Rutas0[c.r].conf)
      orden == [n \in 1..N |-> IF c.dir > 0 THEN n ELSE N + 1 - n]
      ve(a, j) == EnCruce([cs EXCEPT ![i].forz = a.p.forz, ![i].cortesia = a.p.cortesia], colas, anillos, i, j)
      nada == [p |-> Nada1(c), h |-> Sin.h, mot |-> "", causa |-> Nadie, cede |-> 0]
  IN FoldLeft(LAMBDA a, j : Mete(a, j, ve(a, j)), nada, IF Gira(c) THEN <<>> ELSE orden)

(***************************************************************************)
(* The player in the way: the car chooses a side once and keeps to it      *)
(* while it fits, and brakes when there is no side or no time.             *)
(***************************************************************************)
(* As it would be if a car that swerves never braked too. *)
AnteJugadorSinFrenar(c, hueco) ==
  IF jug = Nadie \/ jug.r # c.r THEN [lado |-> 0, quiere |-> 0, h |-> hueco]
  ELSE [lado |-> 1, quiere |-> Tope(DesvioHolgura - CocheHW, LimitesDesvio(c)[1], LimitesDesvio(c)[2]), h |-> hueco]
AnteJugador(c, hueco) ==
  LET al == (jug.t - c.t) * c.dir
      la == c.dir * (jug.u - Lateral(c))
      lim == LimitesDesvio(c)
      lp == la + c.desv
      izq == lp - DesvioHolgura
      der == lp + DesvioHolgura
      cabeI == izq >= lim[1]
      cabeD == der <= lim[2]
      l0 == IF (c.lado < 0 /\ ~cabeI) \/ (c.lado > 0 /\ ~cabeD) THEN 0 ELSE c.lado
      lado == IF l0 # 0 THEN l0
              ELSE IF cabeI /\ (~cabeD \/ Magnitud(izq) <= Magnitud(der)) THEN -1 ELSE IF cabeD THEN 1 ELSE 0
      quiere == Tope(IF lado < 0 THEN izq ELSE IF lado > 0 THEN der ELSE c.desv,
                     Min({lim[1], c.desv}), Max({lim[2], c.desv}))
      tLibre == Magnitud(quiere - c.desv) \div DesvioV + 1
      ve == /\ jug # Nadie
            /\ jug.r = c.r
            /\ ~Gira(c)
            /\ al > -CocheHL - 300
            /\ al < (c.vmax * c.vmax) \div 12 + CocheFreno
            /\ Magnitud(la) < DesvioHolgura + CocheHW + 50
  IN IF ~ve THEN [lado |-> 0, quiere |-> 0, h |-> hueco]
     ELSE [lado |-> lado, quiere |-> quiere,
           h |-> IF /\ Magnitud(la) < DesvioHolgura
                    /\ al < hueco
                    /\ al < CocheFreno + c.vel * tLibre \/ lado = 0
                 THEN Max({0, al}) ELSE hueco]

(* The first occupied zebra ahead, if there is still room to stop before it. *)
AntePeaton(c) ==
  LET borde(z) == (Rutas0[c.r].cebras[z].t - c.t) * c.dir - Rutas0[c.r].cebras[z].med - CocheHL
      Z == {z \in DOMAIN Rutas0[c.r].cebras : /\ <<c.r, z>> \in ocupadas
                                              /\ borde(z) >= -20
                                              /\ borde(z) <= Frenado(c.vel, 100) + 4500}
      d == Min({borde(z) : z \in Z}) - 150
  IN IF Gira(c) \/ Z = {} \/ ~Puede(c, d) THEN Sin.h ELSE d + CocheFreno

(***************************************************************************)
(* Never stop on a crossing or a zebra: the stop moves back before it, and *)
(* again if that lands on another, as long as the car can stop there and   *)
(* is then on no zebra.                                                    *)
(***************************************************************************)
CajasDeCebras(c) ==
  {LET d == (z.t - c.t) * c.dir IN <<d - z.med - CocheHL - 50, d + z.med - 100>> :
     z \in {z \in Range(Rutas0[c.r].cebras) :
              LET d == (z.t - c.t) * c.dir
              IN d - z.med - CocheHL - 50 > 50 /\ d - z.med < Frenado(c.vel, 100) + 4500}}
FueraDeCajas(c, cajas, hueco) ==
  LET ini == hueco - CocheFreno
      antes(d) == {b[1] - 100 : b \in {b \in cajas : d > b[1] - 100 /\ d < b[2] + CocheHL + 100}}
      atras(a, n) == IF ~a.valida \/ antes(a.d) = {} THEN a
                     ELSE IF Puede(c, Min(antes(a.d))) THEN [a EXCEPT !.d = Min(antes(a.d))]
                     ELSE [a EXCEPT !.valida = FALSE]
      fin == FoldLeft(atras, [d |-> ini, valida |-> TRUE], <<1, 2, 3, 4>>)
      libre == \A z \in Range(Rutas0[c.r].cebras) :
                 Magnitud(fin.d - (z.t - c.t) * c.dir) >= z.med + CocheHL + 30
  IN IF fin.valida /\ fin.d # ini /\ libre THEN fin.d + CocheFreno ELSE hueco

(* The speed of the next frame: what lets it stop at the gap, within what it *)
(* can brake and accelerate.                                                 *)
Velocidad(c, v2, hueco) ==
  LET cabe == {v \in Max({0, c.vel - 9})..Min({c.vel + 3, c.vmax}) :
                 v * v <= v2 /\ (v = 0 \/ v * v <= 12 * (hueco - CocheFreno))}
  IN IF cabe = {} THEN Max({0, c.vel - 9}) ELSE Max(cabe)

(***************************************************************************)
(* One frame of car i.                                                     *)
(***************************************************************************)
Pose(c) ==
  LET A == {j \in DOMAIN Rutas0[c.r].conf : ~Gira(c) /\ EnAnillo(c, Conf(c, j))}
  IN IF A = {} THEN [c EXCEPT !.anillo = 0]
     ELSE LET cf == Conf(c, Min(A))
          IN [c EXCEPT !.anillo = cf.gl, !.ang = Vuelta(Angulo(c, cf)), !.salida = Vuelta(Entrada(c, cf) - Recorrido(c, cf)),
                        !.pct = (200 * cf.d) \div Metros(Recorrido(c, cf), cf)]
Avanza(c) ==
  LET R == Rutas0[c.r]
      vu == c.vu + c.vel
      t == c.t + c.dir * (IF c.anillo > 0 THEN (c.vel * c.pct) \div 100 ELSE c.vel)
      tc == IF c.dir > 0 THEN R.tc1 ELSE R.tc0
  IN IF Gira(c) /\ vu >= Arco(c)          \* turned: the same lane the other way
     THEN [c EXCEPT !.dir = -c.ve, !.t = Tope(c.t - c.ve * (vu - Arco(c)), 0, R.len), !.vu = -1, !.forz = 0, !.conf = 0]
     ELSE IF Gira(c) THEN [c EXCEPT !.vu = vu]
     ELSE IF c.dir * (t - tc) >= 0        \* starts to turn round
     THEN [c EXCEPT !.ve = c.dir, !.vu = Magnitud(t - tc), !.t = tc, !.lado = 0, !.forz = 0]
     ELSE [c EXCEPT !.t = t]
(* What rules the gap of a car, [h, mot, causa]: the queue or the player,    *)
(* the ring, the crossings ahead, the people on a zebra; and the gap then    *)
(* moves back so as not to stop on a crossing.                               *)
AnteFila(cola, j) ==
  [h |-> j.h, mot |-> IF j.h < cola.hueco THEN "jugador" ELSE IF cola.lider # Nadie THEN "fila" ELSE "", causa |-> cola.lider]
AnteAnillo(e, anillo) ==
  LET ring == {p \in anillo : p.arco < e.h}
      p == CHOOSE p \in ring : \A q \in ring : p.arco <= q.arco
  IN IF ring = {} THEN e ELSE [h |-> p.arco, mot |-> "anillo", causa |-> p.y]
AnteCruces(e, D) == IF D.cede # 0 /\ D.h < e.h THEN [h |-> D.h, mot |-> D.mot, causa |-> D.causa] ELSE e
AnteZebra(e, h) == IF h < e.h THEN [h |-> h, mot |-> "peaton", causa |-> Nadie] ELSE e
SinTaparCruces(e, c, cajas, lenta) ==
  IF cajas # {} /\ (e.mot # "fila" \/ lenta) THEN [e EXCEPT !.h = FueraDeCajas(c, cajas, @)] ELSE e
(* The car with its new speed and what it will be asked by the others. *)
Acelera(c, cola, j, D, e) ==
  LET R == Rutas0[c.r]
      libre == e.h >= cola.hueco /\ e.mot = "fila" /\ cola.hueco > (c.vmax * c.vmax) \div 12 + CocheFreno
      dFin == Max({0, c.dir * ((IF c.dir > 0 THEN R.tc1 ELSE R.tc0) - c.t)})
      vg == VGiro(c.off)
      v2 == Min({D.p.v2, vg * vg + (IF Gira(c) THEN 0 ELSE 12 * dFin)})
  IN [c EXCEPT !.vel = Velocidad(c, v2, e.h), !.lado = j.lado, !.forz = D.p.forz, !.cortesia = D.p.cortesia, !.tapa = D.p.tapa,
               !.conf = IF D.cede # 0 THEN D.cede ELSE IF c.vel > 10 THEN 0 ELSE @,
               !.motivo = IF libre THEN "" ELSE e.mot,
               !.causa = IF libre \/ e.mot \in {"jugador", "salidaTapada", ""} THEN Nadie ELSE e.causa,
               !.espera = IF c.vel > 10 THEN 0 ELSE @,
               !.desv = @ + Tope(j.quiere - @, -DesvioV, DesvioV)]
Espera(c, cede) ==
  [c EXCEPT !.parado = IF Quieto(c) THEN Min({@ + 1, Fin}) ELSE 0,
            !.espera = IF Quieto(c) /\ cede # 0 THEN Min({@ + 1, Fin}) ELSE @]
Mueve(cs, i, cola, j, D) ==
  LET c == cs[i]
      cajas == IF Gira(c) THEN {} ELSE D.p.cajas \cup CajasDeCebras(c)
      lenta == cola.lider # Nadie /\ cs[cola.lider].vel < 30
      e == SinTaparCruces(AnteZebra(AnteCruces(AnteAnillo(AnteFila(cola, j), D.p.anillo), D), AntePeaton(c)), c, cajas, lenta)
  IN Pose(Avanza(Espera(Acelera(c, cola, j, D, e), D.cede)))
Conduce(cs, colas, anillos, i) == Mueve(cs, i, colas[i], AnteJugador(cs[i], colas[i].hueco), Delante(cs, colas, anillos, i))

(***************************************************************************)
(* A car is put again where it is seen by nobody, away from the turns, the *)
(* crossings and the other cars of the lane.                               *)
(***************************************************************************)
NuevoCoche(s, vmax) ==
  [r |-> s.r, t |-> s.t, dir |-> s.dir, k |-> s.k, off |-> Rutas0[s.r].carriles[s.k], vmax |-> vmax,
   vel |-> (vmax * 8) \div 10, desv |-> 0, lado |-> 0, vu |-> -1, ve |-> 0, espera |-> 0, parado |-> 0, conf |-> 0,
   forz |-> 0, cortesia |-> Nadie, tapa |-> FALSE, motivo |-> "", causa |-> Nadie, anillo |-> 0, ang |-> 0, salida |-> 0, pct |-> 100]
BuenSitio(cs, i, s) ==
  LET R == Rutas0[s.r]
      mv == 2 * CocheHL + CocheFreno + 400
      v0 == (R.vmax * 8) \div 10
      fr == Frenado(v0, 100) + 1500
  IN /\ s.t >= R.tc0 + mv
     /\ s.t <= R.tc1 - mv
     /\ \A cf \in Range(R.conf) :
          LET d == (cf.t - s.t) * s.dir IN d <= -cf.alc - CocheHL \/ d >= cf.alc + CocheHL + fr
     /\ \A o \in DOMAIN cs \ {i} :
          cs[o].r = s.r /\ ~Gira(cs[o]) /\ cs[o].dir = s.dir /\ cs[o].k = s.k
            => Magnitud(cs[o].t - s.t) >= 2 * CocheHL + CocheFreno
Recolocaciones(cs) ==
  {cs} \cup {[cs EXCEPT ![q[1]] = [NuevoCoche(q[2], Rutas0[q[2].r].vmax) EXCEPT !.cortesia = cs[q[1]].cortesia,
                                                                               !.tapa = cs[q[1]].tapa]] :
             q \in {q \in (DOMAIN cs) \X Sitios : BuenSitio(cs, q[1], q[2])}}

(***************************************************************************)
(* The frame: a car may be put again, the queues are read once, and then   *)
(* the cars move in order.                                                 *)
(***************************************************************************)
EsTurno == cuadro % Turno = 0
(* City life (vida.js) marks the zebras with people on them: now and then    *)
(* some, and no longer than Turno frames.                                    *)
Peatones == IF ~EsTurno THEN {ocupadas} ELSE IF ocupadas = {} THEN SUBSET Pasos ELSE {{}}
UpdateTraffic ==
  /\ cuadro < Fin
  /\ \E cs \in IF EsTurno /\ movidos < MaxRecoloca THEN Recolocaciones(cars) ELSE {cars} :
       \E colas \in {OrdenaColas(cs)} :
         \E anillos \in {[g \in 1..1 |-> {i \in DOMAIN cs : cs[i].anillo = g}]} :
           /\ cars' = FoldLeft(LAMBDA a, i : [a EXCEPT ![i] = Conduce(a, colas, anillos, i)], cs,
                               [i \in DOMAIN cs |-> i])
           /\ movidos' = IF cs = cars THEN movidos ELSE movidos + 1
  /\ cuadro' = cuadro + 1
  /\ ocupadas' \in Peatones
  /\ UNCHANGED jug
Init ==
  /\ \E e \in Escenas :
       /\ cars = [i \in DOMAIN e.coches |-> Pose(NuevoCoche(e.coches[i], e.coches[i].vmax))]
       /\ jug = e.jug
  /\ ocupadas = {}
  /\ cuadro = 1
  /\ movidos = 0
Next == UpdateTraffic
Spec == Init /\ [][Next]_vars
-----------------------------------------------------------------------------
(***************************************************************************)
(* Two bodies in one place: at a crossing of two streets, in one lane, or  *)
(* in the ring of a roundabout.                                            *)
(***************************************************************************)
EnElCruce(a, b) ==
  /\ ~Gira(a)
  /\ ~Gira(b)
  /\ \E cf \in Range(Rutas0[a.r].conf) :
       /\ cf.tipo # "gl"
       /\ cf.otra = b.r
       /\ Magnitud(a.t - cf.t - Lateral(b) * cf.sab) < CocheHL + CocheHW
       /\ Magnitud(b.t - cf.tOtra + Lateral(a) * cf.sab) < CocheHL + CocheHW
EnLaFila(a, b) ==
  /\ <<a.r, a.k, a.dir>> = <<b.r, b.k, b.dir>>
  /\ ~Gira(a) /\ ~Gira(b)
  /\ a.anillo = 0 /\ b.anillo = 0
  /\ Magnitud(a.t - b.t) < 2 * CocheHL
EnElAnillo(a, b) ==
  /\ a.anillo # 0
  /\ a.anillo = b.anillo
  /\ \E cf \in Range(Rutas0[a.r].conf) :
       cf.tipo = "gl" /\ Metros(Min({Vuelta(a.ang - b.ang), Vuelta(b.ang - a.ang)}), cf) < 2 * CocheHL
(* On two lanes of one street in one direction. *)
ALaPar(a, b) == a.r = b.r /\ a.dir = b.dir /\ a.k # b.k

(* Cars do not drive into each other: the rules for giving way, the valve,   *)
(* the courtesy of the street with priority and the queues, all decided from *)
(* what each car sees in its turn of the frame, keep them apart at crossings,*)
(* in a lane and, unless they came in abreast, in the ring of a roundabout.  *)
(* (Of two that come in abreast each takes the ring for free: debeCederAnillo*)
(* looks at whoever is already in it.)                                       *)
NoCrash ==
  \A i, j \in DOMAIN cars : i < j =>
    /\ ~EnElCruce(cars[i], cars[j])
    /\ ~EnLaFila(cars[i], cars[j])
    /\ ALaPar(cars[i], cars[j]) \/ ~EnElAnillo(cars[i], cars[j])

(* No car waits for a minute, however dense the traffic it must give way to  *)
(* (the courtesy and the valve are there for that), unless the player stands *)
(* in its way.                                                               *)
WaitIsBounded == jug = Nadie => \A i \in DOMAIN cars : cars[i].parado < 600

(* A player who stands on the road is passed at a distance or waited for,    *)
(* never run over (AnteJugador).                                             *)
PlayerNotHit ==
  jug # Nadie => \A i \in DOMAIN cars : cars[i].r = jug.r /\ ~Gira(cars[i]) =>
                    \/ Magnitud(jug.t - cars[i].t) >= CocheHL + 30
                    \/ Magnitud(jug.u - Lateral(cars[i])) >= CocheHW + 30
=============================================================================
