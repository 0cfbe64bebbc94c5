------------------------------- MODULE Piso -------------------------------
(***************************************************************************)
(* The inside of a flat, of a house and of a showroom as umbral.js builds  *)
(* them: the rooms, the walls with their doors, what is fixed and where    *)
(* the furniture starts.  Everything that stops a walker is a rectangle    *)
(* [x0, x1, z0, z1] in centimetres.                                        *)
(***************************************************************************)
EXTENDS PlanEdificio

CONSTANT Casos         \* the flats, the houses and the showrooms to draw up
VARIABLE caso

(* What a building is drawn from: its pieces, where its slab and its facade  *)
(* are, and its door.  A car dealer's door is in the middle of a body as wide *)
(* as 0.28 of a cell (parcelaPartes): well over 4 m on each side of it.  The  *)
(* door of a house has 6 m of facade or more on each side: the narrowest      *)
(* villa is 12 m wide, and so is a body made up for a door.                   *)
Piezas == [x0 : Int, x1 : Int, z0 : Int, z1 : Int, y0 : Int, y1 : Int]
EsEdificio(ed) == /\ ed.piezas \in Seq(Piezas)
                  /\ ed.suelo \in Int /\ ed.zf \in Int /\ ed.px \in Int
EsConcesionario(ed) == /\ EsEdificio(ed) /\ ed.parcela = TRUE /\ ed.arch = "concesionario"
                       /\ CuerpoPuerta(ed).x0 + 400 <= ed.px /\ ed.px + 400 <= CuerpoPuerta(ed).x1
EsDado(r) == /\ r.s \in 56..66 /\ r.df \in 56..64 /\ r.espejo \in BOOLEAN
             /\ r.camaIzq \in BOOLEAN /\ r.nPlantas \in 1..3
ASSUME CasosAssumption ==
  \A c \in Casos :
     /\ c.clase = "piso" => /\ c.plan.fx0 \in Int /\ c.plan.fx1 \in Int /\ c.plan.upp \in Nat \ {0}
                            /\ c.slot \in Int /\ c.ex \in Int /\ EsDado(c.r)
     /\ c.clase = "villa" => /\ c.izq \in Int /\ c.izq >= 600 /\ c.der \in Int /\ c.der >= 600
                             /\ c.fondo \in Int /\ c.hueco \in Int /\ c.hueco >= 100 /\ EsDado(c.r)
     /\ c.clase = "bloque" => EsEdificio(c.ed) /\ c.unidades \in Nat
     /\ c.clase = "expo" => /\ EsConcesionario(c.ed) /\ c.coches \in Nat /\ c.muestra \in Nat
                            /\ c.tramo.fx0 \in Int /\ c.tramo.fx1 \in Int

Caja(xa, xb, za, zb) == [x0 |-> Menor(xa, xb), x1 |-> Mayor(xa, xb), z0 |-> za, z1 |-> zb]
Ancho(R) == R.x1 - R.x0
Fondo(R) == R.z1 - R.z0
Solapan(p, q) == p.x0 < q.x1 /\ q.x0 < p.x1 /\ p.z0 < q.z1 /\ q.z0 < p.z1

(* A wall along x or z, solid but at its doors <<a, b>>: what a window       *)
(* leaves below it stops as well.                                            *)
Pared(eje, caja, puertas) == [eje |-> eje, caja |-> caja, puertas |-> puertas]
Corta(w, q) ==
  /\ Solapan(w.caja, q)
  /\ \A h \in w.puertas : IF w.eje = "x" THEN q.x0 < h[1] \/ q.x1 > h[2] ELSE q.z0 < h[1] \/ q.z1 > h[2]

(* Furniture: size, and the footprint after r quarter turns, pushed into its *)
(* room.                                                                     *)
Tamano == [sofa |-> <<220, 90>>, mesa |-> <<110, 60>>, tele |-> <<180, 42>>, estanteria |-> <<120, 36>>,
           planta |-> <<50, 50>>, pie |-> <<40, 40>>, cama |-> <<170, 212>>, mesilla |-> <<46, 40>>,
           armario |-> <<180, 60>>]
Huella(m) ==
  LET a == Tamano[m.tipo][IF m.r % 2 = 1 THEN 2 ELSE 1] \div 2
      b == Tamano[m.tipo][IF m.r % 2 = 1 THEN 1 ELSE 2] \div 2
  IN Caja(m.x - a, m.x + a, m.z - b, m.z + b)
Encaja(m, R) ==
  LET h == Huella(m)
      a == Ancho(h) \div 2 + 2
      b == Fondo(h) \div 2 + 2
  IN [m EXCEPT !.x = Acota(m.x, R.x0 + a, Mayor(R.x0 + a, R.x1 - a)),
               !.z = Acota(m.z, R.z0 + b, Mayor(R.z0 + b, R.z1 - b))]

(***************************************************************************)
(* The flat x0..x1, z0..zI with its door at the back (`atras`, from the    *)
(* landing) or in the facade (`frente`, a house).  r holds what the seed   *)
(* rolls: s and df are percentages.                                        *)
(***************************************************************************)
EspejoDelDado(x0, x1, entrada, r) == r.espejo
Espejo(x0, x1, entrada, r) ==
  IF entrada.lado = "frente" THEN entrada.x >= x0 + (r.s * (x1 - x0)) \div 100 - 80 ELSE r.espejo
Plano(x0, x1, z0, zI, entrada, r) ==
  LET W == x1 - x0
      espejo == Espejo(x0, x1, entrada, r)
      X(u) == IF espejo THEN x0 + x1 - u ELSE u
      ua == x0 + (r.s * W) \div 100
      zm == zI - (r.df * (zI - z0)) \div 100
      uk == x0 + ((ua - x0) * 52) \div 100
      sal == Caja(X(x0), X(ua), zm, zI)
      dor == Caja(X(ua), X(x1), zm, zI)
      coc == Caja(X(x0), X(uk), z0, zm)
      rec == Caja(X(uk), X(ua), z0, zm)
      ban == Caja(X(ua), X(x1), z0, zm)
      xa == X(ua)
      puertaX == IF entrada.lado = "atras" THEN Acota(entrada.x, rec.x0 + 60, rec.x1 - 60)
                 ELSE (rec.x0 + rec.x1) \div 2
      alto == IF entrada.lado = "atras" THEN {<<puertaX - 50, puertaX + 50>>} ELSE {}
      calle == IF entrada.lado = "frente"
               THEN {<<entrada.x - entrada.ancho \div 2, entrada.x + entrada.ancho \div 2>>} ELSE {}
      bp == IF espejo THEN <<ban.x1 - 130, ban.x1 - 40>> ELSE <<ban.x0 + 40, ban.x0 + 130>>
      muros == {Pared("x", Caja(x0 - 30, x1 + 30, zI, zI + 30), calle),
                Pared("z", Caja(x0 - 30, x0, z0 - 15, zI), {}), Pared("z", Caja(x1, x1 + 30, z0 - 15, zI), {}),
                Pared("x", Caja(x0 - 30, x1 + 30, z0 - 15, z0), alto),
                Pared("z", Caja(xa - 6, xa + 6, zm, zI), {<<zm + 20, zm + 110>>}),
                Pared("z", Caja(xa - 6, xa + 6, z0, zm), {}),
                Pared("x", Caja(ban.x0, ban.x1, zm - 6, zm + 6), {bp})}
      d == IF espejo THEN -1 ELSE 1
      kx == IF espejo THEN coc.x1 ELSE coc.x0
      kL == Mayor(120, Ancho(coc) - 90)
      bx == IF espejo THEN ban.x1 ELSE ban.x0
      lav == Acota(bx + d * 190, ban.x0 + 45, ban.x1 - 45)
      ino == Acota(bx + d * 280, ban.x0 + 30, ban.x1 - 30)
      ducha == IF espejo THEN ban.x0 ELSE ban.x1 - 95
      fijos == {Caja(Min({kx + d * 40 - 35, kx + d * 80, kx + d * (80 + kL)}),
                     Max({kx + d * 40 + 35, kx + d * 80, kx + d * (80 + kL)}), z0, z0 + 74),
                Caja(Min({lav - 40, ino - 25, ducha}), Max({lav + 40, ino + 25, ducha + 95}), z0, z0 + 60)}
      cS == (sal.z0 + sal.z1) \div 2
      sofaX == IF espejo THEN sal.x1 - 50 ELSE sal.x0 + 50
      teleX == IF espejo THEN sal.x0 + 24 ELSE sal.x1 - 24
      izq == IF espejo THEN 3 ELSE 1
      cama == IF r.camaIzq THEN dor.x0 + 110 ELSE dor.x1 - 110
      cD == (dor.z0 + dor.z1) \div 2 + 20
      M(t, x, z, q, R) == Encaja([tipo |-> t, x |-> x, z |-> z, r |-> q], R)
      plantas == <<M("planta", teleX - d * 10, sal.z1 - 40, 0, sal),
                   M("planta", (sal.x0 + sal.x1) \div 2 + d * 90, sal.z1 - 40, 1, sal),
                   M("planta", teleX, sal.z0 + 40, 2, sal)>>
      muebles == {M("sofa", sofaX, cS, izq, sal), M("mesa", (sofaX + teleX) \div 2 - d * 10, cS, 1, sal),
                  M("tele", teleX, cS, 4 - izq, sal),
                  M("estanteria", IF espejo THEN sal.x1 - 20 ELSE sal.x0 + 20, sal.z1 - 75, izq, sal),
                  M("pie", IF espejo THEN sal.x1 - 35 ELSE sal.x0 + 35, sal.z0 + 45, 0, sal),
                  M("cama", cama, cD, IF r.camaIzq THEN 1 ELSE 3, dor),
                  M("mesilla", IF r.camaIzq THEN dor.x0 + 26 ELSE dor.x1 - 26, cD + 130, 1, dor),
                  M("armario", IF r.camaIzq THEN dor.x1 - 35 ELSE dor.x0 + 35,
                    (dor.z0 + dor.z1) \div 2 + 60, 1, dor)} \cup {plantas[i] : i \in 1..r.nPlantas}
  IN [cuartos |-> <<sal, dor, coc, rec, ban>>, muros |-> muros,
      fijos |-> fijos, solidos |-> fijos \cup {Huella(m) : m \in muebles},
      muebles |-> muebles,
      (* the doors, as the strip a walker of radius 30 needs, 60 beyond the wall on each side *)
      pasos |-> {Caja(xa - 66, xa + 66, zm + 35, zm + 95), 
                 Caja((bp[1] + bp[2]) \div 2 - 30, (bp[1] + bp[2]) \div 2 + 30, zm - 66, zm + 66)}
                \cup (IF entrada.lado = "atras" THEN {Caja(puertaX - 30, puertaX + 30, z0 - 15, z0 + 60)}
                      ELSE {Caja(entrada.x - 30, entrada.x + 30, zI - 60, zI + 30)})]

(* The flat of a floor, and the house behind a street door. *)
PisoDe(plan, slot, ex, r) ==
  LET f == Fachada(plan, slot)
  IN Plano(f[1], f[2], 0, 1000, [lado |-> "atras", x |-> Acota(ex, f[1] + 200, f[2] - 200), ancho |-> 100], r)
VillaDe(izq, der, fondo, hueco, r) ==          \* what the body has on each side of its street door
  LET x0 == Mayor(30 - izq, -800)
      x1 == Menor(der - 30, 800)
  IN Plano(x0, x1, 0, Acota(fondo - 65, 650, 1150), [lado |-> "frente", x |-> 0, ancho |-> hueco], r)

(* The pedestals of a showroom, 5.6 m across, and the seller's desk. *)
Peanas(Z, X) ==
  [k \in 0..(X.n - 1) |->
     LET fila == k \div X.porFila
         nf == Menor(X.porFila, X.n - fila * X.porFila)
         cx == (Z.x0 + Z.x1) \div 2 + ((2 * (k % X.porFila) - (nf - 1)) * 600) \div 2
         cz == Z.z0 + 320 + fila * 620
     IN Caja(cx - 280, cx + 280, cz - 280, cz + 280)]
Mesa(Z) == Caja(Z.x1 - 420, Z.x1 - 180, Z.z1 - 400, Z.z1 - 320)

(***************************************************************************)
(* Which interior is looked at: a flat of a plan, the house behind a door, *)
(* the showroom or the floors of a building.                               *)
(***************************************************************************)
InitPiso == caso \in Casos
Interior ==
  CASE caso.clase = "piso" -> PisoDe(caso.plan, caso.slot, caso.ex, caso.r)
    [] caso.clase = "villa" -> VillaDe(caso.izq, caso.der, caso.fondo, caso.hueco, caso.r)

(* Whatever the seed rolls, the mirrored plan included, the street door of a *)
(* house opens into its living room, and no wall and nothing that cannot be  *)
(* moved stands in the way of a door of a flat or a house; with no more than *)
(* two plants, neither does the furniture of a flat (construyePiso places    *)
(* rooms, walls, fittings and furniture one after the other).                *)
DoorsAreFree(I, clase, plantas) ==
  /\ clase = "villa" => I.cuartos[1].x0 <= -30 /\ 30 <= I.cuartos[1].x1
  /\ \A paso \in I.pasos :
       /\ \A w \in I.muros : ~ Corta(w, paso)
       /\ \A s \in I.fijos : ~ Solapan(s, paso)
       /\ clase = "piso" /\ plantas < 3 => \A s \in I.solidos : ~ Solapan(s, paso)
DoorsAreNotWalledUp ==
  caso.clase \in {"piso", "villa"} => DoorsAreFree(Interior, caso.clase, caso.r.nPlantas)

(* Every floor the lift serves has, all along each of its flats, a facade    *)
(* with nothing in front of it at that height; flats of a floor do not       *)
(* overlap, the lift opens onto the stretch and a flat's number leads back   *)
(* to its place (planifica settles on one stretch for all the floors it      *)
(* keeps).                                                                   *)
FlatsAreInTheOpen(ed, plan, tramos) ==
  LET n == Len(plan.plantas)
  IN   /\ \A i \in 1..n, s \in -1..plan.upp - 1 :
            tramos[plan.plantas[i]][1] <= Fachada(plan, s)[1] /\ Fachada(plan, s)[2] <= tramos[plan.plantas[i]][2]
       /\ \A s \in 1..plan.upp - 1 : Fachada(plan, s - 1)[2] <= Fachada(plan, s)[1]
       /\ plan.fx0 < Ascensor(ed, plan) /\ Ascensor(ed, plan) < plan.fx1
       /\ \A u \in 1..n * plan.upp : \E q \in {SitioUnidad(plan, u)} :
            q # Nada /\ NumeroUnidad(plan, q.planta, q.slot) = u
FlatsHaveAFreeFacade ==
  caso.clase = "bloque" /\ DOMAIN TramosLibres(caso.ed) # {} =>
    FlatsAreInTheOpen(caso.ed, PlanPisos(Reparto(TramosLibres(caso.ed)), caso.unidades), TramosLibres(caso.ed))

(* However many cars a parcel has, the pedestals of its showroom do not      *)
(* touch one another, stay inside the hall and leave the seller's desk and   *)
(* the way in from the street free (the comment of planExpo: up to 12 cars,  *)
(* the hall as deep as their rows ask for).                                  *)
HallIsClear(Z, P, px) ==
  \A i \in DOMAIN P :
    /\ Z.x0 <= P[i].x0 /\ P[i].x1 <= Z.x1 /\ Z.z0 <= P[i].z0
    /\ \A q \in {Mesa(Z), Caja(px - 60, px + 60, Z.z1 - 450, Z.z1)} : ~ Solapan(P[i], q)
    /\ \A j \in DOMAIN P \ {i} : ~ Solapan(P[i], P[j])
ShowroomKeepsClear ==
  caso.clase = "expo" =>
    LET Z == Zaguan(caso.ed, caso.tramo, caso.coches, caso.muestra)
        X == FondoExpo(caso.ed, Z.x1 - Z.x0, caso.coches, caso.muestra)
    IN HallIsClear(Z, Peanas(Z, X), caso.ed.px)
=============================================================================
