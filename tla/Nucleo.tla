------------------------------- MODULE Nucleo -------------------------------
(***************************************************************************)
(* The core of the city viewer (city3d.js): the register of solids, the    *)
(* plan of the quarters and what the quality and the parcels leave of it,  *)
(* the city applied to the scene, the selection, the poses of the orbit    *)
(* and of the walker, the avatars and the light.  Each operator takes the  *)
(* viewer's state `s` and gives the state after the call; Visor makes the  *)
(* actions of them.                                                        *)
(*   Intentos  the places the planner draws for the quarters   Hitos  the  *)
(*   landmarks   Fraccion[q]  the tenths of each quarter drawn at quality q *)
(*   Mar  the cells in the sea   MediaPlanta[k]  half the width and half   *)
(*   the depth of the building of a parcel of sector k                     *)
(* Metres, on a grid without rotation; a solid is an upright box           *)
(* [id, tipo, x, z, hw, hd, celda].                                        *)
(***************************************************************************)
EXTENDS Vias, Listas
CONSTANTS Nada, N, Celda, Intentos, Hitos, Fraccion, Mar, MediaPlanta

SolidoCelda == 256
TiposBarrio == {"towers", "blocks", "villas", "warehouses"}
CellWorld(c) == <<c[1] * Celda + Celda \div 2, c[2] * Celda + Celda \div 2>>
CellOf(x, z) == IF x \in 0..N * Celda - 1 /\ z \in 0..N * Celda - 1 THEN <<x \div Celda, z \div Celda>> ELSE Nada
Radio(so) == Raiz(so.hw * so.hw + so.hd * so.hd)

(***************************************************************************)
(* The register: the list of solids and, by square of 256 m, the numbers   *)
(* of those whose footprint may touch it.                                  *)
(***************************************************************************)
Cuadro1(v) == v \div SolidoCelda
Lado == 0..Cuadro1(N * Celda + SolidoCelda - 1)
Cuadricula == Lado \X Lado
Solido ==
  LET tipos == TiposBarrio \cup {"hito", "parcela"}
  IN [id : (tipos \X Nat \X Nat) \cup (tipos \X (Nat \X Nat)), tipo : tipos, x : Int, z : Int, hw : Int, hd : Int, celda : (Int \X Int) \cup {Nada}]
Registro == [items : Seq(Solido), bins : [Cuadricula -> Seq(Nat)]]
(* Landmarks are listed once; what is drawn of a quarter is at most all of it; *)
(* and what is not there yet is told from what is.                           *)
ASSUME NucleoAssumption ==
  /\ N \in Nat \ {0} /\ Celda \in Nat \ {0}
  /\ Hitos \in Seq(Solido) /\ \A i, j \in DOMAIN Hitos : Hitos[i].tipo = "hito" /\ (Hitos[i] = Hitos[j] => i = j)
  /\ Intentos \in Seq([cuenta : Nat, lugares : Seq([x : Int, z : Int, w : Int, d : Int, agua : BOOLEAN, calle : BOOLEAN, via : BOOLEAN, kind : TiposBarrio])])
  /\ \A q \in DOMAIN Fraccion : Fraccion[q] \in 0..10
  /\ MediaPlanta \in Seq(Int \X Int)
  /\ Nada \notin Registro /\ Nada \notin Seq(Solido)
CatastroNuevo == [items |-> <<>>, bins |-> [k \in Cuadricula |-> <<>>]]
Toca(so) ==
  LET r == Radio(so)
  IN {k \in Cuadricula : k[1] \in Cuadro1(so.x - r)..Cuadro1(so.x + r) /\ k[2] \in Cuadro1(so.z - r)..Cuadro1(so.z + r)}
CatastroAlta(cat, so) ==
  [items |-> Append(cat.items, so),
   bins |-> [k \in Cuadricula |-> IF k \in Toca(so) THEN Append(cat.bins[k], Len(cat.items) + 1) ELSE cat.bins[k]]]
CatastroAltas(cat, sos) == Pliega(CatastroAlta, cat, sos)
CatastroReconstruye(items) == CatastroAltas(CatastroNuevo, items)
(* Without the solids of those kinds: the rest enter it again. *)
CatastroQuita(cat, tipos) == CatastroReconstruye(Kept(cat.items, {so \in ToSet(cat.items) : so.tipo \notin tipos}))
(* The numbers of the solids in the squares from a to b, in order. *)
EnCuadros(cat, a, b) ==
  Ordena({i \in DOMAIN cat.items : \E k \in ((a[1]..b[1]) \X (a[2]..b[2])) \cap Cuadricula :
            \E n \in DOMAIN cat.bins[k] : cat.bins[k][n] = i}, LAMBDA i, j : i < j)
HuellaLibre(cat, x, z, r) ==
  LET cerca == EnCuadros(cat, <<Cuadro1(x - r) - 1, Cuadro1(z - r) - 1>>, <<Cuadro1(x + r) + 1, Cuadro1(z + r) + 1>>)
      libre(so) == LET ro == Radio(so) IN 100 * ((so.x - x) * (so.x - x) + (so.z - z) * (so.z - z)) >= 64 * (r + ro) * (r + ro)
  IN \A n \in DOMAIN cerca : libre(cat.items[cerca[n]])
EnCuadro(cat, x, z) == LET k == <<Cuadro1(x), Cuadro1(z)>> IN IF k \in Cuadricula THEN cat.bins[k] ELSE <<>>
SolidoBajo(cat, x, z) ==
  LET pisa(i) == Magnitud(x - cat.items[i].x) <= cat.items[i].hw /\ Magnitud(z - cat.items[i].z) <= cat.items[i].hd
      bajo == SelectSeq(EnCuadro(cat, x, z), pisa)
  IN IF cat = Nada THEN Nada ELSE IF bajo = <<>> THEN Nada ELSE cat.items[Head(bajo)]

(* A disc of radius r at p pushed out of solid so: along the normal of the   *)
(* edge, or by the nearest face from inside.                                 *)
Empuja(p, r, so) ==
  LET lx == p[1] - so.x
      lz == p[2] - so.z
      ex == lx - Tope(lx, -so.hw, so.hw)
      ez == lz - Tope(lz, -so.hd, so.hd)
      d == Raiz(ex * ex + ez * ez)
      px == so.hw - Magnitud(lx)
      pz == so.hd - Magnitud(lz)
      signo(v) == IF v >= 0 THEN 1 ELSE -1
  IN CASE ex * ex + ez * ez >= r * r -> p
       [] d > 0 -> <<p[1] + (ex * (r - d)) \div d, p[2] + (ez * (r - d)) \div d>>
       [] px < pz -> <<p[1] + signo(lx) * (r + px), p[2]>>
       [] OTHER -> <<p[1], p[2] + signo(lz) * (r + pz)>>
Alrededor(cat, p, r) == EnCuadros(cat, <<Cuadro1(p[1] - r), Cuadro1(p[2] - r)>>, <<Cuadro1(p[1] + r), Cuadro1(p[2] + r)>>)
EmpujarFuera(cat, p, r) ==
  LET dosVueltas == IF cat = Nada THEN <<>> ELSE <<1, 2>>
  IN Pliega(LAMBDA q, n : Pliega(LAMBDA a, i : Empuja(a, r, cat.items[i]), q, Alrededor(cat, q, r)), p, dosVueltas)
ClearOfLandmarks(cat, p) == EmpujarFuera(cat, p, 2)

(***************************************************************************)
(* The quarters.  An attempt is [x, z, w, d, agua, calle, via, kind]: what *)
(* the quarter's own numbers draw, whether it falls in the water, in its   *)
(* streets or over a road of the map.  One that only the road rejects is a *)
(* ghost: it keeps its place and its number and is not built.  A quarter   *)
(* is [cuenta, lugares]: how many to build and its attempts.               *)
(***************************************************************************)
SolidoDe(i, j, a) == [id |-> <<a.kind, i, j>>, tipo |-> a.kind, x |-> a.x, z |-> a.z, hw |-> a.w \div 2, hd |-> a.d \div 2, celda |-> CellOf(a.x, a.z)]
Planta(e, i, a) ==
  LET so == SolidoDe(i, Len(e.lista) + e.sv, a)
      libre == \A cat \in {e.cat, e.fan} : HuellaLibre(cat, a.x, a.z, Radio(so))
  IN IF Len(e.lista) + e.sv >= Intentos[i].cuenta \/ a.agua \/ a.calle \/ ~libre THEN e
     ELSE IF a.via THEN [e EXCEPT !.sv = @ + 1, !.fan = CatastroAlta(@, so)]
     ELSE [e EXCEPT !.cat = CatastroAlta(@, so), !.lista = Append(@, so)]
PlantaBarrio(p, i) ==
  LET nuevo == [p EXCEPT !.lista = <<>>, !.sv = 0]
      hecho(e) == [e EXCEPT !.edificios = Append(@, e.lista)]
  IN hecho(Pliega(LAMBDA e, a : Planta(e, i, a), nuevo, Intentos[i].lugares))
PlanificarBarrios ==
  LET solar == [cat |-> CatastroReconstruye(Hitos), fan |-> CatastroNuevo, lista |-> <<>>, sv |-> 0, edificios |-> <<>>]
  IN Pliega(PlantaBarrio, solar, [i \in DOMAIN Intentos |-> i]).edificios
(* Of each quarter, its first buildings, and of these those no parcel hides. *)
Visibles(lista, quality, oculto) ==
  LET primeros == SubSeq(lista, 1, (Len(lista) * Fraccion[quality] + 5) \div 10)
  IN Kept(primeros, {so \in ToSet(primeros) : so.id \notin oculto})
Dibujados(edificios, quality, oculto) ==
  Pliega(LAMBDA sec, i : sec \o Visibles(edificios[i], quality, oculto), <<>>, [i \in DOMAIN edificios |-> i])
(* As it would be without taking the buildings drawn before out of the       *)
(* register.                                                                 *)
LevantaSinQuitar(s, vistos) == [s EXCEPT !.barrios = vistos, !.catastro = CatastroAltas(@, vistos)]
(* The meshes of the quarters at the quality of now, and the register with   *)
(* exactly what they draw.                                                   *)
Levanta(s, vistos) ==
  [s EXCEPT !.barrios = vistos, !.catastro = CatastroAltas(CatastroQuita(@, TiposBarrio), vistos)]
BuildClusters(s) == Levanta(s, Dibujados(s.edificios, s.quality, s.oculto))

(***************************************************************************)
(* The city view.  A parcel is [celda, kind, owner, since, name, handle,   *)
(* pending, sale, distrito], an asset [celda, sale].  Of two parcels of a   *)
(* cell the later one counts.                                              *)
(***************************************************************************)
Celdas == (0..N - 1) \X (0..N - 1)
TopeVentas == 200
TopeNombres == 300
CeldasEnOrden == Ordena(Celdas, LAMBDA a, b : a[2] < b[2] \/ (a[2] = b[2] /\ a[1] < b[1]))
ParcelAt(d) == [c \in Celdas |-> LET suyas == {i \in DOMAIN d.parcels : d.parcels[i].celda = c} IN IF suyas = {} THEN 0 ELSE Max(suyas)]
ConParcela(d) == Kept(CeldasEnOrden, {c \in Celdas : ParcelAt(d)[c] # 0})
ParcelaDe(d, c) == d.parcels[ParcelAt(d)[c]]
ParcelInfo(s, c) == IF s.city = Nada \/ s.parcelAt = Nada \/ s.parcelAt[c] = 0 THEN Nada ELSE s.city.parcels[s.parcelAt[c]]
EstadoCelda(d) == [c \in Celdas |-> CASE ParcelAt(d)[c] = 0 -> IF c \in Mar THEN 1 ELSE 0
                                       [] d.me # Nada /\ ParcelaDe(d, c).owner = d.me -> 3
                                       [] OTHER -> 2]
ParcelaSolida(d, c) ==
  LET w == CellWorld(c)
      m == MediaPlanta[ParcelaDe(d, c).kind]
  IN [id |-> <<"parcela", c>>, tipo |-> "parcela", x |-> w[1], z |-> w[2], hw |-> m[1], hd |-> m[2], celda |-> c]
ParcelasSolidas(d) == [i \in DOMAIN ConParcela(d) |-> ParcelaSolida(d, ConParcela(d)[i])]
(* The quarter buildings a parcel of the city stands in: within 0.8 of the   *)
(* sum of both radii, in the same cell.                                      *)
Tapa(ps, eb) ==
  LET dx == ps.x - eb.x
      dz == ps.z - eb.z
      suma == Radio(ps) + Radio(eb)
  IN ps.celda = eb.celda /\ 100 * (dx * dx + dz * dz) < 64 * suma * suma
Ocultos(edificios, d) ==
  LET ps == ParcelasSolidas(d)
  IN {eb.id : eb \in {e \in UNION {ToSet(edificios[i]) : i \in DOMAIN edificios} : \E n \in DOMAIN ps : Tapa(ps[n], e)}}
(* The rings of the assets on sale: every one is written in the same place,  *)
(* the number of parcels on sale.                                            *)
Anillos(d) ==
  LET enVenta == SelectSeq(d.assets, LAMBDA a : a.sale /\ a.celda \in Celdas)
      hueco == Len(SelectSeq(ConParcela(d), LAMBDA c : ParcelaDe(d, c).sale))
      cuenta == Len(SelectSeq(d.assets, LAMBDA a : a.sale))
  IN IF enVenta = <<>> \/ hueco >= cuenta THEN <<>> ELSE <<Last(enVenta)>>

(***************************************************************************)
(* A set of labels: what is on it, whether its mesh is sent and which of    *)
(* its labels the last cull let through.  They are placed by priority; the  *)
(* cull keeps one that touches none already kept.                          *)
(***************************************************************************)
SinEtiquetas == [items |-> <<>>, visible |-> FALSE, lvis |-> {}]
LabelSetSet(items) ==
  LET orden == Ordena(DOMAIN items, LAMBDA i, j : items[i].priority < items[j].priority \/ (items[i].priority = items[j].priority /\ i < j))
  IN [items |-> [n \in DOMAIN orden |-> items[orden[n]]], visible |-> items # <<>>, lvis |-> DOMAIN items]
Primeros(sec, n) == SubSeq(sec, 1, Min({n, Len(sec)}))
Cull(ls, choca) == [ls EXCEPT !.lvis = DOMAIN ls.items \ choca]
Rotulos(d, campo, prioridad) ==
  LET con == SelectSeq(ConParcela(d), LAMBDA c : ParcelaDe(d, c)[campo] \notin {FALSE, Nada})
  IN [i \in DOMAIN con |-> [celda |-> con[i], text |-> ParcelaDe(d, con[i])[campo], priority |-> prioridad]]
RefreshSelection(s) ==
  IF ~s.ready THEN s
  ELSE IF s.sel = Nada THEN [s EXCEPT !.visibles = @ \ {"selFill", "selLoop"}, !.selLabel.visible = FALSE]
  ELSE [s EXCEPT !.visibles = @ \cup {"selFill", "selLoop"},
                 !.selLabel = LabelSetSet(<<[celda |-> s.sel, text |-> ParcelInfo(s, s.sel), priority |-> 0]>>)]
(* The quarters are drawn again only when a parcel covers, or stops          *)
(* covering, another of their buildings.                                     *)
Oculta(s, ocultos) ==
  LET puestos == [s EXCEPT !.oculto = ocultos] IN IF ocultos # s.oculto /\ s.barrios # Nada THEN BuildClusters(puestos) ELSE puestos
PonParcelas(s, solidas) ==
  [s EXCEPT !.parcelas = solidas,
            !.catastro = IF @ = Nada THEN Nada ELSE CatastroAltas(CatastroQuita(@, {"parcela"}), solidas)]
ApplyCity(s, d) ==
  RefreshSelection(
    [PonParcelas(Oculta(s, Ocultos(s.edificios, d)), ParcelasSolidas(d)) EXCEPT
       !.parcelAt = ParcelAt(d), !.cellState = EstadoCelda(d), !.saleRings = Anillos(d), !.aplicada = d,
       !.saleLabels = LabelSetSet(Primeros(Rotulos(d, "sale", 1), TopeVentas)),
       !.ownerLabels = LabelSetSet(Primeros(Rotulos(d, "handle", 2), TopeNombres))])

(***************************************************************************)
(* Selection and pointer.                                                  *)
(***************************************************************************)
SetParcelGrid(s, on) == [s EXCEPT !.grid = on]
DoSelect(s, cell, fromUser) ==
  LET c == IF cell \in Celdas THEN cell ELSE Nada
      puesta == [s EXCEPT !.sel = c]
  IN IF fromUser /\ c # Nada /\ s.sel = c THEN s
     ELSE RefreshSelection(IF c = Nada THEN puesta ELSE SetParcelGrid(puesta, TRUE))
SetHover(s, cell) ==
  IF cell = s.hover THEN s
  ELSE [s EXCEPT !.hover = cell, !.visibles = IF cell = Nada THEN @ \ {"hover"} ELSE @ \cup {"hover"}]

(***************************************************************************)
(* Avatars: who the network says is here, and the labels over them.        *)
(***************************************************************************)
Rotulo(a) == [name |-> IF a.verified THEN a.handle ELSE a.name, verified |-> a.verified]
TextoAvatar(e, pk) == [pk |-> pk, text |-> e, priority |-> 0]
RebuildAvatarLabels(s) ==
  [s EXCEPT !.avatarLabels = LabelSetSet([i \in DOMAIN s.avatarOrder |-> TextoAvatar(s.avatars[s.avatarOrder[i]], s.avatarOrder[i])])]
SetPresence(s, list) ==
  LET otros == SelectSeq(list, LAMBDA a : ~a.me)
      vistos == {otros[i].pk : i \in DOMAIN otros}
      ultimo(pk) == Rotulo(otros[Max({i \in DOMAIN otros : otros[i].pk = pk})])
      nuevos == SelectSeq([i \in DOMAIN otros |-> otros[i].pk], LAMBDA pk : pk \notin DOMAIN s.avatars)
      orden == SelectSeq(s.avatarOrder \o nuevos, LAMBDA pk : pk \in vistos)
      cambio == vistos # DOMAIN s.avatars \/ \E pk \in vistos \cap DOMAIN s.avatars : s.avatars[pk] # ultimo(pk)
      puesto == [s EXCEPT !.avatars = [pk \in vistos |-> ultimo(pk)], !.avatarOrder = orden]
  IN IF cambio /\ s.ready THEN RebuildAvatarLabels(puesto) ELSE puesto
(* Ghosts: the parcels of the other branches of the tree that this one lacks *)
(* or has otherwise.                                                         *)
SetGhosts(s, list) ==
  LET vistos == SelectSeq(list, LAMBDA g : g.celda \in Celdas /\ g.estado # "solo_aqui")
  IN IF ~s.ready THEN [s EXCEPT !.ghosts = list]
     ELSE [s EXCEPT !.ghosts = list, !.fantasmas = vistos]

(***************************************************************************)
(* Poses.  The orbit looks at the point t from the angle v and the         *)
(* distance r; on foot the visitor is at pos, faces yaw and floats fly     *)
(* above the ground.  A flight takes the orbit to a view.                  *)
(***************************************************************************)
MinR == 30
MaxR == 4 * N * Celda
RadioAPie == 40
AlturaSolido == 100
Vuelta360(v) == v % 360
Vista(t, v, r) == [t |-> t, v |-> Vuelta360(v), r |-> Tope(r, MinR, MaxR)]
Centro == <<(N * Celda) \div 2, (N * Celda) \div 2>>
CityView == Vista(Centro, 30, N * Celda)
SkylineView == IF Hitos = <<>> THEN Vista(Centro, 183, 2600) ELSE Vista(<<Hitos[1].x, Hitos[1].z>>, 183, 1800)
CancelFlight(s) == [s EXCEPT !.flight = Nada]
Fly(s, to) == [s EXCEPT !.flight = to]
PonVista(s, v) == [s EXCEPT !.flight = Nada, !.cur = v, !.goal = v]
FlyTo(s, c) ==
  LET w == CellWorld(c)
  IN IF s.mode = "walk" THEN [s EXCEPT !.pos = <<w[1], w[2] + (Celda * 42) \div 100>>, !.yaw = 180]
     ELSE Fly(s, Vista(w, s.cur.v, (Celda * 11) \div 2))
FlyToLandmark(s, l) ==
  IF s.mode = "walk" THEN [s EXCEPT !.pos = <<l.x, l.z + Max({2 * l.hw, 120})>>, !.yaw = 0]
  ELSE Fly(s, Vista(<<l.x, l.z>>, s.cur.v, Max({6 * l.hw, 300})))
(* The place on foot in front of the selected parcel, or under the camera,   *)
(* clear of every solid.                                                     *)
PieDe(s) ==
  ClearOfLandmarks(s.catastro, IF s.sel = Nada THEN s.cur.t ELSE <<CellWorld(s.sel)[1], CellWorld(s.sel)[2] + Celda \div 2 + 12>>)
ModoWalk(s) == [s EXCEPT !.mode = "walk", !.pos = PieDe(s), !.yaw = IF s.sel = Nada THEN Vuelta360(s.cur.v + 180) ELSE 0, !.fly = 0]
ModoOrbit(s) ==
  LET v == Vista(s.pos, s.yaw - 180, (Celda * 5) \div 2)
  IN [s EXCEPT !.mode = "orbit", !.cur = v, !.goal = v]
PonModo(s, m) == IF m = "walk" THEN ModoWalk(s) ELSE ModoOrbit(s)
PoseAPie(s, p) == [s EXCEPT !.pos = ClearOfLandmarks(s.catastro, p.pos), !.yaw = p.yaw, !.fly = p.fly]
(* The point of the camera: above the target in orbit, the eyes on foot. *)
Camara(s) ==
  IF s.xr THEN <<s.rig.pos[1], s.rig.pos[2], 0>>
  ELSE IF s.mode = "walk" THEN <<s.pos[1], s.pos[2], s.fly>> ELSE <<s.cur.t[1], s.cur.t[2], s.cur.r>>

(***************************************************************************)
(* The camera in a frame.  In orbit a flight is under way or arrives       *)
(* (`llega`), and without one the camera is taken to have caught up with   *)
(* its goal; on foot the visitor takes the step `mov`, solids stop him     *)
(* unless he floats over them, and the orbit follows his feet.             *)
(***************************************************************************)
UpdateOrbit(s, llega) ==
  IF s.flight = Nada THEN [s EXCEPT !.cur = s.goal]
  ELSE IF llega THEN [s EXCEPT !.cur = s.flight, !.goal = s.flight, !.flight = Nada]
  ELSE [s EXCEPT !.goal = s.cur]
Camina(s, mov) ==
  LET p == <<s.pos[1] + mov[1], s.pos[2] + mov[2]>>
      alto == SolidoBajo(s.catastro, p[1], p[2])
  IN IF mov = <<0, 0>> THEN s
     ELSE IF s.fly < 2 \/ alto = Nada \/ s.fly < AlturaSolido THEN [s EXCEPT !.pos = EmpujarFuera(s.catastro, p, 1)]
     ELSE [s EXCEPT !.pos = p]
ColocaCamaraAPie(s) ==
  LET pie(v) == [v EXCEPT !.t = s.pos, !.r = RadioAPie] IN [s EXCEPT !.cur = pie(@), !.goal = pie(@)]
UpdateCamera(s, llega, mov) == IF s.mode = "walk" THEN ColocaCamaraAPie(Camina(s, mov)) ELSE UpdateOrbit(s, llega)

(***************************************************************************)
(* Light and quality.  The light is the hour it was computed for and how   *)
(* much a storm takes from it, in tenths.  Time counts quarters of an hour *)
(* of Dubai; an hour the player fixes wins over the clock.                 *)
(***************************************************************************)
DubaiHour(s, t) == IF s.hour # Nada THEN s.hour ELSE t
SinAtenuar(h) == [hora |-> h, k |-> 0]
PonLuz(s, t) == [s EXCEPT !.luz = SinAtenuar(DubaiHour(s, t))]
SetQuality(s, q) == LET puesta == [s EXCEPT !.quality = q] IN IF s.ready THEN BuildClusters(puesta) ELSE puesta

(***************************************************************************)
(* The world built when the map has loaded: landmarks and quarters in the  *)
(* register, and the view of the skyline.                                  *)
(***************************************************************************)
Mundo(s) ==
  BuildClusters([s EXCEPT !.edificios = PlanificarBarrios, !.catastro = CatastroReconstruye(Hitos), !.cur = SkylineView, !.goal = SkylineView])
SetCity(s, d) ==
  IF d = s.city THEN s ELSE [s EXCEPT !.city = d, !.pending = IF s.ready THEN @ ELSE d]

(***************************************************************************)
(* The loop asks for a frame while the view is shown, the page is visible  *)
(* and no headset draws.                                                   *)
(***************************************************************************)
SyncLoop(s) == [s EXCEPT !.raf = s.visible /\ ~s.docHidden /\ ~s.disposed /\ ~s.xr]
SetVisible(s, b) == SyncLoop([s EXCEPT !.visible = b])
Visibility(s, oculto) == SyncLoop([s EXCEPT !.docHidden = oculto])

(***************************************************************************)
(* The headset: where the visitor is set down, a step or a teleport, and   *)
(* the return to the screen on foot at the same place.                     *)
(***************************************************************************)
VrPlacement(s) ==
  IF s.mode = "walk" THEN s.pos
  ELSE LET c == IF s.sel = Nada THEN <<N \div 2, N \div 2>> ELSE s.sel
       IN ClearOfLandmarks(s.catastro, <<CellWorld(c)[1], CellWorld(c)[2] + (Celda * 42) \div 100>>)
EnterVR(s) == SyncLoop([s EXCEPT !.xr = TRUE, !.rig = [pos |-> VrPlacement(s), yaw |-> IF s.mode = "walk" THEN s.yaw ELSE 0]])
XrInput(s, p, giro) == [s EXCEPT !.rig = [pos |-> p, yaw |-> Vuelta360(@.yaw + giro)]]
RigNuevo == [pos |-> <<0, 0>>, yaw |-> 0]
RestoreDesktop(s) ==
  SyncLoop([s EXCEPT !.xr = FALSE, !.pos = s.rig.pos, !.yaw = s.rig.yaw, !.fly = 0, !.mode = "walk", !.rig = RigNuevo])

(***************************************************************************)
(* The fluency measure: four views, a second of warming and some of        *)
(* counting in each, and then the pose from which it began.                *)
(***************************************************************************)
VistasBench == <<"ciudad", "centro", "cerca", "a_pie">>
PoseDe(s) == [mode |-> s.mode, cur |-> s.cur, goal |-> s.goal, flight |-> s.flight, pos |-> s.pos, yaw |-> s.yaw, fly |-> s.fly]
SinMedida == [activo |-> FALSE, i |-> 0, fase |-> 2, guardado |-> Nada]
BenchNuevo(s) == [SinMedida EXCEPT !.activo = TRUE, !.guardado = PoseDe(s)]
PonBench(s, vista) ==
  CASE vista = "ciudad" -> PonVista(s, CityView)
    [] vista = "centro" -> PonVista(s, SkylineView)
    [] vista = "cerca" -> PonVista(s, IF Hitos = <<>> THEN CityView ELSE Vista(<<Hitos[1].x, Hitos[1].z>>, 149, Max({6 * Hitos[1].hw, 300})))
    [] vista = "a_pie" -> [s EXCEPT !.pos = Centro, !.yaw = 0, !.fly = 0]
BenchDevuelve(s, g) ==
  IF g.mode = "walk" THEN [s EXCEPT !.pos = g.pos, !.yaw = g.yaw, !.fly = g.fly]
  ELSE [PonVista(s, g.cur) EXCEPT !.goal = g.goal, !.flight = g.flight]
=============================================================================
