------------------------------- MODULE Aceras -------------------------------
(***************************************************************************)
(* The pavements of a quarter and the walks along them (city/vida.js).     *)
(* Lengths are centimetres in the frame of the quarter's grid; the widening *)
(* of the kerb at the corners and the sideways offset of each walker are   *)
(* left out.  A quarter's grid t is [i, R, paso, calzada, acera, radio,    *)
(* vias, pintadas, pisadas, turno, otras]: vias the lines <<family, index>> *)
(* with a street, pintadas the zebra crossings painted, pisadas the pairs  *)
(* of nodes with water, a building or another roadway between them, of     *)
(* which `otras` are there only when every building is in the catastro.    *)
(***************************************************************************)
EXTENDS Vias
CONSTANT Nada


ParadaMax == 60000      \* cm along the pavement to the stop; further, a taxi
RutaMax == 300000

(***************************************************************************)
(* The graph.  Node <<k, j, sx, sz, ab>>: crossing, corner and pavement (0 *)
(* along street j, 1 along street k).                                      *)
(***************************************************************************)
ZonaDeTrama(t, completo) ==
  LET n == t.R \div t.paso
      h == t.calzada \div 2
      metros(c) == (c \div 100) * (c \div 100)
      semi(k) == LET s == 100 * Raiz(Max({0, metros(t.R) - metros(k * t.paso)})) IN IF s * 10 >= t.paso * 6 THEN s ELSE -1
  IN [i |-> t.i, n |-> n, paso |-> t.paso, h |-> h, m |-> h + 45 + t.acera \div 2, T |-> h + t.radio,
      Dc |-> h + 45 + t.acera + 155, vias |-> t.vias,
      semi |-> [k \in -n..n |-> semi(k)] @@ <<>>,        \* worked out once, not at each use
      pintadas |-> t.pintadas, turno |-> t.turno, pisadas |-> IF completo THEN t.pisadas ELSE t.pisadas \ t.otras]
SemiDe(Z, k) == IF Magnitud(k) <= Z.n THEN Z.semi[k] ELSE -1
CruceExiste(Z, k, j) ==
  /\ SemiDe(Z, k) > 0 /\ SemiDe(Z, j) > 0
  /\ Magnitud(k * Z.paso) <= SemiDe(Z, j) /\ Magnitud(j * Z.paso) <= SemiDe(Z, k)
  /\ {<<1, k>>, <<0, j>>} \subseteq Z.vias
EsquinaExiste(Z, k, j, sx, sz) ==
  /\ CruceExiste(Z, k, j)
  /\ Magnitud(k * Z.paso + sx * Z.T) <= SemiDe(Z, j) - 1
  /\ Magnitud(j * Z.paso + sz * Z.T) <= SemiDe(Z, k) - 1

(* The number of a node, -1 outside the grid, and where the number says it   *)
(* is.                                                                       *)
Nodo(Z, nd) ==
  LET w == 2 * Z.n + 1
      bit(s) == IF s > 0 THEN 1 ELSE 0
  IN IF Magnitud(nd[1]) > Z.n \/ Magnitud(nd[2]) > Z.n THEN -1
     ELSE (((nd[1] + Z.n) * w + nd[2] + Z.n) * 4 + bit(nd[3]) + 2 * bit(nd[4])) * 2 + nd[5]
NodoLocal(Z, id, d) ==
  LET w == 2 * Z.n + 1
      es == (id \div 2) % 4
      r == id \div 8
      signo(b) == IF b = 1 THEN 1 ELSE -1
      sx == signo(es % 2)
      sz == signo(es \div 2)
      j == (r % w) - Z.n
      k == r \div w - Z.n
  IN IF id % 2 = 0 THEN <<k * Z.paso + sx * Z.T, j * Z.paso + sz * d>> ELSE <<k * Z.paso + sx * d, j * Z.paso + sz * Z.T>>

(* An edge [a, b, peso, cebra, c0, c1]; the crossing runs from c0 to c1. *)
Arista(Z, a, b, len) == [a |-> Nodo(Z, a), b |-> Nodo(Z, b), peso |-> len, cebra |-> Nada, c0 |-> 0, c1 |-> 0]
Transitable(Z, e) == e.peso >= 50 /\ {e.a, e.b} \notin Z.pisadas
Signos == {-1, 1}
Vueltas(Z, k, j) ==
  {Arista(Z, <<k, j, s[1], s[2], 0>>, <<k, j, s[1], s[2], 1>>, 2 * (Z.T - Z.m)) :
     s \in {s \in Signos \X Signos : EsquinaExiste(Z, k, j, s[1], s[2])}}
PasosDeCebra(Z, k, j) ==
  LET borde == Z.T - Z.m + Magnitud(Z.Dc - Z.m)
      paso(a, b, cebra) == [Arista(Z, a, b, 2 * (borde + Z.m)) EXCEPT !.cebra = cebra, !.c0 = borde, !.c1 = borde + 2 * Z.m]
  IN {paso(<<k, j, -1, s, 0>>, <<k, j, 1, s, 0>>, <<Z.i, k, j, 0, s>>) :
        s \in {s \in Signos : /\ EsquinaExiste(Z, k, j, -1, s) /\ EsquinaExiste(Z, k, j, 1, s)
                              /\ <<k, j, 0, s>> \in Z.pintadas}}
     \cup {paso(<<k, j, s, -1, 1>>, <<k, j, s, 1, 1>>, <<Z.i, k, j, 1, s>>) :
        s \in {s \in Signos : /\ EsquinaExiste(Z, k, j, s, -1) /\ EsquinaExiste(Z, k, j, s, 1)
                              /\ <<k, j, 1, s>> \in Z.pintadas}}
Lados(Z, k, j) ==
  {Arista(Z, <<k, j, 1, s, 0>>, <<k + 1, j, -1, s, 0>>, Z.paso - 2 * Z.T) :
     s \in {s \in Signos : EsquinaExiste(Z, k, j, 1, s) /\ EsquinaExiste(Z, k + 1, j, -1, s)}}
  \cup {Arista(Z, <<k, j, s, 1, 1>>, <<k, j + 1, s, -1, 1>>, Z.paso - 2 * Z.T) :
     s \in {s \in Signos : EsquinaExiste(Z, k, j, s, 1) /\ EsquinaExiste(Z, k, j + 1, s, -1)}}
CruceGrafo(Z, k, j) ==
  IF CruceExiste(Z, k, j) THEN {e \in Vueltas(Z, k, j) \cup PasosDeCebra(Z, k, j) \cup Lados(Z, k, j) : Transitable(Z, e)} ELSE {}

(* The stops: in each of eight directions the node with pavement furthest    *)
(* out, the least on a tie.                                                  *)
Direcciones == ({-1, 0, 1} \X {-1, 0, 1}) \ {<<0, 0>>}
ParadasDe(Z, aristas) ==
  LET nodos == UNION {{e.a, e.b} : e \in aristas}
      lejos(d, id) == LET l == NodoLocal(Z, id, Z.m) IN l[1] * d[1] + l[2] * d[2]
      parada(d) == CHOOSE id \in nodos : \A o \in nodos : \/ lejos(d, o) < lejos(d, id)
                                                          \/ lejos(d, o) = lejos(d, id) /\ id <= o
  IN IF nodos = {} THEN {} ELSE {parada(d) : d \in Direcciones}
Grafo(t, completo) ==
  LET Z == ZonaDeTrama(t, completo)
      aristas == UNION {CruceGrafo(Z, k, j) : k \in -Z.n..Z.n, j \in -Z.n..Z.n}
      nodos == UNION {{e.a, e.b} : e \in aristas}
  IN Z @@ [aristas |-> aristas, adj |-> [nd \in nodos |-> {e \in aristas : nd \in {e.a, e.b}}],
           paradas |-> ParadasDe(Z, aristas)]

(* The turn of a crossing's zebras: those over street j, half a cycle after  *)
(* those over street k.                                                      *)
FaseComun(Z, cebra, ciclo) == Z.turno[<<cebra[2], cebra[3]>>] % ciclo
FaseCruce(Z, cebra, ciclo) == (Z.turno[<<cebra[2], cebra[3]>>] + cebra[4] * (ciclo \div 2)) % ciclo

(***************************************************************************)
(* The access of a front door p = [x, z, tapados] to the pavement: of the  *)
(* four sides of its block, the nearest that is an edge and is not blocked. *)
(***************************************************************************)
LadosManzana(Z, p) ==
  LET i == p.x \div Z.paso
      j == p.z \div Z.paso
      x0 == i * Z.paso
      x1 == x0 + Z.paso
      z0 == j * Z.paso
      z1 == z0 + Z.paso
      u(c, c0) == Tope(c, c0 + Z.T + 50, c0 + Z.paso - Z.T - 50)
      lado(n, a, b, x, z, desde) ==
        [lado |-> n, a |-> Nodo(Z, a), b |-> Nodo(Z, b), u |-> desde - Z.T,
         hasta |-> Magnitud(p.x - x) + Magnitud(p.z - z)]
  IN <<lado("oeste", <<i, j, 1, 1, 1>>, <<i, j + 1, 1, -1, 1>>, x0 + Z.m, u(p.z, z0), u(p.z, z0) - z0),
       lado("este", <<i + 1, j, -1, 1, 1>>, <<i + 1, j + 1, -1, -1, 1>>, x1 - Z.m, u(p.z, z0), u(p.z, z0) - z0),
       lado("sur", <<i, j, 1, 1, 0>>, <<i + 1, j, -1, 1, 0>>, u(p.x, x0), z0 + Z.m, u(p.x, x0) - x0),
       lado("norte", <<i, j + 1, 1, -1, 0>>, <<i + 1, j + 1, -1, -1, 0>>, u(p.x, x0), z1 - Z.m, u(p.x, x0) - x0)>>
Acceso(Z, p) ==
  LET lados == LadosManzana(Z, p)
      arista(l) == {e \in Z.aristas : e.a = l.a /\ e.b = l.b /\ e.cebra = Nada}
      sirve == {l \in DOMAIN lados : arista(lados[l]) # {} /\ lados[l].lado \notin p.tapados /\ lados[l].hasta < 12000}
      l == lados[CHOOSE l \in sirve : \A o \in sirve : \/ lados[o].hasta > lados[l].hasta
                                                       \/ lados[o].hasta = lados[l].hasta /\ l <= o]
  IN IF sirve = {} THEN Nada
     ELSE LET e == CHOOSE e \in arista(l) : TRUE
          IN [e |-> e, u |-> Tope(l.u, 10, e.peso - 10), hasta |-> l.hasta, taxi |-> Z.m - Z.h - 80]

(***************************************************************************)
(* Walks: the tree of least centimetres from an access, and the walk of a  *)
(* trip, a sequence of stretches [d, cebra].                               *)
(***************************************************************************)
ArbolDe(Z, ac) ==
  LET nodos == DOMAIN Z.adj
      mete(A, nd, d, por) == IF A.dist[nd] >= 0 /\ A.dist[nd] <= d THEN A
                             ELSE [dist |-> [A.dist EXCEPT ![nd] = d], prev |-> [A.prev EXCEPT ![nd] = por],
                                   cola |-> A.cola \cup {nd}]
      saca(A) ==
        LET nd == CHOOSE q \in A.cola : \A o \in A.cola : A.dist[q] < A.dist[o] \/ (A.dist[q] = A.dist[o] /\ q <= o)
            otro(e) == IF e.a = nd THEN e.b ELSE e.a
        IN FoldSet(LAMBDA e, B : mete(B, otro(e), A.dist[nd] + e.peso, e), [A EXCEPT !.cola = @ \ {nd}], Z.adj[nd])
      nada == [dist |-> [nd \in nodos |-> -1], prev |-> [nd \in nodos |-> Nada], cola |-> {}]
      ini == mete(mete(nada, ac.e.a, ac.u, Nada), ac.e.b, ac.e.peso - ac.u, Nada)
      arboles == [dist : [nodos -> Int], prev : [nodos -> Z.aristas \cup {Nada}], cola : SUBSET nodos]
      tras[x \in arboles \X Nat] ==             \* tree x[1] after x[2] more nodes, in two halves
        CASE x[1].cola = {} \/ x[2] = 0 -> x[1]
          [] x[1].cola # {} /\ x[2] = 1 -> saca(x[1])
          [] OTHER -> tras[<<tras[<<x[1], x[2] \div 2>>], x[2] - x[2] \div 2>>]
  IN tras[<<ini, Cardinality(nodos)>>]

(* Centimetres from the tree's access to access b, and the node it arrives   *)
(* by: -1 along the same edge.                                               *)
HastaAcceso(A, ac, b) ==
  LET por == (IF A.dist[b.e.a] >= 0 THEN {<<A.dist[b.e.a] + b.u, b.e.a>>} ELSE {})
             \cup (IF A.dist[b.e.b] >= 0 THEN {<<A.dist[b.e.b] + b.e.peso - b.u, b.e.b>>} ELSE {})
             \cup (IF ac.e = b.e THEN {<<Magnitud(ac.u - b.u), -1>>} ELSE {})
      orden(v) == IF v = -1 THEN 0 ELSE IF v = b.e.a THEN 1 ELSE 2
  IN IF por = {} THEN Nada
     ELSE LET o == CHOOSE o \in por : \A q \in por : o[1] < q[1] \/ (o[1] = q[1] /\ orden(o[2]) <= orden(q[2]))
          IN [cm |-> o[1], nodo |-> o[2]]

Llano(d) == <<[d |-> d, cebra |-> Nada]>>
Trozo(e) == IF e.cebra = Nada THEN Llano(e.peso)
            ELSE Llano(e.c0) \o <<[d |-> e.c1 - e.c0, cebra |-> e.cebra]>> \o Llano(e.peso - e.c1)
(* The walk made up: turned round for a way back, with where each crossing   *)
(* starts and ends.                                                          *)
Monta(tramos, vuelta) ==
  LET T == IF vuelta THEN Reverse(tramos) ELSE tramos
      hasta(i) == FoldLeft(LAMBDA s, q : s + q.d, 0, SubSeq(T, 1, i))
      cebras == SelectSeq([i \in DOMAIN T |-> <<T[i].cebra, hasta(i - 1), hasta(i)>>], LAMBDA c : c[1] # Nada)
  IN [L |-> hasta(Len(T)), ceb |-> cebras]
(* dst is [acc |-> access] or [nodo |-> node, bordillo |-> cm from there to  *)
(* the kerb].                                                                *)
Camino(Z, A, ac, dst, vuelta) ==
  LET alAcceso == "acc" \in DOMAIN dst
      fin == IF alAcceso THEN HastaAcceso(A, ac, dst.acc)
             ELSE IF dst.nodo \in DOMAIN A.dist /\ A.dist[dst.nodo] >= 0 THEN [cm |-> A.dist[dst.nodo], nodo |-> dst.nodo] ELSE Nada
      \* The edges back to the node by which the first edge is left, and that node.
      atras[nd \in DOMAIN A.dist] ==
        LET e == A.prev[nd]
            q == atras[IF e.a = nd THEN e.b ELSE e.a]
        IN IF e = Nada THEN [nd |-> nd, tramos |-> <<>>]
           ELSE [q EXCEPT !.tramos = @ \o (IF e.b = nd THEN Trozo(e) ELSE Reverse(Trozo(e)))]
      p == atras[fin.nodo]
      porAceras == IF fin.nodo = -1 THEN Llano(Magnitud(ac.u - dst.acc.u))
                   ELSE Llano(IF p.nd = ac.e.a THEN ac.u ELSE ac.e.peso - ac.u) \o p.tramos
                        \o (IF alAcceso THEN Llano(IF fin.nodo = dst.acc.e.a THEN dst.acc.u ELSE dst.acc.e.peso - dst.acc.u) ELSE <<>>)
  IN IF fin = Nada THEN Nada
     ELSE IF fin.cm > RutaMax THEN Nada
     ELSE Monta(Llano(ac.hasta) \o porAceras \o Llano(IF alAcceso THEN dst.acc.hasta ELSE dst.bordillo), vuelta)
(* From the taxi's door to a plot outside every grid, and from a front door  *)
(* to its kerb.                                                              *)
CaminoRecto(ac) == Monta(Llano(ac.puerta), FALSE)
CaminoTaxi(ac, vuelta) == Monta(Llano(ac.hasta) \o Llano(ac.taxi), vuelta)
(* There and back. *)
Une(a, b) == [L |-> a.L + b.L, ceb |-> a.ceb \o [i \in DOMAIN b.ceb |-> <<b.ceb[i][1], b.ceb[i][2] + a.L, b.ceb[i][3] + a.L>>]]

NodosEntre(A, lo, hi) == Ordena({nd \in DOMAIN A.dist : A.dist[nd] >= lo /\ A.dist[nd] <= hi}, LAMBDA a, b : a < b)
(* accesos is a sequence; those of a building, in its order. *)
AccesosEntre(A, ac, accesos, lo, hi) ==
  SelectSeq(accesos, LAMBDA b : /\ b # ac
                                /\ b.edificio
                                /\ LET h == HastaAcceso(A, ac, b) IN h # Nada /\ h.cm >= lo /\ h.cm <= hi)
=============================================================================
