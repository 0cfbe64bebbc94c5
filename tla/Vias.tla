-------------------------------- MODULE Vias --------------------------------
(***************************************************************************)
(* The streets of the city view (city3d.js): which of two crossing streets *)
(* gives way and what a crossing leaves in each, the stretches where       *)
(* traffic may run, the lanes, and where a route turns round.  Lengths are *)
(* centimetres along the street; crossings are at right angles.            *)
(* A street is [calzada, acera, rango].                                    *)
(***************************************************************************)
EXTENDS Integers, Sequences, FiniteSetsExt, SequencesExt, Functions

Tope(x, a, b) == IF x < a THEN a ELSE IF x > b THEN b ELSE x
Magnitud(x) == IF x < 0 THEN -x ELSE x
(* The members of S in the order `antes`. *)
Ordena(S, antes(_, _)) == [i \in 1..Cardinality(S) |-> CHOOSE x \in S : Cardinality({y \in S : antes(y, x)}) = i - 1]
(* op folded over the sequence from the left. *)
Pliega(op(_, _), base, sec) == LET f[i \in 0..Len(sec)] == IF i = 0 THEN base ELSE op(f[i - 1], sec[i]) IN f[Len(sec)]
(* The order of the tuples a and b, of the same length: by the first place   *)
(* where they differ.                                                        *)
Antes(a, b) == \E i \in DOMAIN a : a[i] < b[i] /\ \A j \in 1..i - 1 : a[j] = b[j]
Raiz(n) == CHOOSE r \in 0..n : r * r <= n /\ (r + 1) * (r + 1) > n

CocheHL == 230          \* half the length and half the width of a car
CocheHW == 100
CruceHolgura == 60      \* air between two bodies that cross
RutaMin == 12000
VueltaTramoMin == 4000

(* A set of intervals <<a, b>> with others taken out. *)
RestaTramo(T, q) ==
  UNION {IF q[2] <= v[1] \/ q[1] >= v[2] THEN {v}
         ELSE (IF q[1] > v[1] THEN {<<v[1], q[1]>>} ELSE {}) \cup (IF q[2] < v[2] THEN {<<q[2], v[2]>>} ELSE {}) : v \in T}
RestaTramos(T, Q) == FoldSet(LAMBDA q, acc : RestaTramo(acc, q), T, Q)

AnchoTotal(v) == v.calzada \div 2 + 45 + v.acera
RadioEsquina(calzada) == Tope((calzada * 45) \div 100, 400, 900)

(***************************************************************************)
(* The crossing of streets A and B, numbered ia and ib, at sa and sb: a    *)
(* roundabout of two arteries, or a crossing where the lower rank (or the  *)
(* higher number) gives way.  `cortes` is where a street disappears,       *)
(* `cajas` where its kerb opens, `cebras` its zebra crossings, `lin` the   *)
(* stop line of the one that gives way.                                    *)
(***************************************************************************)
EsGlorieta(A, B) == /\ A.rango >= 1000
                    /\ B.rango >= 1000
                    /\ Max({A.calzada, B.calzada}) <= 2600
Glorieta(A, B, sa, sb) ==
  LET anillo == Tope(Max({A.calzada, B.calzada}) \div 2, 700, 1400)
      R == Max({AnchoTotal(A), AnchoTotal(B)}) + anillo + 400
      cuerda(v) == Raiz(Max({1, R * R - AnchoTotal(v) * AnchoTotal(v)}))
  IN [R |-> R, anillo |-> anillo, dA |-> cuerda(A), dB |-> cuerda(B),
      corteA |-> <<sa - cuerda(A), sa + cuerda(A)>>, corteB |-> <<sb - cuerda(B), sb + cuerda(B)>>]
MandaA(A, ia, B, ib) == ~(B.rango > A.rango \/ (B.rango = A.rango /\ ib < ia))
PasoZebra(s, d, e) == {<<s - e, s - d>>, <<s + d, s + e>>}
Cruce(A, ia, sa, B, ib, sb) ==
  LET m == MandaA(A, ia, B, ib)
      may == IF m THEN A ELSE B
      men == IF m THEN B ELSE A
      sMay == IF m THEN sa ELSE sb
      sMen == IF m THEN sb ELSE sa
      dCeb == 45 + may.acera + 30
      dCebM == 45 + men.acera + 30
      co == may.calzada \div 2
      lin == co + Max({RadioEsquina(Min({may.calzada, men.calzada})), dCeb + 350})
  IN [may |-> IF m THEN ia ELSE ib, men |-> IF m THEN ib ELSE ia, sMay |-> sMay, sMen |-> sMen,
      lin |-> lin, caja |-> AnchoTotal(may), cajaMay |-> men.calzada \div 2,
      cajas |-> <<sMay - men.calzada \div 2, sMay + men.calzada \div 2>>,
      cortes |-> <<sMen - AnchoTotal(may), sMen + AnchoTotal(may)>>,
      lineas |-> {sMen - lin, sMen + lin},
      cebrasMen |-> PasoZebra(sMen, co + dCeb, co + dCeb + 250),
      cebrasMay |-> IF may.rango < 1000
                    THEN PasoZebra(sMay, men.calzada \div 2 + dCebM, men.calzada \div 2 + dCebM + 250) ELSE {}]

(***************************************************************************)
(* The lanes of one direction: the middle of each gap between the painted  *)
(* lines, measured from the axis.                                          *)
(***************************************************************************)
CarrilesDe(calzada) ==
  LET half == calzada \div 2
      lineas == {b \in {350 * i : i \in 1..12} : b < half - 1}
      desde(b) == IF b = 350 THEN 42 ELSE b - 350
      L == {(desde(b) + b) \div 2 : b \in {b \in lineas : b - desde(b) >= 290}}
  IN IF L = {} THEN <<half \div 2>> ELSE SetToSortSeq(L, <)
VmaxDe(calzada) == IF calzada >= 4000 THEN 300 ELSE IF calzada >= 2400 THEN 210 ELSE IF calzada >= 1500 THEN 150 ELSE 110

(* The live stretches of a street as routes: not where another covers it,    *)
(* and not into a roundabout.                                                *)
Recorta(s, cuerdas) ==
  LET corta(t, k) ==
        <<IF t[1] > k[1] - 200 /\ t[1] < k[2] THEN k[2] + 200 ELSE t[1],
          IF t[2] > k[1] /\ t[2] < k[2] + 200 THEN k[1] - 200 ELSE t[2]>>
  IN FoldSet(LAMBDA k, t : corta(t, k), s, cuerdas)
Rutas(vivos, tapados, cuerdas) ==
  {r \in {Recorta(t, cuerdas) : t \in RestaTramos(vivos, tapados)} : r[2] - r[1] >= RutaMin}

(* What a crossing occupies along a route, from its centre. *)
AlcanceConf(semi, cf) == IF cf.tipo = "gl" THEN cf.d + 200 ELSE Max({cf.lin, cf.semiOtra + CocheHL})

(***************************************************************************)
(* Where the cars turn round, tc0 and tc1: the half circle of the outer    *)
(* lane must clear every crossing and zebra, or, when the route is too     *)
(* short for that, it stays at the ends (libre = FALSE).                   *)
(* `zonas` are the <<from, to>> of crossings and zebras.                   *)
(***************************************************************************)
NecesitaVuelta(rmax) == Raiz((rmax + CocheHW) * (rmax + CocheHW) + CocheHL * CocheHL) + 100
CentrosVueltaUnaVez(len, rmax, zonas) ==
  LET need == NecesitaVuelta(rmax)
      fin == {z \in zonas : z[2] > len - need - CocheHL - 200}
      ini == {z \in zonas : z[1] < need + CocheHL + 200}
      tc1 == IF fin = {} THEN len - need ELSE Min({z[1] : z \in fin}) - need - 1
      tc0 == IF ini = {} THEN need ELSE Max({z[2] : z \in ini}) + need + 1
      libre == tc1 - tc0 >= VueltaTramoMin
  IN [tc0 |-> IF libre THEN tc0 ELSE need, tc1 |-> IF libre THEN tc1 ELSE len - need, libre |-> libre]
CentrosVuelta(len, rmax, zonas) ==
  LET need == NecesitaVuelta(rmax)
      atras(t) == LET Z == {z \in zonas : z[2] > t - CocheHL - 200 /\ z[1] < t + need}
                  IN IF Z = {} THEN t ELSE Min({z[1] : z \in Z}) - need - 1
      adelante(t) == LET Z == {z \in zonas : z[1] < t + CocheHL + 200 /\ z[2] > t - need}
                     IN IF Z = {} THEN t ELSE Max({z[2] : z \in Z}) + need + 1
      veces == [i \in 1..Cardinality(zonas) |-> i]
      tc1 == FoldLeft(LAMBDA t, i : atras(t), len - need, veces)
      tc0 == FoldLeft(LAMBDA t, i : adelante(t), need, veces)
      libre == tc1 - tc0 >= VueltaTramoMin
  IN [tc0 |-> IF libre THEN tc0 ELSE need, tc1 |-> IF libre THEN tc1 ELSE len - need, libre |-> libre]
=============================================================================
