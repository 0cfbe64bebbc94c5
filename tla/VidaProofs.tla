------------------------------ MODULE VidaProofs ------------------------------
(***************************************************************************)
(* What the frames of Vida keep, proved for every city, clock, deadline    *)
(* and order of calls.                                                     *)
(***************************************************************************)
EXTENDS Vida, NatSetInduction, FiniteSetTheorems, FunctionTheorems

(***************************************************************************)
(* The two loops of a frame.                                               *)
(***************************************************************************)
\* f goes from e to Recorre trip by trip, within A.
Pasada(k, t, A, e, viajes, f) ==
    /\ f \in [0..Len(viajes) -> A]
    /\ f[0] = e
    /\ \A i \in 1..Len(viajes) : f[i] = Transcurrido(k, t, f[i - 1], viajes[i])
    /\ Recorre(k, t, e, viajes) = f[Len(viajes)]

\* A walk over trips is a recursion, and stays in what each trip stays in.
LEMMA RecorreIs ==
    ASSUME NEW k, NEW t, NEW A, NEW e \in A, NEW V, NEW viajes \in Seq(V),
           \A x \in A, v \in V : Transcurrido(k, t, x, v) \in A
    PROVE  \E f : Pasada(k, t, A, e, viajes, f)
<1> DEFINE n == Len(viajes)
           Body(f) == [i \in 0..n |-> IF i = 0 THEN e ELSE Transcurrido(k, t, f[i - 1], viajes[i])]
           step == [i \in 1..n |-> [x \in A |-> Transcurrido(k, t, x, viajes[i])]]
           F == CHOOSE f : f = Body(f)
<1>1. n \in Nat /\ \A i \in 1..n : viajes[i] \in V
  OBVIOUS
<1>2. Recorre(k, t, e, viajes) = F[n]
  BY DEF Recorre
<1>3. /\ \A i \in 1..n, x \in A : step[i][x] = Transcurrido(k, t, x, viajes[i])
      /\ step \in [1..n -> [A -> A]]
  BY <1>1
<1> HIDE DEF n, step
<1>4. PICK f : IsRecursion(f, n, A, e, step)
  BY <1>1, <1>3, RecursionOverNat
<1>5. /\ f \in [0..n -> A] /\ f[0] = e
      /\ \A i \in 1..n : i - 1 \in 0..n /\ f[i] = step[i][f[i - 1]]
  BY <1>1, <1>4 DEF IsRecursion
<1>6. \A i \in 1..n : f[i] = Transcurrido(k, t, f[i - 1], viajes[i])
  BY <1>3, <1>5
<1>7. f = Body(f)
  <2>1. \A i \in 0..n : i # 0 => i \in 1..n
    BY <1>1
  <2>2. f = [i \in 0..n |-> f[i]]
    BY <1>5
  <2>3. QED
    BY <1>5, <1>6, <2>1, <2>2
<1>8. F = Body(F)
  <2> HIDE DEF Body
  <2>1. QED
    BY <1>7
<1> HIDE DEF F
<1>9. GoAlike(F, f, n)
  <2>1. 0 \in 0..n /\ \A i \in 1..n : i \in 0..n /\ i # 0
    BY <1>1
  <2>2. \A i \in 0..n : F[i] = IF i = 0 THEN e ELSE Transcurrido(k, t, F[i - 1], viajes[i])
    BY <1>8
  <2>3. QED
    BY <1>5, <1>6, <2>1, <2>2 DEF GoAlike
<1>10. F[n] = f[n]
  BY <1>1, <1>9, SameRecursion
<1>11. Pasada(k, t, A, e, viajes, f)
  BY <1>2, <1>5, <1>6, <1>10 DEF Pasada, n
<1>12. QED
  BY <1>11

\* The steps of the build stay in what each step stays in.
LEMMA TrabajoPasoIn ==
    ASSUME NEW t, NEW A, NEW J \in A, NEW pasos \in Nat, \A x \in A : UnPaso(x, t) \in A
    PROVE  TrabajoPaso(J, pasos, t) \in A
<1> DEFINE Body(f) == [i \in 0..pasos |-> IF i = 0 THEN J ELSE UnPaso(f[i - 1], t)]
           step == [i \in 1..pasos |-> [x \in A |-> UnPaso(x, t)]]
           F == CHOOSE f : f = Body(f)
<1>1. TrabajoPaso(J, pasos, t) = F[pasos]
  BY DEF TrabajoPaso
<1>2. /\ \A i \in 1..pasos, x \in A : step[i][x] = UnPaso(x, t)
      /\ step \in [1..pasos -> [A -> A]]
  OBVIOUS
<1> HIDE DEF step
<1>3. PICK f : IsRecursion(f, pasos, A, J, step)
  BY <1>2, RecursionOverNat
<1>4. /\ f \in [0..pasos -> A] /\ f[0] = J
      /\ \A i \in 1..pasos : i - 1 \in 0..pasos /\ f[i] = step[i][f[i - 1]]
  BY <1>3 DEF IsRecursion
<1>5. \A i \in 1..pasos : f[i] = UnPaso(f[i - 1], t)
  BY <1>2, <1>4
<1>6. f = Body(f)
  <2>1. \A i \in 0..pasos : i # 0 => i \in 1..pasos
    OBVIOUS
  <2>2. f = [i \in 0..pasos |-> f[i]]
    BY <1>4
  <2>3. QED
    BY <1>4, <1>5, <2>1, <2>2
<1>7. F = Body(F)
  <2> HIDE DEF Body
  <2>1. QED
    BY <1>6
<1> HIDE DEF F
<1>8. GoAlike(F, f, pasos)
  <2>1. 0 \in 0..pasos /\ \A i \in 1..pasos : i \in 0..pasos /\ i # 0
    OBVIOUS
  <2>2. \A i \in 0..pasos : F[i] = IF i = 0 THEN J ELSE UnPaso(F[i - 1], t)
    BY <1>7
  <2>3. QED
    BY <1>4, <1>5, <2>1, <2>2 DEF GoAlike
<1>9. F[pasos] = f[pasos]
  BY <1>8, SameRecursion
<1>10. QED
  BY <1>1, <1>4, <1>9

(***************************************************************************)
(* The hour of the day, and the trips of a window of hours.                *)
(***************************************************************************)
\* A day is not empty.
LEMMA DiaIs == Dia \in Nat /\ Dia > 0
BY DEF Dia

\* What passes since a departure of the day, at an instant of any day.
LEMMA Pasado ==
    ASSUME NEW t \in Int, NEW t0 \in Int, 0 <= t0, t0 < Dia
    PROVE  /\ Dia \in Nat
           /\ t % Dia \in Nat /\ t % Dia < Dia
           /\ (t - t0) % Dia \in Nat /\ (t - t0) % Dia < Dia
           /\ (t - t0) % Dia = IF t0 <= t % Dia THEN (t % Dia) - t0 ELSE (t % Dia) - t0 + Dia
BY DEF Dia

\* The zones near a place are zones.
LEMMA ZonasCercaIs ==
    ASSUME NEW P, BienHecha(P), NEW f \in Int \X Int
    PROVE  ZonasCerca(P, f) \in Seq(DOMAIN P.zonas)
<1> DEFINE d2(z) == LET dx == (P.zonas[z].x - f[1]) \div 100 dz == (P.zonas[z].z - f[2]) \div 100 IN dx * dx + dz * dz
           lim(z) == (RProc + P.zonas[z].R) \div 100
           S == {z \in DOMAIN P.zonas : d2(z) < lim(z) * lim(z)}
           d == [z \in S |-> d2(z)]
           n == Cardinality(S)
           B(x) == {y \in S : d2(y) < d2(x) \/ (d2(y) = d2(x) /\ y < x)}
<1>1. ZonasCerca(P, f) = [i \in 1..n |-> CHOOSE x \in S : Cardinality(B(x)) = i - 1]
  BY DEF ZonasCerca, Ordena
<1>2. S \subseteq DOMAIN P.zonas
  OBVIOUS
<1>3. \A z \in DOMAIN P.zonas : z \in Int /\ d2(z) \in Int
  <2> DEFINE Zonas == [x : Int, z : Int, R : Int, viajes : Seq(DOMAIN P.viajes)]
             zs == P.zonas
  <2>1. zs \in Seq(Zonas)
    BY DEF BienHecha
  <2> HIDE DEF Zonas, zs
  <2>2. \A z \in DOMAIN zs : z \in Int /\ zs[z] \in Zonas
    BY <2>1
  <2>3. \A z \in DOMAIN P.zonas : z \in Int /\ P.zonas[z].x \in Int /\ P.zonas[z].z \in Int
    BY <2>2 DEF Zonas, zs
  <2>4. f[1] \in Int /\ f[2] \in Int
    OBVIOUS
  <2>5. QED
    BY <2>3, <2>4
<1>4. IsFiniteSet(S)
  <2> DEFINE D == DOMAIN P.zonas
  <2>1. D = 1..Len(P.zonas) /\ Len(P.zonas) \in Nat
    BY DEF BienHecha
  <2>2. IsFiniteSet(D)
    BY <2>1, FS_Interval
  <2>3. S \in SUBSET D
    BY <1>2
  <2> HIDE DEF S, D
  <2>4. QED
    BY <2>2, <2>3, FS_Subset
<1>5. S \subseteq Int /\ d \in [S -> Int]
  <2> HIDE DEF d2
  <2>1. QED
    BY <1>2, <1>3
<1>6. \A x \in S : B(x) = {y \in S : d[y] < d[x] \/ (d[y] = d[x] /\ y < x)}
  <2> HIDE DEF d2, S
  <2>1. QED
    OBVIOUS
<1> HIDE DEF S, d, B
<1>7. \A i \in 1..n : \E x \in S : Cardinality(B(x)) = i - 1
  <2>1. HayPuesto(S, d)
    BY <1>4, <1>5, PorDistancia
  <2>2. QED
    BY <1>6, <2>1 DEF HayPuesto
<1>8. n \in Nat
  BY <1>4, FS_CardinalityType
<1> HIDE DEF n
<1>9. \A i \in 1..n : (CHOOSE x \in S : Cardinality(B(x)) = i - 1) \in S
  BY <1>7
<1>10. ZonasCerca(P, f) \in [1..n -> DOMAIN P.zonas]
  BY <1>1, <1>2, <1>9
<1>11. QED
  BY <1>8, <1>10

\* Whose departure is no more than ancho before instant t, among the trips of a zone.
Salen(P, t, ancho, z) == {v \in ToSet(P.zonas[z].viajes) : (t - P.viajes[v].t0) % Dia <= ancho}

\* s is a list of trips, of all of the zones that left in the window.
DeLaVentana(P, t, ancho, zonas, s) ==
    s \in Seq(DOMAIN P.viajes) /\ ToSet(s) = UNION {Salen(P, t, ancho, zonas[j]) : j \in 1..Len(zonas)}

\* enVentana finds, midnight included, who left in the window.
LEMMA EnVentanaIs ==
    ASSUME NEW P, BienHecha(P), NEW t \in Int, NEW ancho \in Nat, ancho < Dia,
           NEW zonas \in Seq(DOMAIN P.zonas)
    PROVE  DeLaVentana(P, t, ancho, zonas, EnVentana(P, t, ancho, zonas))
<1> DEFINE V == DOMAIN P.viajes
           n == Len(zonas)
           K(a, b) == {v \in V : a <= P.viajes[v].t0 /\ P.viajes[v].t0 <= b}
           entre(z, a, b) == Kept(P.zonas[z].viajes, K(a, b))
           d == Desde(t, ancho)
           salidas(z) == IF d >= 0 THEN entre(z, d, t % Dia) ELSE entre(z, 0, t % Dia) \o entre(z, d + Dia, Dia)
           A == Seq(V)
           Body(f) == [i \in 0..n |-> IF i = 0 THEN <<>> ELSE f[i - 1] \o salidas(zonas[i])]
           step == [i \in 1..n |-> [x \in A |-> x \o salidas(zonas[i])]]
           F == CHOOSE f : f = Body(f)
<1>1. EnVentana(P, t, ancho, zonas) = F[n]
  BY DEF EnVentana
<1>2. \A z \in DOMAIN P.zonas : P.zonas[z].viajes \in Seq(V)
  <2> DEFINE Zonas == [x : Int, z : Int, R : Int, viajes : Seq(DOMAIN P.viajes)]
             zs == P.zonas
  <2>1. zs \in Seq(Zonas)
    BY DEF BienHecha
  <2> HIDE DEF Zonas, zs
  <2>2. \A z \in DOMAIN zs : zs[z] \in Zonas
    BY <2>1
  <2>3. QED
    BY <2>2 DEF Zonas, zs
<1>3. \A v \in V : P.viajes[v].t0 \in Int /\ 0 <= P.viajes[v].t0 /\ P.viajes[v].t0 < Dia
  BY DiaIs DEF BienHecha
<1>4. \A v \in V : /\ Dia \in Nat /\ t % Dia \in Nat /\ t % Dia < Dia
                   /\ (t - P.viajes[v].t0) % Dia = IF P.viajes[v].t0 <= t % Dia THEN (t % Dia) - P.viajes[v].t0
                                                 ELSE (t % Dia) - P.viajes[v].t0 + Dia
  BY <1>3, Pasado
<1>5. d = (t % Dia) - ancho
  BY DEF Desde
<1> HIDE DEF d
<1>6. ASSUME NEW z \in DOMAIN P.zonas
      PROVE  salidas(z) \in Seq(V) /\ ToSet(salidas(z)) = Salen(P, t, ancho, z)
  <2> DEFINE s == P.zonas[z].viajes
  <2>1. s \in Seq(V)
    BY <1>2, <1>6
  <2> HIDE DEF s
  <2>2. \A x \in ToSet(s) : x \in V
    <3>1. \A j \in 1..Len(s) : s[j] \in V
      BY <2>1
    <3>2. DOMAIN s = 1..Len(s)
      BY <2>1
    <3>3. QED
      BY <3>1, <3>2 DEF ToSet
  <2>3. Salen(P, t, ancho, z) = {v \in ToSet(s) : (t - P.viajes[v].t0) % Dia <= ancho}
    BY DEF Salen, s
  <2> HIDE DEF K
  <2>4. \A a, b : Kept(s, K(a, b)) \in Seq(V) /\ ToSet(Kept(s, K(a, b))) = ToSet(s) \cap K(a, b)
    <3>1. TAKE a, b
    <3>2. Kept(s, K(a, b)) \in Seq(V \cap K(a, b)) /\ ToSet(Kept(s, K(a, b))) = ToSet(s) \cap K(a, b)
      <4> HIDE DEF V
      <4>1. QED
        BY <2>1, KeptIs
    <3>3. Kept(s, K(a, b)) \in Seq(V)
      BY <3>2
    <3>4. QED
      BY <3>2, <3>3
  <2>5. CASE d >= 0
    <3>1. salidas(z) = Kept(s, K(d, t % Dia))
      BY <2>5 DEF s
    <3>2. \A v \in ToSet(s) : v \in K(d, t % Dia) <=> (t - P.viajes[v].t0) % Dia <= ancho
      <4>1. TAKE v \in ToSet(s)
      <4> DEFINE t0 == P.viajes[v].t0
                 h == t % Dia
                 x == (t - t0) % Dia
      <4>2. /\ v \in V /\ t0 \in Int /\ 0 <= t0 /\ t0 < Dia /\ h \in Nat /\ d = h - ancho
            /\ x = IF t0 <= h THEN h - t0 ELSE h - t0 + Dia
        BY <1>3, <1>4, <1>5, <2>2
      <4>3. v \in K(d, h) <=> v \in V /\ d <= t0 /\ t0 <= h
        BY DEF K
      <4> HIDE DEF t0, h, x, V
      <4>4. d <= t0 /\ t0 <= h <=> x <= ancho
        BY <2>5, <4>2, DiaIs
      <4>5. QED
        BY <4>2, <4>3, <4>4 DEF x, t0, h
    <3>3. QED
      BY <2>3, <2>4, <3>1, <3>2
  <2>6. CASE ~ (d >= 0)
    <3>1. salidas(z) = Kept(s, K(0, t % Dia)) \o Kept(s, K(d + Dia, Dia))
      BY <2>6 DEF s
    <3>2. \A v \in ToSet(s) : v \in K(0, t % Dia) \/ v \in K(d + Dia, Dia) <=> (t - P.viajes[v].t0) % Dia <= ancho
      <4>1. TAKE v \in ToSet(s)
      <4> DEFINE t0 == P.viajes[v].t0
                 h == t % Dia
                 x == (t - t0) % Dia
      <4>2. /\ v \in V /\ t0 \in Int /\ 0 <= t0 /\ t0 < Dia /\ h \in Nat /\ h < Dia /\ d = h - ancho
            /\ x = IF t0 <= h THEN h - t0 ELSE h - t0 + Dia
        BY <1>3, <1>4, <1>5, <2>2
      <4>3. /\ v \in K(0, h) <=> v \in V /\ 0 <= t0 /\ t0 <= h
            /\ v \in K(d + Dia, Dia) <=> v \in V /\ d + Dia <= t0 /\ t0 <= Dia
        BY DEF K
      <4> HIDE DEF t0, h, x, V
      <4>4. t0 <= h \/ d + Dia <= t0 <=> x <= ancho
        BY <2>6, <4>2, DiaIs
      <4>5. t0 <= Dia
        BY <4>2, DiaIs
      <4>6. QED
        BY <4>2, <4>3, <4>4, <4>5 DEF x, t0, h
    <3>3. /\ salidas(z) \in Seq(V)
          /\ ToSet(salidas(z)) = ToSet(Kept(s, K(0, t % Dia))) \cup ToSet(Kept(s, K(d + Dia, Dia)))
      <4> HIDE DEF V, salidas
      <4>1. QED
        BY <2>4, <3>1, ToSetConcat
    <3>4. ToSet(salidas(z)) = ToSet(s) \cap (K(0, t % Dia) \cup K(d + Dia, Dia))
      BY <2>4, <3>3
    <3>5. QED
      BY <2>3, <3>2, <3>3, <3>4
  <2>7. QED
    BY <2>5, <2>6
<1>7. n \in Nat /\ <<>> \in A /\ \A i \in 1..n : zonas[i] \in DOMAIN P.zonas
  BY ElementOfSeq
<1> HIDE DEF salidas, V
<1>8. \A i \in 1..n, x \in A : /\ x \o salidas(zonas[i]) \in A
                               /\ ToSet(x \o salidas(zonas[i])) = ToSet(x) \cup Salen(P, t, ancho, zonas[i])
  <2>1. TAKE i \in 1..n, x \in A
  <2>2. salidas(zonas[i]) \in Seq(V) /\ ToSet(salidas(zonas[i])) = Salen(P, t, ancho, zonas[i])
    BY <1>6, <1>7
  <2>3. QED
    BY <2>2, ToSetConcat
<1>9. /\ \A i \in 1..n, x \in A : step[i][x] = x \o salidas(zonas[i])
      /\ step \in [1..n -> [A -> A]]
  <2> HIDE DEF A
  <2>1. QED
    BY <1>8
<1> HIDE DEF n, A, step
<1>10. PICK f : IsRecursion(f, n, A, <<>>, step)
  BY <1>7, <1>9, RecursionOverNat
<1>11. /\ f \in [0..n -> A] /\ f[0] = <<>>
       /\ \A i \in 1..n : i - 1 \in 0..n /\ f[i] = step[i][f[i - 1]]
  BY <1>7, <1>10 DEF IsRecursion
<1>12. \A i \in 1..n : f[i] = f[i - 1] \o salidas(zonas[i])
  BY <1>9, <1>11
<1>13. f = Body(f)
  <2>1. \A i \in 0..n : i # 0 => i \in 1..n
    BY <1>7
  <2>2. f = [i \in 0..n |-> f[i]]
    BY <1>11
  <2>3. QED
    BY <1>11, <1>12, <2>1, <2>2
<1>14. F = Body(F)
  <2> HIDE DEF Body
  <2>1. QED
    BY <1>13
<1> HIDE DEF F
<1>15. GoAlike(F, f, n)
  <2>1. 0 \in 0..n /\ \A i \in 1..n : i \in 0..n /\ i # 0
    BY <1>7
  <2>2. \A i \in 0..n : F[i] = IF i = 0 THEN <<>> ELSE F[i - 1] \o salidas(zonas[i])
    BY <1>14
  <2>3. QED
    BY <1>11, <1>12, <2>1, <2>2 DEF GoAlike
<1>16. F[n] = f[n]
  BY <1>7, <1>15, SameRecursion
<1> DEFINE U(i) == UNION {Salen(P, t, ancho, zonas[j]) : j \in 1..i}
           T0 == {i \in Nat : i <= n => ToSet(f[i]) = U(i)}
<1>17. 0 \in T0
  <2>1. ToSet(f[0]) = {}
    BY <1>11 DEF ToSet
  <2>2. \A j \in 1..0 : FALSE
    OBVIOUS
  <2>3. QED
    BY <2>1, <2>2
<1>18. ASSUME NEW i \in Nat, i \in T0 PROVE i + 1 \in T0
  <2>1. SUFFICES ASSUME i + 1 <= n PROVE ToSet(f[i + 1]) = U(i + 1)
    OBVIOUS
  <2>2. i + 1 \in 1..n /\ (i + 1) - 1 = i /\ i \in 0..n /\ ToSet(f[i]) = U(i)
    BY <1>7, <1>18, <2>1
  <2>3. ToSet(f[i + 1]) = ToSet(f[i]) \cup Salen(P, t, ancho, zonas[i + 1])
    BY <1>8, <1>11, <1>12, <2>2
  <2>4. \A j : j \in 1..(i + 1) <=> j \in 1..i \/ j = i + 1
    BY <1>7
  <2>5. U(i + 1) = U(i) \cup Salen(P, t, ancho, zonas[i + 1])
    BY <2>4
  <2>6. QED
    BY <2>2, <2>3, <2>5
<1>19. Nat \subseteq T0
  <2> HIDE DEF T0
  <2>1. QED
    BY <1>17, <1>18, InductionOverNat
<1>20. ToSet(f[n]) = U(n)
  <2>1. n \in T0
    <3> HIDE DEF T0
    <3>1. QED
      BY <1>7, <1>19
  <2> HIDE DEF U
  <2>2. n <= n
    BY <1>7
  <2>3. QED
    BY <2>1, <2>2
<1>21. QED
  BY <1>1, <1>7, <1>11, <1>16, <1>20 DEF A, V, n, DeLaVentana

(***************************************************************************)
(* The walks kept and the durations known, as partial functions.           *)
(***************************************************************************)
Parciales(V, X) == UNION {[D -> X] : D \in SUBSET V}

\* The functions on some of V.
LEMMA ParcialesIs ==
    ASSUME NEW V, NEW X, NEW f
    PROVE  f \in Parciales(V, X) <=> DOMAIN f \subseteq V /\ f \in [DOMAIN f -> X]
<1>1. ASSUME f \in Parciales(V, X) PROVE DOMAIN f \subseteq V /\ f \in [DOMAIN f -> X]
  <2>1. PICK D \in SUBSET V : f \in [D -> X]
    BY <1>1 DEF Parciales
  <2>2. DOMAIN f = D
    BY <2>1
  <2>3. QED
    BY <2>1, <2>2
<1>2. ASSUME DOMAIN f \subseteq V, f \in [DOMAIN f -> X] PROVE f \in Parciales(V, X)
  BY <1>2 DEF Parciales
<1>3. QED
  BY <1>1, <1>2

\* g is f with the value x for v.
EsCon(V, X, f, v, x, g) ==
    /\ g \in Parciales(V, X)
    /\ DOMAIN g = DOMAIN f \cup {v}
    /\ g[v] = x
    /\ \A w \in DOMAIN f : w # v => g[w] = f[w]

\* To give v the value x leaves the others as they were.
LEMMA ConIs ==
    ASSUME NEW V, NEW X, NEW f \in Parciales(V, X), NEW v \in V, NEW x \in X
    PROVE  EsCon(V, X, f, v, x, Con(f, v, x))
<1> DEFINE g == [w \in DOMAIN f \cup {v} |-> IF w = v THEN x ELSE f[w]]
<1>1. DOMAIN f \subseteq V /\ f \in [DOMAIN f -> X]
  BY ParcialesIs
<1>2. DOMAIN g = DOMAIN f \cup {v} /\ g \in [DOMAIN f \cup {v} -> X]
  BY <1>1
<1>3. g[v] = x /\ \A w \in DOMAIN f : w # v => g[w] = f[w]
  OBVIOUS
<1>4. Con(f, v, x) = g
  BY DEF Con
<1> HIDE DEF g
<1>5. g \in Parciales(V, X)
  BY <1>1, <1>2, ParcialesIs
<1>6. QED
  BY <1>2, <1>3, <1>4, <1>5 DEF EsCon

\* To keep some of the values leaves those as they were.
LEMMA SoloIs ==
    ASSUME NEW V, NEW X, NEW f \in Parciales(V, X), NEW S, S \subseteq DOMAIN f
    PROVE  [w \in S |-> f[w]] \in Parciales(V, X)
<1> DEFINE g == [w \in S |-> f[w]]
<1>1. DOMAIN f \subseteq V /\ f \in [DOMAIN f -> X]
  BY ParcialesIs
<1>2. DOMAIN g = S /\ g \in [S -> X] /\ S \subseteq V
  BY <1>1
<1> HIDE DEF g
<1>3. g \in Parciales(V, X)
  BY <1>2, ParcialesIs
<1>4. QED
  BY <1>3 DEF g

Claves == (DOMAIN Ciudades) \X {1, 2}
Viajes(k) == DOMAIN PobDe(k).viajes
Pasa(k, t, v) == (t - PobDe(k).viajes[v].t0) % Dia
Duracion(k, v) == IF PobDe(k).viajes[v].ruta = Nada THEN -1 ELSE PobDe(k).viajes[v].ruta.dur
\* The timetable of population k has v in the street at instant t.
EnRuta(k, t, v) == PobDe(k).viajes[v].ruta # Nada /\ Pasa(k, t, v) < PobDe(k).viajes[v].ruta.dur

Paseo(k) == [de : {k}, uso : Nat]
\* A cache and the durations known, of population k.
DePob(k, c, d) ==
    /\ c \in Parciales(Viajes(k), Paseo(k))
    /\ d \in Parciales(Viajes(k), Int)
    /\ DOMAIN c \subseteq DOMAIN d
    /\ \A v \in DOMAIN d : d[v] = Duracion(k, v)
Marcos(k) ==
    {e \in [cache : Parciales(Viajes(k), Paseo(k)), dur : Parciales(Viajes(k), Int), plazo : Int,
            activos : SUBSET Viajes(k), aplazados : SUBSET Viajes(k)] : DePob(k, e.cache, e.dur)}

\* Each of the populations is well made.
LEMMA Buena == ASSUME NEW k \in Claves PROVE BienHecha(PobDe(k))
<1>1. k[1] \in DOMAIN Ciudades /\ k[2] \in {1, 2}
  BY DEF Claves
<1>2. BienHecha(Poblaciones[k[1]][1]) /\ BienHecha(Poblaciones[k[1]][2])
  BY <1>1, PopulationsAssumption
<1>3. QED
  BY <1>1, <1>2 DEF PobDe

\* What the timetable says of a trip.
LEMMA ViajeIs ==
    ASSUME NEW k \in Claves, NEW v \in Viajes(k), NEW t \in Int
    PROVE  /\ Pasa(k, t, v) \in Nat /\ Pasa(k, t, v) < Dia /\ v \in Nat
           /\ Duracion(k, v) \in Int /\ Duracion(k, v) <= DMax
           /\ Duracion(k, v) < 0 <=> PobDe(k).viajes[v].ruta = Nada
           /\ Duracion(k, v) >= 0 => Duracion(k, v) = PobDe(k).viajes[v].ruta.dur
           /\ EnRuta(k, t, v) <=> Duracion(k, v) >= 0 /\ Pasa(k, t, v) < Duracion(k, v)
<1> DEFINE P == PobDe(k)
           R == P.viajes[v].ruta
           t0 == P.viajes[v].t0
<1>1. BienHecha(P)
  BY Buena
<1> HIDE DEF P
<1>2. /\ v \in Nat
      /\ t0 \in 0..Dia - 1
      /\ R # Nada => R.dur \in 0..DMax
  BY <1>1 DEF BienHecha, Viajes, P
<1>3. t0 \in Int /\ 0 <= t0 /\ t0 < Dia
  BY <1>2, DiaIs
<1>4. (t - t0) % Dia \in Nat /\ (t - t0) % Dia < Dia
  BY <1>3, Pasado
<1>5. DMax \in Nat
  BY DEF DMax, EsperaMax
<1>6. QED
  BY <1>2, <1>4, <1>5 DEF P, Pasa, Duracion, EnRuta

(***************************************************************************)
(* One trip.                                                               *)
(***************************************************************************)
Marco(c, d, p, a, x) == [cache |-> c, dur |-> d, plazo |-> p, activos |-> a, aplazados |-> x]

\* A frame's record is made of its parts.
LEMMA MarcoIs ==
    ASSUME NEW k, NEW c, NEW d, NEW p, NEW a, NEW x
    PROVE  Marco(c, d, p, a, x) \in Marcos(k) <=>
             DePob(k, c, d) /\ p \in Int /\ a \subseteq Viajes(k) /\ x \subseteq Viajes(k)
BY DEF Marco, Marcos, DePob

\* f comes of e when trip v is looked at: what is known says that it is not in
\* the street, it is kept, there is no time, it has no route, it is not in the
\* street after all, it is.
Casos(k, t, e, v, f) ==
    LET c == Con(e.cache, v, [de |-> k, uso |-> 0])
        d == Con(e.dur, v, Duracion(k, v))
        menos(g) == [w \in DOMAIN g \ {v} |-> g[w]]
    IN  \/ /\ v \in DOMAIN e.dur /\ ~EnRuta(k, t, v) /\ Duracion(k, v) < 0
           /\ f = e
        \/ /\ v \in DOMAIN e.dur /\ ~EnRuta(k, t, v)
           /\ f = Marco(menos(e.cache), e.dur, e.plazo, e.activos, e.aplazados)
        \/ /\ v \in DOMAIN e.cache /\ EnRuta(k, t, v)
           /\ f = Marco(c, e.dur, e.plazo, e.activos \cup {v}, e.aplazados)
        \/ /\ v \notin DOMAIN e.cache /\ e.plazo = 0
           /\ f = Marco(e.cache, e.dur, e.plazo, e.activos, e.aplazados \cup {v})
        \/ /\ v \notin DOMAIN e.cache /\ Duracion(k, v) < 0
           /\ f = Marco(c, d, e.plazo - 1, e.activos, e.aplazados)
        \/ /\ v \notin DOMAIN e.cache /\ ~EnRuta(k, t, v)
           /\ f = Marco(menos(c), d, e.plazo - 1, e.activos, e.aplazados)
        \/ /\ v \notin DOMAIN e.cache /\ EnRuta(k, t, v)
           /\ f = Marco(c, d, e.plazo - 1, e.activos \cup {v}, e.aplazados)

\* To look at a trip is one of the cases.
LEMMA TranscurridoCases ==
    ASSUME NEW k \in Claves, NEW t \in Int, NEW e \in Marcos(k), NEW v \in Viajes(k),
           NEW f, f = Transcurrido(k, t, e, v)
    PROVE  Casos(k, t, e, v, f)
<1> DEFINE viaje == PobDe(k).viajes[v]
           el == (t - viaje.t0) % Dia
           sabida == v \in DOMAIN e.dur
           d0 == IF viaje.ruta = Nada THEN -1 ELSE viaje.ruta.dur
           usa(g) == [g EXCEPT !.cache = Con(@, v, [de |-> IF v \in DOMAIN @ THEN @[v].de ELSE k, uso |-> 0])]
           enCalle(g) == [g EXCEPT !.activos = @ \cup {v}]
           calculada == [usa(e) EXCEPT !.dur = Con(@, v, d0), !.plazo = @ - 1]
           c == Con(e.cache, v, [de |-> k, uso |-> 0])
           d == Con(e.dur, v, Duracion(k, v))
           menos(g) == [w \in DOMAIN g \ {v} |-> g[w]]
<1>1. f = IF sabida /\ (e.dur[v] < 0 \/ el >= e.dur[v]) THEN IF e.dur[v] >= 0 THEN Suelta(e, v) ELSE e
          ELSE IF v \in DOMAIN e.cache THEN enCalle(usa(e))
          ELSE IF e.plazo = 0 THEN [e EXCEPT !.aplazados = @ \cup {v}]
          ELSE IF d0 < 0 THEN calculada
          ELSE IF el >= d0 THEN Suelta(calculada, v) ELSE enCalle(calculada)
  BY DEF Transcurrido
<1>2. d0 = Duracion(k, v) /\ el = Pasa(k, t, v)
  BY DEF Duracion, Pasa
<1>3. /\ e = Marco(e.cache, e.dur, e.plazo, e.activos, e.aplazados)
      /\ DePob(k, e.cache, e.dur) /\ e.plazo \in Int
  BY DEF Marcos, Marco
<1>4. /\ DOMAIN e.cache \subseteq DOMAIN e.dur
      /\ \A w \in DOMAIN e.dur : e.dur[w] = Duracion(k, w)
      /\ \A w \in DOMAIN e.cache : e.cache[w].de = k
  <2>1. e.cache \in [DOMAIN e.cache -> Paseo(k)]
    BY <1>3, ParcialesIs DEF DePob
  <2>2. QED
    BY <1>3, <2>1 DEF DePob, Paseo
<1>5. /\ el \in Nat /\ d0 \in Int
      /\ EnRuta(k, t, v) <=> d0 >= 0 /\ el < d0
  BY <1>2, ViajeIs
<1>6. usa(e) = Marco(c, e.dur, e.plazo, e.activos, e.aplazados)
  <2>1. (IF v \in DOMAIN e.cache THEN e.cache[v].de ELSE k) = k
    BY <1>4
  <2>2. usa(Marco(e.cache, e.dur, e.plazo, e.activos, e.aplazados)) =
        Marco(Con(e.cache, v, [de |-> IF v \in DOMAIN e.cache THEN e.cache[v].de ELSE k, uso |-> 0]),
              e.dur, e.plazo, e.activos, e.aplazados)
    BY DEF Marco
  <2> HIDE DEF usa
  <2>3. QED
    BY <1>3, <2>1, <2>2
<1>7. calculada = Marco(c, d, e.plazo - 1, e.activos, e.aplazados)
  <2> DEFINE M == usa(e)
             G == [M EXCEPT !.dur = Con(M.dur, v, d0)]
  <2>1. M = Marco(c, e.dur, e.plazo, e.activos, e.aplazados)
    BY <1>6
  <2>2. calculada = [G EXCEPT !.plazo = M.plazo - 1]
    OBVIOUS
  <2> HIDE DEF M, calculada
  <2>3. \A cc, dd, p, a, x, y : /\ [Marco(cc, dd, p, a, x) EXCEPT !.dur = y] = Marco(cc, y, p, a, x)
                               /\ [Marco(cc, dd, p, a, x) EXCEPT !.plazo = y] = Marco(cc, dd, y, a, x)
    BY DEF Marco
  <2>4. M.dur = e.dur /\ M.plazo = e.plazo
    BY <2>1 DEF Marco
  <2>5. G = Marco(c, d, e.plazo, e.activos, e.aplazados)
    BY <1>2, <2>1, <2>3, <2>4
  <2> HIDE DEF G
  <2>6. [G EXCEPT !.plazo = e.plazo - 1] = Marco(c, d, e.plazo - 1, e.activos, e.aplazados)
    BY <2>3, <2>5
  <2>7. QED
    BY <2>2, <2>4, <2>6
<1>8. \A cc, dd, p, a, x : /\ enCalle(Marco(cc, dd, p, a, x)) = Marco(cc, dd, p, a \cup {v}, x)
                         /\ Suelta(Marco(cc, dd, p, a, x), v) = Marco(menos(cc), dd, p, a, x)
                         /\ [Marco(cc, dd, p, a, x) EXCEPT !.aplazados = @ \cup {v}] = Marco(cc, dd, p, a, x \cup {v})
  BY DEF Marco, Suelta
<1>9. CASE sabida /\ (e.dur[v] < 0 \/ el >= e.dur[v])
  <2>1. e.dur[v] = d0 /\ ~EnRuta(k, t, v)
    BY <1>2, <1>4, <1>5, <1>9
  <2>2. e.dur[v] >= 0 => f = Marco(menos(e.cache), e.dur, e.plazo, e.activos, e.aplazados)
    <3>1. e.dur[v] >= 0 => f = Suelta(e, v)
      BY <1>1, <1>9
    <3> HIDE DEF menos
    <3>2. QED
      BY <1>3, <1>8, <3>1
  <2>3. ~ (e.dur[v] >= 0) => f = e /\ Duracion(k, v) < 0
    BY <1>1, <1>2, <1>5, <1>9, <2>1
  <2>4. CASE e.dur[v] >= 0
    BY <1>9, <2>1, <2>2, <2>4 DEF Casos
  <2>5. CASE ~ (e.dur[v] >= 0)
    BY <1>9, <2>1, <2>3, <2>5 DEF Casos
  <2>6. QED
    BY <2>4, <2>5
<1>10. CASE ~ (sabida /\ (e.dur[v] < 0 \/ el >= e.dur[v])) /\ v \in DOMAIN e.cache
  <2>1. e.dur[v] = d0 /\ EnRuta(k, t, v)
    BY <1>2, <1>4, <1>5, <1>10
  <2>2. f = enCalle(usa(e))
    BY <1>1, <1>10
  <2> HIDE DEF usa, enCalle
  <2>3. f = Marco(c, e.dur, e.plazo, e.activos \cup {v}, e.aplazados)
    BY <1>6, <1>8, <2>2
  <2>4. QED
    BY <1>10, <2>1, <2>3 DEF Casos
<1>11. CASE ~ (sabida /\ (e.dur[v] < 0 \/ el >= e.dur[v])) /\ v \notin DOMAIN e.cache /\ e.plazo = 0
  <2>1. f = [e EXCEPT !.aplazados = @ \cup {v}]
    BY <1>1, <1>11
  <2>2. f = Marco(e.cache, e.dur, e.plazo, e.activos, e.aplazados \cup {v})
    BY <1>3, <1>8, <2>1
  <2>3. QED
    BY <1>11, <2>2 DEF Casos
<1>12. CASE ~ (sabida /\ (e.dur[v] < 0 \/ el >= e.dur[v])) /\ v \notin DOMAIN e.cache /\ e.plazo # 0
  <2>1. d0 < 0 => f = calculada
    BY <1>1, <1>12
  <2>2. ~ (d0 < 0) /\ el >= d0 => f = Suelta(calculada, v)
    BY <1>1, <1>12
  <2>3. ~ (d0 < 0) /\ ~ (el >= d0) => f = enCalle(calculada)
    BY <1>1, <1>12
  <2> HIDE DEF calculada, enCalle
  <2>4. ~ (d0 < 0) /\ el >= d0 => f = Marco(menos(c), d, e.plazo - 1, e.activos, e.aplazados)
    BY <1>7, <1>8, <2>2
  <2>5. ~ (d0 < 0) /\ ~ (el >= d0) => f = Marco(c, d, e.plazo - 1, e.activos \cup {v}, e.aplazados)
    BY <1>7, <1>8, <2>3
  <2> HIDE DEF d0, el
  <2>6. CASE d0 < 0
    BY <1>2, <1>7, <1>12, <2>1, <2>6 DEF Casos
  <2>7. CASE ~ (d0 < 0) /\ el >= d0
    BY <1>2, <1>5, <1>12, <2>4, <2>7 DEF Casos
  <2>8. CASE ~ (d0 < 0) /\ ~ (el >= d0)
    BY <1>2, <1>5, <1>12, <2>5, <2>8 DEF Casos
  <2>9. QED
    BY <2>6, <2>7, <2>8
<1>13. QED
  BY <1>9, <1>10, <1>11, <1>12

\* What the look at trip v does to what was there: the street and the put off
\* grow at most by v, who is in the street ends in one of the two, what is
\* known stays known, who is kept and in the street stays kept and is not put
\* off, and with time left nobody is.
Avanza(k, t, e, v, f) ==
    /\ e.activos \subseteq f.activos /\ f.activos \subseteq e.activos \cup {v}
    /\ f.activos \subseteq e.activos \/ EnRuta(k, t, v)
    /\ e.aplazados \subseteq f.aplazados /\ f.aplazados \subseteq e.aplazados \cup {v}
    /\ EnRuta(k, t, v) => v \in f.activos \cup f.aplazados
    /\ DOMAIN e.dur \subseteq DOMAIN f.dur
    /\ \A w \in DOMAIN e.cache : w # v \/ EnRuta(k, t, v) => w \in DOMAIN f.cache
    /\ EnRuta(k, t, v) /\ v \in DOMAIN e.cache => f.aplazados = e.aplazados
    /\ e.plazo # 0 => /\ v \in DOMAIN f.dur
                      /\ EnRuta(k, t, v) => v \in DOMAIN f.cache
                      /\ f.aplazados = e.aplazados

\* To look at a trip changes nothing but what there is of it, and leaves it in
\* the street or put off if it is on its way.
LEMMA TranscurridoIs ==
    ASSUME NEW k \in Claves, NEW t \in Int, NEW e \in Marcos(k), NEW v \in Viajes(k),
           NEW f, f = Transcurrido(k, t, e, v)
    PROVE  f \in Marcos(k) /\ Avanza(k, t, e, v, f)
<1> DEFINE V == Viajes(k)
           c == Con(e.cache, v, [de |-> k, uso |-> 0])
           d == Con(e.dur, v, Duracion(k, v))
           menos(g) == [w \in DOMAIN g \ {v} |-> g[w]]
<1>1. Casos(k, t, e, v, f)
  BY TranscurridoCases
<1>2. /\ DePob(k, e.cache, e.dur) /\ e.plazo \in Int
      /\ e.activos \subseteq V /\ e.aplazados \subseteq V
      /\ e \in Marcos(k)
  BY DEF Marcos
<1>3. /\ e.cache \in Parciales(V, Paseo(k)) /\ e.dur \in Parciales(V, Int) /\ DOMAIN e.cache \subseteq DOMAIN e.dur
      /\ \A w \in DOMAIN e.dur : e.dur[w] = Duracion(k, w)
  BY <1>2 DEF DePob
<1>4. Duracion(k, v) \in Int /\ (EnRuta(k, t, v) => Duracion(k, v) >= 0)
  BY ViajeIs
<1>5. /\ c \in Parciales(V, Paseo(k))
      /\ DOMAIN c = DOMAIN e.cache \cup {v}
  <2> DEFINE r == [de |-> k, uso |-> 0]
             g == e.cache
             X == Paseo(k)
  <2>1. r \in X
    BY DEF Paseo
  <2>2. g \in Parciales(V, X) /\ v \in V
    BY <1>3
  <2> HIDE DEF r, g, X, V
  <2>3. EsCon(V, X, g, v, r, Con(g, v, r))
    BY <2>1, <2>2, ConIs
  <2>4. QED
    BY <2>3 DEF EsCon, r, g, X
<1>6. /\ d \in Parciales(V, Int)
      /\ DOMAIN d = DOMAIN e.dur \cup {v}
      /\ \A w \in DOMAIN d : d[w] = Duracion(k, w)
  <2>1. /\ d \in Parciales(V, Int) /\ DOMAIN d = DOMAIN e.dur \cup {v}
        /\ d[v] = Duracion(k, v)
        /\ \A w \in DOMAIN e.dur : w # v => d[w] = e.dur[w]
    <3> DEFINE n == Duracion(k, v)
               g == e.dur
    <3>1. n \in Int /\ g \in Parciales(V, Int) /\ v \in V
      BY <1>3, <1>4
    <3> HIDE DEF n, g, V
    <3>2. EsCon(V, Int, g, v, n, Con(g, v, n))
      BY <3>1, ConIs
    <3>3. QED
      BY <3>2 DEF EsCon, n, g
  <2> HIDE DEF d
  <2>2. QED
    BY <1>3, <2>1
<1>7. \A g \in Parciales(V, Paseo(k)) : menos(g) \in Parciales(V, Paseo(k)) /\ DOMAIN menos(g) = DOMAIN g \ {v}
  <2>1. TAKE g \in Parciales(V, Paseo(k))
  <2> DEFINE S == DOMAIN g \ {v}
  <2>2. S \subseteq DOMAIN g
    OBVIOUS
  <2>3. [w \in S |-> g[w]] \in Parciales(V, Paseo(k))
    <3> HIDE DEF S, V
    <3>1. QED
      BY <2>2, SoloIs
  <2>4. QED
    BY <2>3
<1>8. \A cc, dd, p, a, x : LET m == Marco(cc, dd, p, a, x)
                         IN m.cache = cc /\ m.dur = dd /\ m.plazo = p /\ m.activos = a /\ m.aplazados = x
  BY DEF Marco
<1> HIDE DEF c, d, menos, V
<1>9. (DePob(k, c, d) /\ DePob(k, c, e.dur)) \/ ~ (v \in DOMAIN e.cache)
  BY <1>3, <1>5, <1>6 DEF DePob, V
<1>10. DePob(k, c, d) /\ DePob(k, menos(c), d) /\ DePob(k, menos(e.cache), e.dur)
  BY <1>3, <1>5, <1>6, <1>7 DEF DePob, V
<1>11. CASE v \in DOMAIN e.dur /\ ~EnRuta(k, t, v) /\ Duracion(k, v) < 0 /\ f = e
  BY <1>2, <1>11 DEF Avanza
<1>12. CASE v \in DOMAIN e.dur /\ ~EnRuta(k, t, v) /\ f = Marco(menos(e.cache), e.dur, e.plazo, e.activos, e.aplazados)
  <2>1. f \in Marcos(k)
    BY <1>2, <1>10, <1>12, MarcoIs DEF V
  <2>2. f.cache = menos(e.cache) /\ f.dur = e.dur /\ f.activos = e.activos /\ f.aplazados = e.aplazados
    BY <1>8, <1>12
  <2>3. QED
    BY <1>3, <1>7, <1>12, <2>1, <2>2 DEF Avanza
<1>13. CASE v \in DOMAIN e.cache /\ EnRuta(k, t, v) /\ f = Marco(c, e.dur, e.plazo, e.activos \cup {v}, e.aplazados)
  <2>1. f \in Marcos(k)
    BY <1>2, <1>9, <1>13, MarcoIs DEF V
  <2>2. f.cache = c /\ f.dur = e.dur /\ f.activos = e.activos \cup {v} /\ f.aplazados = e.aplazados
    BY <1>8, <1>13
  <2>3. QED
    BY <1>3, <1>5, <1>13, <2>1, <2>2 DEF Avanza
<1>14. CASE v \notin DOMAIN e.cache /\ e.plazo = 0 /\ f = Marco(e.cache, e.dur, e.plazo, e.activos, e.aplazados \cup {v})
  <2>1. f \in Marcos(k)
    BY <1>2, <1>14, MarcoIs DEF V
  <2>2. f.cache = e.cache /\ f.dur = e.dur /\ f.activos = e.activos /\ f.aplazados = e.aplazados \cup {v}
    BY <1>8, <1>14
  <2>3. QED
    BY <1>14, <2>1, <2>2 DEF Avanza
<1>15. CASE v \notin DOMAIN e.cache /\ Duracion(k, v) < 0 /\ f = Marco(c, d, e.plazo - 1, e.activos, e.aplazados)
  <2>1. f \in Marcos(k)
    BY <1>2, <1>10, <1>15, MarcoIs DEF V
  <2>2. f.cache = c /\ f.dur = d /\ f.activos = e.activos /\ f.aplazados = e.aplazados
    BY <1>8, <1>15
  <2>3. ~EnRuta(k, t, v)
    BY <1>4, <1>15
  <2>4. QED
    BY <1>5, <1>6, <1>15, <2>1, <2>2, <2>3 DEF Avanza
<1>16. CASE v \notin DOMAIN e.cache /\ ~EnRuta(k, t, v) /\ f = Marco(menos(c), d, e.plazo - 1, e.activos, e.aplazados)
  <2>1. f \in Marcos(k)
    BY <1>2, <1>10, <1>16, MarcoIs DEF V
  <2>2. f.cache = menos(c) /\ f.dur = d /\ f.activos = e.activos /\ f.aplazados = e.aplazados
    BY <1>8, <1>16
  <2>3. DOMAIN f.cache = DOMAIN e.cache
    BY <1>5, <1>7, <1>16, <2>2
  <2>4. QED
    BY <1>6, <1>16, <2>1, <2>2, <2>3 DEF Avanza
<1>17. CASE v \notin DOMAIN e.cache /\ EnRuta(k, t, v) /\ f = Marco(c, d, e.plazo - 1, e.activos \cup {v}, e.aplazados)
  <2>1. f \in Marcos(k)
    BY <1>2, <1>10, <1>17, MarcoIs DEF V
  <2>2. f.cache = c /\ f.dur = d /\ f.activos = e.activos \cup {v} /\ f.aplazados = e.aplazados
    BY <1>8, <1>17
  <2>3. QED
    BY <1>5, <1>6, <1>17, <2>1, <2>2 DEF Avanza
<1>18. QED
  BY <1>1, <1>11, <1>12, <1>13, <1>14, <1>15, <1>16, <1>17 DEF Casos, c, d, menos

(***************************************************************************)
(* The street of a frame.                                                  *)
(***************************************************************************)
\* f is the frame that began with e and looked at the trips of ws.
Recorrido(k, t, e, ws, f) ==
    /\ f \in Marcos(k)
    /\ f.activos \subseteq {v \in ws : EnRuta(k, t, v)}
    /\ {v \in ws : EnRuta(k, t, v)} \subseteq f.activos \cup f.aplazados
    /\ f.aplazados \subseteq ws
    /\ \A v \in DOMAIN e.cache : EnRuta(k, t, v) => v \notin f.aplazados

\* A walk over trips has in the street, or puts off, those on their way, and
\* puts off none that was kept.
LEMMA RecorreEs ==
    ASSUME NEW k \in Claves, NEW t \in Int, NEW e \in Marcos(k), e.activos = {}, e.aplazados = {},
           NEW vs \in Seq(Viajes(k)), NEW f, f = Recorre(k, t, e, vs)
    PROVE  Recorrido(k, t, e, ToSet(vs), f)
<1> DEFINE n == Len(vs)
           W == ToSet(vs)
           Calle(x) == x.activos \subseteq {v \in W : EnRuta(k, t, v)} /\ x.aplazados \subseteq W
           Guardada(x) == \A v \in DOMAIN e.cache : EnRuta(k, t, v) => v \in DOMAIN x.cache /\ v \notin x.aplazados
           A == {x \in Marcos(k) : Calle(x) /\ Guardada(x)}
<1>1. n \in Nat /\ \A i \in 1..n : vs[i] \in W /\ vs[i] \in Viajes(k)
  BY DEF ToSet
<1>2. W \subseteq Viajes(k) /\ vs \in Seq(W)
  <2>1. DOMAIN vs = 1..n
    OBVIOUS
  <2>2. W \subseteq Viajes(k)
    BY <1>1, <2>1 DEF ToSet
  <2>3. vs \in [1..n -> W]
    <3> HIDE DEF W, n
    <3>1. vs = [i \in 1..n |-> vs[i]]
      BY <2>1
    <3>2. QED
      BY <1>1, <3>1
  <2>4. QED
    BY <1>1, <2>2, <2>3
<1> HIDE DEF W
<1>3. e \in A
  OBVIOUS
<1>4. \A x \in A, v \in W : Transcurrido(k, t, x, v) \in A
  <2>1. TAKE x \in A, v \in W
  <2> DEFINE g == Transcurrido(k, t, x, v)
  <2>2. x \in Marcos(k) /\ Calle(x) /\ Guardada(x) /\ v \in Viajes(k)
    BY <1>2
  <2>3. g \in Marcos(k) /\ Avanza(k, t, x, v, g)
    BY <2>2, TranscurridoIs
  <2> HIDE DEF g
  <2>4. Calle(g)
    BY <2>2, <2>3 DEF Avanza
  <2>5. ASSUME NEW w \in DOMAIN e.cache, EnRuta(k, t, w) PROVE w \in DOMAIN g.cache /\ w \notin g.aplazados
    <3>1. w \in DOMAIN x.cache /\ w \notin x.aplazados
      BY <2>2, <2>5
    <3>2. QED
      BY <2>3, <2>5, <3>1 DEF Avanza
  <2>6. QED
    BY <2>3, <2>4, <2>5 DEF g
<1> HIDE DEF n, A
<1>5. PICK h :
        /\ h \in [0..n -> A]
        /\ h[0] = e
        /\ \A i \in 1..n : h[i] = Transcurrido(k, t, h[i - 1], vs[i])
        /\ Recorre(k, t, e, vs) = h[n]
  <2>1. PICK h : Pasada(k, t, A, e, vs, h)
    BY <1>2, <1>3, <1>4, RecorreIs
  <2>2. QED
    BY <2>1 DEF Pasada, n
<1> DEFINE Vistos(i) == \A j \in 1..i : EnRuta(k, t, vs[j]) => vs[j] \in h[i].activos \cup h[i].aplazados
           S == {i \in Nat : i <= n => Vistos(i)}
<1>6. 0 \in S
  OBVIOUS
<1>7. ASSUME NEW i \in Nat, i \in S PROVE i + 1 \in S
  <2>1. SUFFICES ASSUME i + 1 <= n PROVE Vistos(i + 1)
    OBVIOUS
  <2>2. i + 1 \in 1..n /\ (i + 1) - 1 = i /\ i \in 0..n /\ Vistos(i)
    BY <1>1, <1>7, <2>1 DEF n
  <2> DEFINE x == h[i]
             v == vs[i + 1]
             g == h[i + 1]
  <2>3. g = Transcurrido(k, t, x, v) /\ v \in Viajes(k) /\ x \in Marcos(k)
    <3>1. h[i + 1] = Transcurrido(k, t, h[(i + 1) - 1], vs[i + 1])
      BY <1>5, <2>2
    <3>2. QED
      BY <1>1, <1>5, <2>2, <3>1 DEF A, n
  <2> HIDE DEF x, v, g
  <2>4. Avanza(k, t, x, v, g)
    BY <2>3, TranscurridoIs
  <2>5. \A j \in 1..(i + 1) : j \in 1..i \/ j = i + 1
    OBVIOUS
  <2>6. ASSUME NEW j \in 1..(i + 1), EnRuta(k, t, vs[j]) PROVE vs[j] \in g.activos \cup g.aplazados
    <3>1. CASE j \in 1..i
      BY <2>2, <2>4, <2>6, <3>1 DEF Avanza, x
    <3>2. CASE j = i + 1
      BY <2>4, <2>6, <3>2 DEF Avanza, v
    <3>3. QED
      BY <2>5, <3>1, <3>2
  <2>7. QED
    BY <2>6 DEF g
<1>8. n \in S
  <2>1. Nat \subseteq S
    <3> HIDE DEF S
    <3>1. QED
      BY <1>6, <1>7, InductionOverNat
  <2> HIDE DEF S
  <2>2. QED
    BY <1>1, <2>1 DEF n
<1>9. f = h[n] /\ f \in A
  BY <1>1, <1>5 DEF n
<1>10. \A v \in W : EnRuta(k, t, v) => v \in f.activos \cup f.aplazados
  <2>1. \A j \in 1..n : EnRuta(k, t, vs[j]) => vs[j] \in f.activos \cup f.aplazados
    <3>1. n <= n
      BY <1>1 DEF n
    <3>2. QED
      BY <1>8, <1>9, <3>1
  <2>2. DOMAIN vs = 1..n
    BY DEF n
  <2>3. QED
    BY <2>1, <2>2 DEF W, ToSet
<1>11. QED
  BY <1>9, <1>10 DEF Recorrido, A, W

(***************************************************************************)
(* The build.                                                              *)
(***************************************************************************)
Instante == Nat \X (Int \X Int) \X Nat
Trabajos ==
    [fase : 0..9, completo : BOOLEAN, ciudad : (DOMAIN Ciudades) \cup {Nada},
     cache : Parciales(Nat, [de : Claves, uso : Nat]), dur : Parciales(Nat, Int),
     pre : Seq(Nat) \cup {Nada}, de : Instante \cup {Nada}]
Trab(f, c, i, h, d, p, r) == [fase |-> f, completo |-> c, ciudad |-> i, cache |-> h, dur |-> d, pre |-> p, de |-> r]

\* Who walks for no more than what is warmed ahead, or not at all.
Corto(k, v) == Duracion(k, v) <= CalientaAntes
\* v is kept, or will not be in the street while the warming is good.
Templado(k, c, d, de, v) ==
    /\ v \in DOMAIN d
    /\ \/ v \in DOMAIN c
       \/ Corto(k, v)
       \/ \A r \in de[3]..CalientaAntes : ~EnRuta(k, de[1] + r, v)
\* Who is on the list of the warming that begins at de.
Lista(k, de) ==
    ToSet(EnVentana(PobDe(k), de[1] + CalientaAntes, DMax + CalientaAntes, ZonasCerca(PobDe(k), de[2])))
Caldeada(k, c, d, pre, de) ==
    de[3] <= CalientaAntes => \A v \in Lista(k, de) : v \in ToSet(pre) \/ Templado(k, c, d, de, v)

\* What a build keeps, whose parcels have the signature s.
Bien(J, s) ==
    /\ J.fase >= 4 => J.ciudad \in DOMAIN Ciudades /\ Firma(J.ciudad) = s
    /\ J.fase = 9 => J.pre = <<>>
    /\ \/ J.pre = Nada /\ J.de = Nada /\ J.cache = <<>> /\ J.dur = <<>>
       \/ /\ J.fase >= 8 /\ J.de # Nada
          /\ J.pre \in Seq(Viajes(ClaveDe(J)))
          /\ DePob(ClaveDe(J), J.cache, J.dur)
          /\ Caldeada(ClaveDe(J), J.cache, J.dur, J.pre, J.de)

\* A build is made of its parts, and one is changed at a time.
LEMMA TrabIs ==
    /\ \A J \in Trabajos : J = Trab(J.fase, J.completo, J.ciudad, J.cache, J.dur, J.pre, J.de)
    /\ \A f, c, i, h, d, p, r, x :
         LET J == Trab(f, c, i, h, d, p, r)
         IN  /\ J.fase = f /\ J.completo = c /\ J.ciudad = i /\ J.cache = h /\ J.dur = d /\ J.pre = p /\ J.de = r
             /\ [J EXCEPT !.fase = x] = Trab(x, c, i, h, d, p, r)
             /\ [J EXCEPT !.completo = x] = Trab(f, x, i, h, d, p, r)
             /\ [J EXCEPT !.ciudad = x] = Trab(f, c, x, h, d, p, r)
             /\ [J EXCEPT !.cache = x] = Trab(f, c, i, x, d, p, r)
             /\ [J EXCEPT !.dur = x] = Trab(f, c, i, h, x, p, r)
             /\ [J EXCEPT !.pre = x] = Trab(f, c, i, h, d, x, r)
             /\ [J EXCEPT !.de = x] = Trab(f, c, i, h, d, p, x)
<1>1. \A J \in Trabajos : J = Trab(J.fase, J.completo, J.ciudad, J.cache, J.dur, J.pre, J.de)
  BY DEF Trabajos, Trab
<1>2. ASSUME NEW f, NEW c, NEW i, NEW h, NEW d, NEW p, NEW r, NEW x
      PROVE  LET J == Trab(f, c, i, h, d, p, r)
             IN  /\ J.fase = f /\ J.completo = c /\ J.ciudad = i /\ J.cache = h /\ J.dur = d /\ J.pre = p /\ J.de = r
                 /\ [J EXCEPT !.fase = x] = Trab(x, c, i, h, d, p, r)
                 /\ [J EXCEPT !.completo = x] = Trab(f, x, i, h, d, p, r)
                 /\ [J EXCEPT !.ciudad = x] = Trab(f, c, x, h, d, p, r)
                 /\ [J EXCEPT !.cache = x] = Trab(f, c, i, x, d, p, r)
                 /\ [J EXCEPT !.dur = x] = Trab(f, c, i, h, x, p, r)
                 /\ [J EXCEPT !.pre = x] = Trab(f, c, i, h, d, x, r)
                 /\ [J EXCEPT !.de = x] = Trab(f, c, i, h, d, p, x)
  BY DEF Trab
<1>3. QED
  BY <1>1, <1>2

\* What Sigue says is an instant, the same the second time at the same instant.
LEMMA SigueIs ==
    ASSUME NEW de \in Instante, NEW t \in Nat, NEW n, n = Sigue(de, t)
    PROVE  /\ n \in Instante /\ n # Nada /\ Sigue(n, t) = n
           /\ n[1] = de[1] /\ n[2] = de[2]
           /\ n[3] <= CalientaAntes => n[3] = (t - de[1]) % Dia /\ de[3] <= n[3]
<1> DEFINE r == (t - de[1]) % Dia
           R == IF de[3] <= r /\ r <= CalientaAntes THEN r ELSE CalientaAntes + 1
<1>1. CalientaAntes \in Nat /\ Nada \notin Instante
  BY ClockAssumption, NadaAssumption DEF Instante
<1>2. de[1] \in Nat /\ de[2] \in Int \X Int /\ de[3] \in Nat
  BY DEF Instante
<1>3. r \in Nat
  BY <1>2 DEF Dia
<1>4. n = <<de[1], de[2], R>>
  BY DEF Sigue
<1> HIDE DEF r
<1>5. R \in Nat
  BY <1>1, <1>3
<1>6. n[1] = de[1] /\ n[2] = de[2] /\ n[3] = R /\ n \in Instante
  BY <1>2, <1>4, <1>5 DEF Instante
<1>7. Sigue(n, t) = <<de[1], de[2], IF R <= r /\ r <= CalientaAntes THEN r ELSE CalientaAntes + 1>>
  BY <1>6 DEF Sigue, r
<1>8. (IF R <= r /\ r <= CalientaAntes THEN r ELSE CalientaAntes + 1) = R
  BY <1>1, <1>2, <1>3
<1>9. R <= CalientaAntes => R = r /\ de[3] <= R
  BY <1>1, <1>2, <1>3
<1>10. QED
  BY <1>1, <1>4, <1>6, <1>7, <1>8, <1>9 DEF r

(***************************************************************************)
(* What is warmed ahead.                                                   *)
(***************************************************************************)
\* The hour of the day some time after another, as a remainder, ...
LEMMA MasTarde ==
    ASSUME NEW a \in Int, NEW b \in Int, NEW x \in Int, 0 <= x, x < Dia
    PROVE  /\ (a + x - b) % Dia = IF ((a - b) % Dia) + x < Dia THEN ((a - b) % Dia) + x ELSE ((a - b) % Dia) + x - Dia
           /\ (((a + x) % Dia) - b) % Dia = (a + x - b) % Dia
BY DEF Dia

\* ... and counted from an instant before both.
LEMMA DesdeAntes ==
    ASSUME NEW a \in Int, NEW b \in Int, NEW x \in Int, NEW c \in Int
    PROVE  (c + ((a - c) % Dia) + x - b) % Dia = (a + x - b) % Dia
BY DEF Dia

\* What passes since a departure, some time later.
LEMMA PasaLuego ==
    ASSUME NEW k \in Claves, NEW v \in Viajes(k), NEW t \in Int, NEW x \in Int, 0 <= x, x < Dia
    PROVE  /\ Pasa(k, t + x, v) = IF Pasa(k, t, v) + x < Dia THEN Pasa(k, t, v) + x ELSE Pasa(k, t, v) + x - Dia
           /\ Pasa(k, (t + x) % Dia, v) = Pasa(k, t + x, v)
           /\ \A c \in Int : Pasa(k, c + ((t - c) % Dia) + x, v) = Pasa(k, t + x, v)
<1> DEFINE t0 == PobDe(k).viajes[v].t0
<1>1. t0 \in Int
  <2> DEFINE P == PobDe(k)
  <2>1. BienHecha(P) /\ v \in DOMAIN P.viajes
    BY Buena DEF Viajes
  <2> HIDE DEF P
  <2>2. P.viajes[v].t0 \in Int
    BY <2>1, DiaIs DEF BienHecha
  <2>3. QED
    BY <2>2 DEF P
<1> HIDE DEF t0
<1>2. \A c \in Int : (c + ((t - c) % Dia) + x - t0) % Dia = (t + x - t0) % Dia
  BY <1>1, DesdeAntes
<1>3. /\ (t + x - t0) % Dia = IF ((t - t0) % Dia) + x < Dia THEN ((t - t0) % Dia) + x ELSE ((t - t0) % Dia) + x - Dia
      /\ (((t + x) % Dia) - t0) % Dia = (t + x - t0) % Dia
  BY <1>1, MasTarde
<1>4. /\ (t + x) - t0 = t + x - t0
      /\ \A c \in Int : (c + ((t - c) % Dia) + x) - t0 = c + ((t - c) % Dia) + x - t0
  BY <1>1 DEF Dia
<1>5. QED
  BY <1>2, <1>3, <1>4 DEF Pasa, t0

\* Who is not in the street at the instant Cuando looks at will not be in it
\* while the warming is good, or walks for no more than that.
LEMMA CuandoIs ==
    ASSUME NEW k \in Claves, NEW v \in Viajes(k), NEW t \in Int,
           ~EnRuta(k, Cuando(PobDe(k), v, t), v)
    PROVE  Corto(k, v) \/ \A x \in 0..CalientaAntes : ~EnRuta(k, t + x, v)
<1>1. /\ CalientaAntes \in Nat /\ DMax + CalientaAntes < Dia /\ DMax \in Nat /\ CalientaAntes < Dia
  <2>1. DMax \in Nat
    BY DEF DMax, EsperaMax
  <2>2. QED
    BY <2>1, ClockAssumption, DiaIs
<1>2. /\ Duracion(k, v) \in Int /\ Duracion(k, v) <= DMax
      /\ \A u \in Int : Pasa(k, u, v) \in Nat /\ Pasa(k, u, v) < Dia
      /\ \A u \in Int : EnRuta(k, u, v) <=> Duracion(k, v) >= 0 /\ Pasa(k, u, v) < Duracion(k, v)
  BY ViajeIs
<1>3. \A x \in 0..CalientaAntes :
         Pasa(k, t + x, v) = IF Pasa(k, t, v) + x < Dia THEN Pasa(k, t, v) + x ELSE Pasa(k, t, v) + x - Dia
  <2>1. TAKE x \in 0..CalientaAntes
  <2>2. x \in Int /\ 0 <= x /\ x < Dia
    BY <1>1, DiaIs
  <2>3. QED
    BY <2>2, PasaLuego
<1>4. SUFFICES ASSUME ~Corto(k, v), NEW x \in 0..CalientaAntes, EnRuta(k, t + x, v) PROVE FALSE
  OBVIOUS
<1>5. Duracion(k, v) > CalientaAntes
  BY <1>1, <1>2, <1>4 DEF Corto
<1>6. t + x \in Int /\ t + CalientaAntes \in Int /\ Pasa(k, t + x, v) < Duracion(k, v)
  BY <1>1, <1>2, <1>4
<1>7. CASE Pasa(k, t, v) <= DMax
  <2>1. Cuando(PobDe(k), v, t) = t
    BY <1>7 DEF Cuando, Pasa
  <2>2. Pasa(k, t, v) >= Duracion(k, v)
    BY <1>1, <1>2, <1>5, <2>1
  <2>3. Pasa(k, t, v) + x < Dia
    <3>1. Pasa(k, t, v) \in Nat /\ x \in Nat /\ x <= CalientaAntes
      BY <1>1, <1>2
    <3> HIDE DEF Pasa
    <3>2. QED
      BY <1>1, <1>7, <3>1, DiaIs
  <2>4. QED
    BY <1>1, <1>2, <1>3, <1>6, <2>2, <2>3
<1>8. CASE ~ (Pasa(k, t, v) <= DMax)
  <2>1. Cuando(PobDe(k), v, t) = (t + CalientaAntes) % Dia
    BY <1>8 DEF Cuando, Pasa
  <2>2. Pasa(k, (t + CalientaAntes) % Dia, v) = Pasa(k, t + CalientaAntes, v)
    BY <1>1, PasaLuego
  <2>3. (t + CalientaAntes) % Dia \in Int
    BY <1>1 DEF Dia
  <2>4. Pasa(k, t + CalientaAntes, v) >= Duracion(k, v)
    BY <1>1, <1>2, <1>5, <2>1, <2>2, <2>3
  <2>5. ~ (Pasa(k, t, v) + x < Dia)
    BY <1>1, <1>2, <1>3, <1>6, <1>8
  <2>6. Pasa(k, t + CalientaAntes, v) = Pasa(k, t, v) + CalientaAntes - Dia
    <3>1. CalientaAntes \in 0..CalientaAntes
      BY <1>1
    <3>2. ~ (Pasa(k, t, v) + CalientaAntes < Dia)
      BY <1>1, <1>2, <2>5, DiaIs
    <3>3. QED
      BY <1>3, <3>1, <3>2
  <2>7. QED
    BY <1>1, <1>2, <1>5, <2>4, <2>6, DiaIs
<1>9. QED
  BY <1>7, <1>8

\* Who was just looked at is warm.
LEMMA TempladoElVisto ==
    ASSUME NEW k \in Claves, NEW v \in Viajes(k), NEW t \in Nat, NEW de \in Instante,
           de[3] = (t - de[1]) % Dia, de[3] <= CalientaAntes,
           NEW c, NEW d, v \in DOMAIN d, EnRuta(k, Cuando(PobDe(k), v, t), v) => v \in DOMAIN c
    PROVE  Templado(k, c, d, de, v)
<1>1. SUFFICES ASSUME ~EnRuta(k, Cuando(PobDe(k), v, t), v), ~Corto(k, v), NEW r \in de[3]..CalientaAntes
               PROVE  ~EnRuta(k, de[1] + r, v)
  BY DEF Templado
<1>2. \A x \in 0..CalientaAntes : ~EnRuta(k, t + x, v)
  BY <1>1, CuandoIs
<1>3. /\ CalientaAntes \in Nat /\ CalientaAntes < Dia
      /\ de[1] \in Nat /\ de[3] \in Nat
  <2>1. DMax \in Nat
    BY DEF DMax, EsperaMax
  <2>2. QED
    BY <2>1, ClockAssumption, DiaIs DEF Instante
<1> DEFINE x == r - de[3]
           m == (t - de[1]) % Dia
<1>4. x \in 0..CalientaAntes /\ x \in Int /\ 0 <= x /\ x < Dia
  BY <1>3, DiaIs
<1>5. r = m + x /\ m \in Nat
  BY <1>3
<1> HIDE DEF x, m
<1>6. \A c1 \in Int : Pasa(k, c1 + ((t - c1) % Dia) + x, v) = Pasa(k, t + x, v)
  <2> DEFINE u == t
  <2>1. u \in Int
    OBVIOUS
  <2> HIDE DEF u
  <2>2. \A c1 \in Int : Pasa(k, c1 + ((u - c1) % Dia) + x, v) = Pasa(k, u + x, v)
    BY <1>4, <2>1, PasaLuego
  <2>3. QED
    BY <2>2 DEF u
<1>7. Pasa(k, de[1] + m + x, v) = Pasa(k, t + x, v)
  BY <1>3, <1>6 DEF m
<1>8. de[1] + r = de[1] + m + x
  BY <1>3, <1>4, <1>5
<1>9. Pasa(k, de[1] + r, v) = Pasa(k, t + x, v)
  BY <1>7, <1>8
<1>10. QED
  BY <1>2, <1>4, <1>9 DEF EnRuta

\* The elements of a list are its head's and its tail's.
LEMMA ColaIs ==
    ASSUME NEW S, NEW s \in Seq(S), s # <<>>
    PROVE  Head(s) \in S /\ Tail(s) \in Seq(S) /\ ToSet(s) \subseteq {Head(s)} \cup ToSet(Tail(s))
<1>1. /\ Head(s) \in S /\ Tail(s) \in Seq(S) /\ Len(Tail(s)) = Len(s) - 1
      /\ \A i \in 1..Len(Tail(s)) : Tail(s)[i] = s[i + 1]
  BY HeadTailProperties
<1>2. Head(s) = s[1] /\ Len(s) \in Nat /\ DOMAIN s = 1..Len(s) /\ DOMAIN Tail(s) = 1..Len(Tail(s))
  BY <1>1
<1>3. ASSUME NEW i \in 1..Len(s) PROVE s[i] \in {Head(s)} \cup ToSet(Tail(s))
  <2>1. CASE i = 1
    BY <1>2, <2>1
  <2>2. CASE i # 1
    <3>1. i - 1 \in 1..Len(Tail(s)) /\ (i - 1) + 1 = i
      BY <1>1, <1>2, <2>2
    <3>2. Tail(s)[i - 1] = s[i]
      BY <1>1, <3>1
    <3>3. QED
      BY <1>2, <3>1, <3>2 DEF ToSet
  <2>3. QED
    BY <2>1, <2>2
<1>4. QED
  BY <1>1, <1>2, <1>3 DEF ToSet

\* The trips of the zones near a place whose departure is in the window.
SalenCerca(k, f, t, ancho) == EnVentana(PobDe(k), t, ancho, ZonasCerca(PobDe(k), f))

\* They are trips of the population, and all that left in the window.
LEMMA SalenCercaIs ==
    ASSUME NEW k \in Claves, NEW f \in Int \X Int, NEW t \in Int, NEW ancho \in Nat, ancho < Dia
    PROVE  /\ SalenCerca(k, f, t, ancho) \in Seq(Viajes(k))
           /\ \A v : v \in ToSet(SalenCerca(k, f, t, ancho)) <=>
                     \E j \in 1..Len(ZonasCerca(PobDe(k), f)) :
                        /\ v \in ToSet(PobDe(k).zonas[ZonasCerca(PobDe(k), f)[j]].viajes)
                        /\ Pasa(k, t, v) <= ancho
<1> DEFINE P == PobDe(k)
           zs == ZonasCerca(P, f)
<1>1. BienHecha(P)
  BY Buena
<1> HIDE DEF P
<1>2. zs \in Seq(DOMAIN P.zonas)
  BY <1>1, ZonasCercaIs
<1> HIDE DEF zs
<1>3. /\ EnVentana(P, t, ancho, zs) \in Seq(DOMAIN P.viajes)
      /\ ToSet(EnVentana(P, t, ancho, zs)) = UNION {Salen(P, t, ancho, zs[j]) : j \in 1..Len(zs)}
  <2>1. DeLaVentana(P, t, ancho, zs, EnVentana(P, t, ancho, zs))
    BY <1>1, <1>2, EnVentanaIs
  <2>2. QED
    BY <2>1 DEF DeLaVentana
<1>4. SalenCerca(k, f, t, ancho) = EnVentana(P, t, ancho, zs) /\ Viajes(k) = DOMAIN P.viajes
  BY DEF SalenCerca, Viajes, P, zs
<1>5. \A v, j : v \in Salen(P, t, ancho, zs[j]) <=> v \in ToSet(P.zonas[zs[j]].viajes) /\ Pasa(k, t, v) <= ancho
  BY DEF Salen, Pasa, P
<1>6. \A v : v \in ToSet(EnVentana(P, t, ancho, zs)) <=> \E j \in 1..Len(zs) : v \in Salen(P, t, ancho, zs[j])
  BY <1>3
<1>7. \A v : v \in ToSet(SalenCerca(k, f, t, ancho)) <=>
               \E j \in 1..Len(zs) : v \in ToSet(P.zonas[zs[j]].viajes) /\ Pasa(k, t, v) <= ancho
  BY <1>4, <1>5, <1>6
<1>8. QED
  BY <1>3, <1>4, <1>7 DEF P, zs

\* The widths that the module asks for are less than a day.
LEMMA Anchos ==
    /\ DMax \in Nat /\ DMax < Dia /\ CalientaAntes \in Nat
    /\ DMax + CalientaAntes \in Nat /\ DMax + CalientaAntes < Dia
<1>1. DMax \in Nat
  BY DEF DMax, EsperaMax
<1>2. QED
  BY <1>1, ClockAssumption, DiaIs

\* What a step of the build at instant t does to the warming's instant.
Rastro(de, t) == IF de = Nada THEN <<t, foco, 0>> ELSE Sigue(de, t)

\* It is an instant, the same the second time in a frame.
LEMMA RastroIs ==
    ASSUME foco \in Focos, NEW t \in Nat, NEW de \in Instante \cup {Nada}, NEW n, n = Rastro(de, t)
    PROVE  /\ n \in Instante /\ n # Nada /\ Rastro(n, t) = n
           /\ n[3] <= CalientaAntes => n[3] = (t - n[1]) % Dia
<1>1. Nada \notin Instante /\ foco \in Int \X Int /\ CalientaAntes \in Nat
  BY NadaAssumption, ClockAssumption DEF Instante
<1>2. CASE de = Nada
  <2>1. n = <<t, foco, 0>>
    BY <1>2 DEF Rastro
  <2>2. n \in Instante /\ n[1] = t /\ n[2] = foco /\ n[3] = 0
    BY <1>1, <2>1 DEF Instante
  <2>3. (t - t) % Dia = 0
    BY DEF Dia
  <2>4. Sigue(n, t) = n
    <3>1. (t - n[1]) % Dia = 0 /\ n[3] <= 0 /\ 0 <= CalientaAntes
      BY <1>1, <2>2, <2>3
    <3>2. Sigue(n, t) = <<n[1], n[2], 0>>
      BY <3>1 DEF Sigue
    <3>3. QED
      BY <2>1, <2>2, <3>2
  <2>5. QED
    BY <1>1, <2>2, <2>3, <2>4 DEF Rastro
<1>3. CASE de # Nada
  <2>1. n = Sigue(de, t) /\ de \in Instante
    BY <1>3 DEF Rastro
  <2>2. /\ n \in Instante /\ n # Nada /\ Sigue(n, t) = n /\ n[1] = de[1]
        /\ n[3] <= CalientaAntes => n[3] = (t - de[1]) % Dia
    BY <2>1, SigueIs
  <2>3. QED
    BY <2>2 DEF Rastro
<1>4. QED
  BY <1>2, <1>3

\* The parts of a build that are changed together.
PonFaseYCatastro(J, x, y) == [J EXCEPT !.fase = x, !.completo = y]
PonFaseYCiudad(J, x, y) == [J EXCEPT !.fase = x, !.ciudad = y]
PonLista(J, x, y) == [J EXCEPT !.pre = x, !.de = y]
PonCalor(J, x, y, z) == [J EXCEPT !.cache = x, !.dur = y, !.pre = z]

\* A step of the phases, ...
LEMMA FaseYOtra ==
    ASSUME NEW J \in Trabajos, NEW x, NEW y
    PROVE  /\ PonFaseYCatastro(J, x, y) = Trab(x, y, J.ciudad, J.cache, J.dur, J.pre, J.de)
           /\ PonFaseYCiudad(J, x, y) = Trab(x, J.completo, y, J.cache, J.dur, J.pre, J.de)
<1> DEFINE G == [J EXCEPT !.fase = x]
<1>1. G = Trab(x, J.completo, J.ciudad, J.cache, J.dur, J.pre, J.de)
  BY TrabIs
<1> HIDE DEF G
<1>2. /\ [G EXCEPT !.completo = y] = Trab(x, y, J.ciudad, J.cache, J.dur, J.pre, J.de)
      /\ [G EXCEPT !.ciudad = y] = Trab(x, J.completo, y, J.cache, J.dur, J.pre, J.de)
  BY <1>1, TrabIs
<1>3. QED
  BY <1>2 DEF G, PonFaseYCatastro, PonFaseYCiudad

\* ... the list and its instant, ...
LEMMA ListaYDe ==
    ASSUME NEW J \in Trabajos, NEW x, NEW y
    PROVE  PonLista(J, x, y) = Trab(J.fase, J.completo, J.ciudad, J.cache, J.dur, x, y)
<1> DEFINE G == [J EXCEPT !.pre = x]
<1>1. G = Trab(J.fase, J.completo, J.ciudad, J.cache, J.dur, x, J.de)
  BY TrabIs
<1> HIDE DEF G
<1>2. [G EXCEPT !.de = y] = Trab(J.fase, J.completo, J.ciudad, J.cache, J.dur, x, y)
  BY <1>1, TrabIs
<1>3. QED
  BY <1>2 DEF G, PonLista

\* ... what is warm and who is left.
LEMMA CalorYLista ==
    ASSUME NEW J \in Trabajos, NEW x, NEW y, NEW z
    PROVE  PonCalor(J, x, y, z) = Trab(J.fase, J.completo, J.ciudad, x, y, z, J.de)
<1> DEFINE G == [J EXCEPT !.cache = x]
           H == [G EXCEPT !.dur = y]
<1>1. G = Trab(J.fase, J.completo, J.ciudad, x, J.dur, J.pre, J.de)
  BY TrabIs
<1> HIDE DEF G
<1>2. H = Trab(J.fase, J.completo, J.ciudad, x, y, J.pre, J.de)
  BY <1>1, TrabIs
<1> HIDE DEF H
<1>3. [H EXCEPT !.pre = z] = Trab(J.fase, J.completo, J.ciudad, x, y, z, J.de)
  BY <1>2, TrabIs
<1>4. QED
  BY <1>3 DEF G, H, PonCalor

\* The list is empty at first, and so are the cache and the durations.
LEMMA VaciaIs == ASSUME NEW V, NEW X PROVE <<>> \in Parciales(V, X) /\ DOMAIN <<>> = {}
<1>1. DOMAIN <<>> = {} /\ <<>> \in [{} -> X]
  OBVIOUS
<1>2. QED
  BY <1>1, ParcialesIs

\* What the build keeps says where its list comes from.
LEMMA ListaIs ==
    ASSUME NEW J \in Trabajos, NEW s, Bien(J, s)
    PROVE  /\ J.pre = Nada => J.de = Nada /\ J.cache = <<>> /\ J.dur = <<>>
           /\ J.pre # Nada => /\ J.fase >= 8 /\ J.de \in Instante
                              /\ ClaveDe(J) \in Claves /\ J.pre \in Seq(Viajes(ClaveDe(J)))
                              /\ DePob(ClaveDe(J), J.cache, J.dur)
                              /\ Caldeada(ClaveDe(J), J.cache, J.dur, J.pre, J.de)
           /\ J.fase >= 4 => ClaveDe(J) \in Claves
<1>1. J.fase >= 4 => ClaveDe(J) \in Claves
  BY DEF Bien, ClaveDe, Claves, Catastro
<1>2. J.fase >= 8 => ClaveDe(J) \in Claves
  BY <1>1 DEF Trabajos
<1>3. J.fase >= 8 /\ J.pre \in Seq(Viajes(ClaveDe(J))) => J.pre # Nada
  <2>1. SUFFICES ASSUME J.fase >= 8, J.pre \in Seq(Viajes(ClaveDe(J))) PROVE J.pre \in Seq(Nat)
    BY NadaAssumption
  <2>2. Viajes(ClaveDe(J)) \subseteq Nat
    <3> DEFINE P == PobDe(ClaveDe(J))
    <3>1. BienHecha(P)
      BY <1>2, <2>1, Buena
    <3> HIDE DEF P
    <3>2. DOMAIN P.viajes \subseteq Nat
      BY <3>1 DEF BienHecha
    <3>3. QED
      BY <3>2 DEF Viajes, P
  <2>3. QED
    BY <2>1, <2>2
<1>4. J.de # Nada => J.de \in Instante
  BY DEF Trabajos
<1>5. QED
  BY <1>1, <1>2, <1>3, <1>4 DEF Bien

\* A list that was warm stays so as the clock goes on.
LEMMA SigueCaldeada ==
    ASSUME NEW k, NEW c, NEW d, NEW pre, NEW de \in Instante, NEW t \in Nat, NEW n, n = Sigue(de, t),
           Caldeada(k, c, d, pre, de)
    PROVE  Caldeada(k, c, d, pre, n)
<1>1. /\ n[1] = de[1] /\ n[2] = de[2] /\ n \in Instante
      /\ n[3] <= CalientaAntes => de[3] <= n[3]
  BY SigueIs
<1>2. de[3] \in Nat /\ n[3] \in Nat /\ CalientaAntes \in Nat
  BY <1>1, ClockAssumption DEF Instante
<1>3. SUFFICES ASSUME n[3] <= CalientaAntes, NEW v \in Lista(k, n) PROVE v \in ToSet(pre) \/ Templado(k, c, d, n, v)
  BY DEF Caldeada
<1>4. de[3] <= CalientaAntes /\ v \in Lista(k, de)
  BY <1>1, <1>2, <1>3 DEF Lista
<1>5. CASE Templado(k, c, d, de, v)
  <2>1. \A r \in n[3]..CalientaAntes : r \in de[3]..CalientaAntes
    BY <1>1, <1>2, <1>3
  <2>2. QED
    BY <1>1, <1>5, <2>1 DEF Templado
<1>6. QED
  BY <1>3, <1>4, <1>5 DEF Caldeada

\* The list of who to warm is made once, at the first step of the warming.
LEMMA ConListaIs ==
    ASSUME foco \in Focos, NEW J \in Trabajos, NEW s, Bien(J, s), J.fase = 8, NEW t \in Nat,
           NEW n, n = ConLista(J, t)
    PROVE  n \in Trabajos /\ Bien(n, s) /\ n.fase = 8 /\ n.pre # Nada /\ n.de = Rastro(J.de, t)
<1> DEFINE k == ClaveDe(J)
           r == Rastro(J.de, t)
           X == ACalentar(PobDe(k), t)
<1>1. /\ J = Trab(J.fase, J.completo, J.ciudad, J.cache, J.dur, J.pre, J.de)
      /\ J.fase = 8 /\ J.completo \in BOOLEAN /\ J.ciudad \in (DOMAIN Ciudades) \cup {Nada}
      /\ J.cache \in Parciales(Nat, [de : Claves, uso : Nat]) /\ J.dur \in Parciales(Nat, Int)
      /\ J.pre \in Seq(Nat) \cup {Nada} /\ J.de \in Instante \cup {Nada}
      /\ J.ciudad \in DOMAIN Ciudades /\ Firma(J.ciudad) = s
  <2>1. J.ciudad \in DOMAIN Ciudades /\ Firma(J.ciudad) = s
    BY DEF Bien
  <2>2. J = Trab(J.fase, J.completo, J.ciudad, J.cache, J.dur, J.pre, J.de)
    BY TrabIs
  <2>3. QED
    BY <2>1, <2>2 DEF Trabajos
<1>2. /\ k \in Claves
      /\ J.pre = Nada => J.de = Nada /\ J.cache = <<>> /\ J.dur = <<>>
      /\ J.pre # Nada => /\ J.de \in Instante /\ J.pre \in Seq(Viajes(k))
                         /\ DePob(k, J.cache, J.dur) /\ Caldeada(k, J.cache, J.dur, J.pre, J.de)
  BY <1>1, ListaIs
<1>3. r \in Instante /\ r # Nada
  BY <1>1, RastroIs
<1>4. \A p, d : ClaveDe(Trab(8, J.completo, J.ciudad, J.cache, J.dur, p, d)) = k
  BY DEF ClaveDe, Trab
<1> HIDE DEF k
<1>5. X \in Seq(Viajes(k)) /\ ToSet(X) = Lista(k, <<t, foco, 0>>)
  <2>1. foco \in Int \X Int /\ t + CalientaAntes \in Int
    BY ClockAssumption
  <2>2. X = SalenCerca(k, foco, t + CalientaAntes, DMax + CalientaAntes)
    BY DEF ACalentar, SalenCerca
  <2> HIDE DEF X
  <2>3. X \in Seq(Viajes(k))
    BY <1>2, <2>1, <2>2, Anchos, SalenCercaIs
  <2>4. QED
    BY <2>2, <2>3 DEF Lista, SalenCerca
<1> HIDE DEF r, X
<1>6. Viajes(k) \subseteq Nat
  BY <1>2, ViajeIs
<1>7. SUFFICES ASSUME NEW p \in Seq(Viajes(k)), n = Trab(8, J.completo, J.ciudad, J.cache, J.dur, p, r),
                      Caldeada(k, J.cache, J.dur, p, r), DePob(k, J.cache, J.dur), p # Nada
               PROVE  n \in Trabajos /\ Bien(n, s) /\ n.fase = 8 /\ n.pre # Nada /\ n.de = r
  <2>1. CASE J.pre = Nada
    <3>1. n = Trab(8, J.completo, J.ciudad, J.cache, J.dur, X, r)
      <4>1. n = PonLista(J, X, r)
        <5>1. r = <<t, foco, 0>>
          BY <1>2, <2>1 DEF r, Rastro
        <5>2. QED
          BY <2>1, <5>1 DEF ConLista, PonLista, X, k
      <4>2. PonLista(J, X, r) = Trab(J.fase, J.completo, J.ciudad, J.cache, J.dur, X, r)
        BY ListaYDe
      <4>3. QED
        BY <1>1, <4>1, <4>2
    <3>2. Caldeada(k, J.cache, J.dur, X, r)
      BY <1>2, <1>5, <2>1 DEF Caldeada, r, Rastro
    <3>3. DePob(k, J.cache, J.dur)
      BY <1>2, <2>1, VaciaIs DEF DePob
    <3>4. X # Nada
      BY <1>5, <1>6, NadaAssumption
    <3>5. QED
      BY <1>5, <3>1, <3>2, <3>3, <3>4 DEF r
  <2>2. CASE J.pre # Nada
    <3>1. r = Sigue(J.de, t)
      BY <1>2, <2>2, NadaAssumption DEF r, Rastro, Instante
    <3>2. n = Trab(8, J.completo, J.ciudad, J.cache, J.dur, J.pre, r)
      <4>1. n = [J EXCEPT !.de = r]
        BY <2>2, <3>1 DEF ConLista
      <4>2. QED
        BY <1>1, <4>1, TrabIs
    <3>3. Caldeada(k, J.cache, J.dur, J.pre, r)
      BY <1>2, <2>2, <3>1, SigueCaldeada
    <3>4. QED
      BY <1>2, <2>2, <3>2, <3>3 DEF r
  <2>3. QED
    BY <2>1, <2>2
<1>8. /\ n.fase = 8 /\ n.completo = J.completo /\ n.ciudad = J.ciudad /\ n.cache = J.cache
      /\ n.dur = J.dur /\ n.pre = p /\ n.de = r
  BY <1>7 DEF Trab
<1>9. n \in Trabajos
  <2>1. p \in Seq(Nat) /\ 8 \in 0..9
    BY <1>6
  <2>2. QED
    BY <1>1, <1>3, <1>7, <2>1 DEF Trabajos, Trab
<1>10. ClaveDe(n) = k
  BY <1>4, <1>7
<1>11. Bien(n, s)
  BY <1>1, <1>3, <1>7, <1>8, <1>10 DEF Bien
<1>12. QED
  BY <1>7, <1>8, <1>9, <1>11

\* The functions on some of V are functions on some of more.
LEMMA ParcialesMas ==
    ASSUME NEW V, NEW X, NEW W, NEW Y, V \subseteq W, X \subseteq Y, NEW f \in Parciales(V, X)
    PROVE  f \in Parciales(W, Y)
<1>1. DOMAIN f \subseteq V /\ f \in [DOMAIN f -> X]
  BY ParcialesIs
<1>2. DOMAIN f \subseteq W /\ f \in [DOMAIN f -> Y]
  BY <1>1
<1>3. QED
  BY <1>2, ParcialesIs

\* What a population keeps is what a build may keep.
LEMMA DePobIs ==
    ASSUME NEW k \in Claves, NEW c, NEW d, DePob(k, c, d)
    PROVE  /\ Viajes(k) \subseteq Nat
           /\ c \in Parciales(Nat, [de : Claves, uso : Nat])
           /\ d \in Parciales(Nat, Int)
<1>1. Viajes(k) \subseteq Nat
  BY ViajeIs
<1>2. Paseo(k) \subseteq [de : Claves, uso : Nat]
  BY DEF Paseo
<1>3. c \in Parciales(Viajes(k), Paseo(k)) /\ d \in Parciales(Viajes(k), Int)
  BY DEF DePob
<1>4. c \in Parciales(Nat, [de : Claves, uso : Nat])
  <2> DEFINE Y == [de : Claves, uso : Nat]
  <2>1. Paseo(k) \subseteq Y
    BY <1>2
  <2> HIDE DEF Y
  <2>2. c \in Parciales(Nat, Y)
    BY <1>1, <1>3, <2>1, ParcialesMas
  <2>3. QED
    BY <2>2 DEF Y
<1>5. d \in Parciales(Nat, Int)
  BY <1>1, <1>3, ParcialesMas
<1>6. QED
  BY <1>1, <1>4, <1>5

\* To warm the first of the list keeps those before warm, and the list goes on.
LEMMA PrimeroCaldeado ==
    ASSUME NEW k \in Claves, NEW pre \in Seq(Viajes(k)), pre # <<>>, NEW t \in Nat, NEW de \in Instante,
           de[3] <= CalientaAntes => de[3] = (t - de[1]) % Dia,
           NEW c, NEW d, DePob(k, c, d), Caldeada(k, c, d, pre, de),
           NEW f, f = Transcurrido(k, Cuando(PobDe(k), Head(pre), t), Marco(c, d, 1, {}, {}), Head(pre))
    PROVE  /\ Tail(pre) \in Seq(Viajes(k))
           /\ DePob(k, f.cache, f.dur)
           /\ Caldeada(k, f.cache, f.dur, Tail(pre), de)
<1> DEFINE v == Head(pre)
           u == Cuando(PobDe(k), v, t)
           e == Marco(c, d, 1, {}, {})
<1>1. v \in Viajes(k) /\ Tail(pre) \in Seq(Viajes(k)) /\ ToSet(pre) \subseteq {v} \cup ToSet(Tail(pre))
  BY ColaIs
<1>2. e \in Marcos(k) /\ e.cache = c /\ e.dur = d /\ e.plazo = 1
  <2>1. e \in Marcos(k)
    BY MarcoIs
  <2>2. QED
    BY <2>1 DEF Marco
<1>3. u \in Int
  <2>1. t \in Int /\ (t + CalientaAntes) % Dia \in Int
    BY Anchos DEF Dia
  <2>2. QED
    BY <2>1 DEF Cuando
<1>4. f = Transcurrido(k, u, e, v)
  OBVIOUS
<1> HIDE DEF v, u, e
<1>5. f \in Marcos(k) /\ Avanza(k, u, e, v, f)
  BY <1>1, <1>2, <1>3, <1>4, TranscurridoIs
<1>6. DePob(k, f.cache, f.dur)
  BY <1>5 DEF Marcos
<1>7. /\ d \in Parciales(Viajes(k), Int) /\ DOMAIN d \subseteq DOMAIN f.dur
      /\ v \in DOMAIN f.dur /\ (EnRuta(k, u, v) => v \in DOMAIN f.cache)
      /\ \A w \in DOMAIN c : w # v => w \in DOMAIN f.cache
  BY <1>2, <1>5 DEF Avanza, DePob
<1>8. ASSUME de[3] <= CalientaAntes, NEW w \in Lista(k, de)
      PROVE  w \in ToSet(Tail(pre)) \/ Templado(k, f.cache, f.dur, de, w)
  <2>1. w \in ToSet(pre) \/ Templado(k, c, d, de, w)
    BY <1>8 DEF Caldeada
  <2>2. CASE w = v
    <3>1. Templado(k, f.cache, f.dur, de, v)
      BY <1>1, <1>7, <1>8, TempladoElVisto DEF u
    <3>2. QED
      BY <2>2, <3>1
  <2>3. CASE w # v
    BY <1>1, <1>7, <2>1, <2>3 DEF Templado
  <2>4. QED
    BY <2>2, <2>3
<1>9. Caldeada(k, f.cache, f.dur, Tail(pre), de)
  BY <1>8 DEF Caldeada
<1>10. QED
  BY <1>1, <1>6, <1>9

\* A step of the warming warms the first of the list, or ends.
LEMMA CalientaIs ==
    ASSUME NEW J \in Trabajos, NEW s, Bien(J, s), J.fase = 8, J.pre # Nada, NEW t \in Nat,
           J.de[3] <= CalientaAntes => J.de[3] = (t - J.de[1]) % Dia,
           NEW n, n = Calienta(J, t)
    PROVE  n \in Trabajos /\ Bien(n, s) /\ n.fase \in {8, 9} /\ n.pre # Nada /\ n.de = J.de
<1> DEFINE k == ClaveDe(J)
           f == Transcurrido(k, Cuando(PobDe(k), Head(J.pre), t), Marco(J.cache, J.dur, 1, {}, {}), Head(J.pre))
<1>1. /\ J = Trab(J.fase, J.completo, J.ciudad, J.cache, J.dur, J.pre, J.de)
      /\ J.completo \in BOOLEAN
      /\ J.ciudad \in DOMAIN Ciudades /\ Firma(J.ciudad) = s
  <2>1. J.ciudad \in DOMAIN Ciudades /\ Firma(J.ciudad) = s
    BY DEF Bien
  <2>2. J = Trab(J.fase, J.completo, J.ciudad, J.cache, J.dur, J.pre, J.de)
    BY TrabIs
  <2>3. QED
    BY <2>1, <2>2 DEF Trabajos
<1>2. /\ k \in Claves /\ J.de \in Instante /\ J.pre \in Seq(Viajes(k))
      /\ DePob(k, J.cache, J.dur) /\ Caldeada(k, J.cache, J.dur, J.pre, J.de)
  BY ListaIs
<1>3. \A x, c, d, p : ClaveDe(Trab(x, J.completo, J.ciudad, c, d, p, J.de)) = k
  BY DEF ClaveDe, Trab
<1> HIDE DEF k, f
<1>4. J.de # Nada /\ Viajes(k) \subseteq Nat
  BY <1>2, DePobIs, NadaAssumption DEF Instante
<1>5. SUFFICES ASSUME NEW x \in {8, 9}, NEW c, NEW d, NEW p \in Seq(Viajes(k)), x = 9 => p = <<>>,
                      n = Trab(x, J.completo, J.ciudad, c, d, p, J.de),
                      DePob(k, c, d), Caldeada(k, c, d, p, J.de)
               PROVE  n \in Trabajos /\ Bien(n, s) /\ n.fase \in {8, 9} /\ n.pre # Nada /\ n.de = J.de
  <2>1. CASE J.pre = <<>>
    <3>1. n = [J EXCEPT !.fase = 9]
      BY <2>1 DEF Calienta
    <3>2. n = Trab(9, J.completo, J.ciudad, J.cache, J.dur, J.pre, J.de)
      BY <1>1, <3>1, TrabIs
    <3>3. QED
      BY <1>2, <2>1, <3>2
  <2>2. CASE J.pre # <<>>
    <3>1. n = PonCalor(J, f.cache, f.dur, Tail(J.pre))
      BY <2>2 DEF Calienta, PonCalor, f, k, Marco
    <3>2. n = Trab(J.fase, J.completo, J.ciudad, f.cache, f.dur, Tail(J.pre), J.de)
      BY <3>1, CalorYLista
    <3>3. /\ Tail(J.pre) \in Seq(Viajes(k)) /\ DePob(k, f.cache, f.dur)
          /\ Caldeada(k, f.cache, f.dur, Tail(J.pre), J.de)
      BY <1>2, <2>2, PrimeroCaldeado DEF f
    <3>4. n = Trab(8, J.completo, J.ciudad, f.cache, f.dur, Tail(J.pre), J.de)
      BY <3>2
    <3>5. 8 \in {8, 9} /\ 8 # 9
      OBVIOUS
    <3> HIDE DEF Calienta
    <3>6. QED
      BY <1>5, <3>3, <3>4, <3>5
  <2>3. QED
    BY <2>1, <2>2
<1>6. /\ n.fase = x /\ n.completo = J.completo /\ n.ciudad = J.ciudad /\ n.cache = c
      /\ n.dur = d /\ n.pre = p /\ n.de = J.de
  BY <1>5 DEF Trab
<1>7. p \in Seq(Nat) /\ p # Nada
  BY <1>4, NadaAssumption
<1>8. n \in Trabajos
  <2>1. c \in Parciales(Nat, [de : Claves, uso : Nat]) /\ d \in Parciales(Nat, Int)
    BY <1>2, <1>5, DePobIs
  <2>2. QED
    BY <1>1, <1>2, <1>5, <1>7, <2>1 DEF Trabajos, Trab
<1>9. ClaveDe(n) = k
  BY <1>3, <1>5
<1>10. Bien(n, s)
  BY <1>1, <1>4, <1>5, <1>6, <1>9 DEF Bien
<1>11. QED
  BY <1>5, <1>6, <1>7, <1>8, <1>10

\* What a step at instant t makes of the instant of the warming: the warming
\* goes on from it, or nothing is done yet.
Continua(J, t, n) == \/ n.de = J.de /\ (n.fase = 9 => J.fase = 9)
                     \/ n.de = Rastro(J.de, t)

\* A step of the build keeps it good.
LEMMA UnPasoIs ==
    ASSUME ciudad \in DOMAIN Ciudades, foco \in Focos, NEW J \in Trabajos, NEW s, Bien(J, s), Firma(ciudad) = s,
           NEW t \in Nat, NEW n, n = UnPaso(J, t)
    PROVE  n \in Trabajos /\ Bien(n, s) /\ Continua(J, t, n)
<1>1. /\ J = Trab(J.fase, J.completo, J.ciudad, J.cache, J.dur, J.pre, J.de)
      /\ J.fase \in 0..9 /\ J.completo \in BOOLEAN /\ J.ciudad \in (DOMAIN Ciudades) \cup {Nada}
      /\ J.cache \in Parciales(Nat, [de : Claves, uso : Nat]) /\ J.dur \in Parciales(Nat, Int)
      /\ J.pre \in Seq(Nat) \cup {Nada} /\ J.de \in Instante \cup {Nada}
  <2>1. J = Trab(J.fase, J.completo, J.ciudad, J.cache, J.dur, J.pre, J.de)
    BY TrabIs
  <2>2. QED
    BY <2>1 DEF Trabajos
<1>2. J.fase < 8 => J.pre = Nada /\ J.de = Nada /\ J.cache = <<>> /\ J.dur = <<>>
  BY <1>1 DEF Bien
<1>3. J.fase >= 4 => J.ciudad \in DOMAIN Ciudades /\ Firma(J.ciudad) = s
  BY DEF Bien
<1>4. ASSUME J.fase < 8, NEW x \in 1..8, NEW y \in BOOLEAN, NEW z \in (DOMAIN Ciudades) \cup {Nada},
             x >= 4 => z \in DOMAIN Ciudades /\ Firma(z) = s,
             n = Trab(x, y, z, J.cache, J.dur, J.pre, J.de)
      PROVE  n \in Trabajos /\ Bien(n, s) /\ Continua(J, t, n)
  <2>1. /\ n.fase = x /\ n.completo = y /\ n.ciudad = z /\ n.cache = J.cache
        /\ n.dur = J.dur /\ n.pre = J.pre /\ n.de = J.de
    BY <1>4 DEF Trab
  <2>2. x \in 0..9 /\ x # 9
    BY <1>4
  <2>3. n \in Trabajos
    BY <1>1, <1>4, <2>2 DEF Trabajos, Trab
  <2>4. Bien(n, s)
    BY <1>2, <1>4, <2>1, <2>2 DEF Bien
  <2>5. QED
    BY <2>1, <2>2, <2>3, <2>4 DEF Continua
<1>5. CASE J.fase \in {1, 2}
  <2>1. n = PonFaseYCatastro(J, J.fase + 1, J.completo /\ Completo(calidad))
    BY <1>5 DEF UnPaso, PonFaseYCatastro
  <2>2. n = Trab(J.fase + 1, J.completo /\ Completo(calidad), J.ciudad, J.cache, J.dur, J.pre, J.de)
    BY <2>1, FaseYOtra
  <2>3. J.fase + 1 \in 1..8 /\ ~ (J.fase + 1 >= 4) /\ J.fase < 8
    BY <1>5
  <2>4. (J.completo /\ Completo(calidad)) \in BOOLEAN
    OBVIOUS
  <2>5. QED
    BY <1>1, <1>4, <2>2, <2>3, <2>4
<1>6. CASE J.fase = 3
  <2>1. n = PonFaseYCiudad(J, 4, ciudad)
    BY <1>6 DEF UnPaso, PonFaseYCiudad
  <2>2. n = Trab(4, J.completo, ciudad, J.cache, J.dur, J.pre, J.de)
    BY <2>1, FaseYOtra
  <2>3. 4 \in 1..8 /\ J.fase < 8
    BY <1>6
  <2>4. QED
    BY <1>1, <1>4, <2>2, <2>3
<1>7. CASE J.fase \in {0, 4, 5, 6, 7}
  <2>1. n = [J EXCEPT !.fase = J.fase + 1]
    BY <1>7 DEF UnPaso
  <2>2. n = Trab(J.fase + 1, J.completo, J.ciudad, J.cache, J.dur, J.pre, J.de)
    BY <1>1, <2>1, TrabIs
  <2>3. J.fase + 1 \in 1..8 /\ (J.fase + 1 >= 4 => J.fase >= 4) /\ J.fase < 8
    BY <1>7
  <2>4. QED
    BY <1>1, <1>3, <1>4, <2>2, <2>3
<1>8. CASE J.fase = 8
  <2> DEFINE m == ConLista(J, t)
  <2>1. n = Calienta(m, t)
    BY <1>8 DEF UnPaso
  <2> HIDE DEF m
  <2>2. m \in Trabajos /\ Bien(m, s) /\ m.fase = 8 /\ m.pre # Nada /\ m.de = Rastro(J.de, t)
    BY <1>8, ConListaIs DEF m
  <2>3. m.de[3] <= CalientaAntes => m.de[3] = (t - m.de[1]) % Dia
    BY <1>1, <2>2, RastroIs
  <2>4. n \in Trabajos /\ Bien(n, s) /\ n.de = m.de
    BY <2>1, <2>2, <2>3, CalientaIs
  <2>5. QED
    BY <2>2, <2>4 DEF Continua
<1>9. CASE J.fase = 9
  <2>1. n = J
    BY <1>9 DEF UnPaso
  <2>2. QED
    BY <1>9, <2>1 DEF Continua
<1>10. QED
  <2>1. J.fase \in {1, 2} \/ J.fase = 3 \/ J.fase \in {0, 4, 5, 6, 7} \/ J.fase = 8 \/ J.fase = 9
    BY <1>1
  <2>2. QED
    BY <1>5, <1>6, <1>7, <1>8, <1>9, <2>1

\* So do the steps of a frame, and a build that ends in them was warming.
LEMMA TrabajoPasoIs ==
    ASSUME ciudad \in DOMAIN Ciudades, foco \in Focos, NEW J \in Trabajos, NEW s, Bien(J, s), Firma(ciudad) = s,
           J.fase # 9, NEW t \in Nat, NEW pasos \in Nat, NEW n, n = TrabajoPaso(J, pasos, t)
    PROVE  n \in Trabajos /\ Bien(n, s) /\ (n.fase = 9 => n.de = Rastro(J.de, t))
<1> DEFINE A == {x \in Trabajos : /\ Bien(x, s)
                                  /\ \/ x.de = J.de /\ x.fase # 9
                                     \/ x.de = Rastro(J.de, t)}
<1>1. J \in A
  OBVIOUS
<1>2. ASSUME NEW x \in A PROVE UnPaso(x, t) \in A
  <2> DEFINE y == UnPaso(x, t)
  <2>1. y \in Trabajos /\ Bien(y, s) /\ Continua(x, t, y)
    BY <1>2, UnPasoIs
  <2> HIDE DEF y
  <2>2. Rastro(Rastro(J.de, t), t) = Rastro(J.de, t)
    <3>1. J.de \in Instante \cup {Nada}
      BY DEF Trabajos
    <3>2. QED
      BY <3>1, RastroIs
  <2>3. (y.de = J.de /\ y.fase # 9) \/ y.de = Rastro(J.de, t)
    BY <1>2, <2>1, <2>2 DEF Continua
  <2>4. y \in A
    BY <2>1, <2>3
  <2>5. QED
    BY <2>4 DEF y
<1> HIDE DEF A
<1>3. n \in A
  BY <1>1, <1>2, TrabajoPasoIn
<1>4. QED
  BY <1>3 DEF A

(***************************************************************************)
(* A frame.                                                                *)
(***************************************************************************)
\* The walks kept grow old ...
LEMMA EnvejeceIs ==
    ASSUME NEW k, NEW c \in Parciales(Viajes(k), Paseo(k))
    PROVE  Envejece(c) \in Parciales(Viajes(k), Paseo(k)) /\ DOMAIN Envejece(c) = DOMAIN c
<1> DEFINE V == Viajes(k)
           g == Envejece(c)
<1>1. DOMAIN c \subseteq V /\ c \in [DOMAIN c -> Paseo(k)]
  BY ParcialesIs
<1>2. DOMAIN g = DOMAIN c /\ g = [v \in DOMAIN g |-> g[v]]
  BY DEF Envejece
<1>3. ASSUME NEW v \in DOMAIN c PROVE g[v] \in Paseo(k)
  <2> DEFINE p == c[v]
             m == Min({p.uso + 1, PodaCuadros + 1})
  <2>1. p \in [de : {k}, uso : Nat]
    BY <1>1, <1>3 DEF Paseo
  <2>2. g[v] = [p EXCEPT !.uso = m]
    BY <1>3 DEF Envejece
  <2> HIDE DEF p
  <2>3. m \in Nat
    <3> DEFINE a == p.uso + 1
               b == PodaCuadros + 1
    <3>1. a \in Nat /\ b \in Nat
      BY <2>1, ClockAssumption
    <3> HIDE DEF a, b
    <3>2. \E x \in {a, b} : \A y \in {a, b} : x <= y
      BY <3>1
    <3>3. Min({a, b}) \in {a, b}
      BY <3>2 DEF Min
    <3>4. QED
      BY <3>1, <3>3 DEF a, b
  <2> HIDE DEF m
  <2>4. [p EXCEPT !.uso = m] \in [de : {k}, uso : Nat]
    BY <2>1, <2>3
  <2>5. QED
    BY <2>2, <2>4 DEF Paseo
<1> HIDE DEF g
<1>4. g \in [DOMAIN g -> Paseo(k)]
  BY <1>2, <1>3
<1>5. g \in Parciales(V, Paseo(k))
  BY <1>1, <1>2, <1>4, ParcialesIs
<1>6. QED
  BY <1>2, <1>5 DEF g

\* ... and the oldest are let go of when they are many.
LEMMA PodaIs ==
    ASSUME NEW k, NEW c \in Parciales(Viajes(k), Paseo(k))
    PROVE  Poda(c) \in Parciales(Viajes(k), Paseo(k)) /\ DOMAIN Poda(c) \subseteq DOMAIN c
<1> DEFINE S == {v \in DOMAIN c : c[v].uso <= PodaCuadros}
<1>1. S \subseteq DOMAIN c
  OBVIOUS
<1>2. Poda(c) = c \/ Poda(c) = [v \in S |-> c[v]]
  BY DEF Poda
<1> HIDE DEF S
<1>3. [v \in S |-> c[v]] \in Parciales(Viajes(k), Paseo(k)) /\ DOMAIN [v \in S |-> c[v]] = S
  BY <1>1, SoloIs
<1>4. QED
  BY <1>1, <1>2, <1>3

\* A frame starts from what the population before it left, or from what the
\* build of the new one warmed.
LEMMA ArranqueIs ==
    ASSUME NEW k, NEW cambia \in BOOLEAN, NEW J, NEW nuevos \in Nat,
           cambia => DePob(k, J.cache, J.dur), ~cambia => DePob(k, cache, dur),
           NEW e, e = Arranque(cambia, J, nuevos)
    PROVE  e \in Marcos(k) /\ e.activos = {} /\ e.aplazados = {} /\ (cambia => e.cache = J.cache)
<1>1. e = Marco(IF cambia THEN J.cache ELSE Envejece(cache), IF cambia THEN J.dur ELSE dur, nuevos, {}, {})
  BY DEF Arranque, Marco
<1>2. e.activos = {} /\ e.aplazados = {} /\ (cambia => e.cache = J.cache)
  BY <1>1 DEF Marco
<1>3. CASE cambia
  <2>1. e = Marco(J.cache, J.dur, nuevos, {}, {}) /\ nuevos \in Int
    BY <1>1, <1>3
  <2>2. e \in Marcos(k)
    BY <1>3, <2>1, MarcoIs
  <2>3. QED
    BY <1>2, <2>2
<1>4. CASE ~cambia
  <2>1. e = Marco(Envejece(cache), dur, nuevos, {}, {}) /\ nuevos \in Int
    BY <1>1, <1>4
  <2>2. Envejece(cache) \in Parciales(Viajes(k), Paseo(k)) /\ DOMAIN Envejece(cache) = DOMAIN cache
    BY <1>4, EnvejeceIs DEF DePob
  <2>3. DePob(k, Envejece(cache), dur)
    BY <1>4, <2>2 DEF DePob
  <2>4. e \in Marcos(k)
    BY <2>1, <2>3, MarcoIs
  <2>5. QED
    BY <1>2, <2>4
<1>5. QED
  BY <1>3, <1>4

\* Those who are on their way at an instant near a place left in the window
\* that the module looks at.
LEMMA EnLaCalleIs ==
    ASSUME NEW k \in Claves, NEW f \in Int \X Int, NEW t \in Int
    PROVE  EnLaCalle(k, t, f) = {v \in ToSet(SalenCerca(k, f, t, DMax)) : EnRuta(k, t, v)}
<1> DEFINE P == PobDe(k)
           zs == ZonasCerca(P, f)
           cerca == {zs[i] : i \in DOMAIN zs}
           n == Len(zs)
<1>1. BienHecha(P)
  BY Buena
<1>2. EnLaCalle(k, t, f) = {v \in UNION {{P.zonas[z].viajes[i] : i \in DOMAIN P.zonas[z].viajes} : z \in cerca} :
                            EnRuta(k, t, v)}
  BY DEF EnLaCalle, EnRuta, Pasa
<1>3. \A v : v \in ToSet(SalenCerca(k, f, t, DMax)) <=>
               \E j \in 1..n : v \in ToSet(P.zonas[zs[j]].viajes) /\ Pasa(k, t, v) <= DMax
  BY Anchos, SalenCercaIs
<1>4. /\ \A z \in DOMAIN P.zonas : P.zonas[z].viajes \in Seq(Viajes(k))
      /\ zs \in Seq(DOMAIN P.zonas)
  <2> HIDE DEF P
  <2> DEFINE Zonas == [x : Int, z : Int, R : Int, viajes : Seq(DOMAIN P.viajes)]
             ps == P.zonas
  <2>1. ps \in Seq(Zonas)
    BY <1>1 DEF BienHecha
  <2> HIDE DEF Zonas, ps
  <2>2. \A z \in DOMAIN ps : ps[z] \in Zonas
    BY <2>1
  <2>3. ZonasCerca(P, f) \in Seq(DOMAIN P.zonas)
    BY <1>1, ZonasCercaIs
  <2>4. QED
    BY <2>2, <2>3 DEF Zonas, ps, Viajes, P
<1> HIDE DEF P, zs
<1>5. n \in Nat /\ DOMAIN zs = 1..n /\ \A j \in 1..n : zs[j] \in DOMAIN P.zonas
  BY <1>4
<1> HIDE DEF n
<1>6. \A v : v \in UNION {{P.zonas[z].viajes[i] : i \in DOMAIN P.zonas[z].viajes} : z \in cerca} <=>
               \E j \in 1..n : v \in ToSet(P.zonas[zs[j]].viajes)
  BY <1>5 DEF ToSet
<1>7. ASSUME NEW v, NEW j \in 1..n, v \in ToSet(P.zonas[zs[j]].viajes), EnRuta(k, t, v)
      PROVE  Pasa(k, t, v) <= DMax
  <2>1. v \in Viajes(k)
    <3> DEFINE s == P.zonas[zs[j]].viajes
    <3>1. s \in Seq(Viajes(k))
      BY <1>4, <1>5
    <3> HIDE DEF s
    <3>2. \A i \in DOMAIN s : s[i] \in Viajes(k)
      BY <3>1
    <3>3. v \in ToSet(s)
      BY <1>7 DEF s
    <3>4. QED
      BY <3>2, <3>3 DEF ToSet
  <2>2. QED
    BY <1>7, <2>1, ViajeIs, Anchos
<1> HIDE DEF cerca
<1>8. QED
  BY <1>2, <1>3, <1>6, <1>7

\* Who is on the way when the new population comes out, for longer than what
\* is warmed ahead, was kept: the list is done, the place is that of the list,
\* and the clock went forward no more than what it allowed for.
LEMMA CalienteIs ==
    ASSUME NEW k \in Claves, NEW c, NEW d, NEW de \in Instante, NEW t \in Nat,
           de[3] = (t - de[1]) % Dia, de[3] <= CalientaAntes, Caldeada(k, c, d, <<>>, de),
           NEW v \in ToSet(SalenCerca(k, de[2], t, DMax)), EnRuta(k, t, v), ~Corto(k, v)
    PROVE  v \in DOMAIN c
<1> DEFINE f == de[2]
           r == de[3]
           u == t
           m == de[1] + CalientaAntes
           n == Len(ZonasCerca(PobDe(k), f))
           De(j) == ToSet(PobDe(k).zonas[ZonasCerca(PobDe(k), f)[j]].viajes)
<1>1. /\ de[1] \in Nat /\ f \in Int \X Int /\ r \in Nat /\ u \in Int /\ m \in Int
      /\ CalientaAntes - r \in Int /\ 0 <= CalientaAntes - r /\ CalientaAntes - r < Dia
      /\ r <= CalientaAntes
  BY Anchos, DiaIs DEF Instante
<1>2. v \in Viajes(k)
  <2> DEFINE s == SalenCerca(k, f, u, DMax)
  <2>1. s \in Seq(Viajes(k))
    <3> HIDE DEF f, u
    <3>1. QED
      BY <1>1, Anchos, SalenCercaIs
  <2> HIDE DEF s
  <2>2. \A i \in DOMAIN s : s[i] \in Viajes(k)
    BY <2>1
  <2>3. v \in ToSet(s)
    BY DEF s
  <2>4. QED
    BY <2>2, <2>3 DEF ToSet
<1>3. PICK j \in 1..n : v \in De(j) /\ Pasa(k, u, v) <= DMax
  <2>1. v \in ToSet(SalenCerca(k, f, u, DMax))
    OBVIOUS
  <2> HIDE DEF f, u
  <2>2. QED
    BY <1>1, <2>1, Anchos, SalenCercaIs
<1>4. Pasa(k, de[1] + r, v) = Pasa(k, u, v)
  <2>1. r = (u - de[1]) % Dia /\ de[1] \in Int
    BY <1>1
  <2>2. de[1] + r = de[1] + ((u - de[1]) % Dia) + 0 /\ u + 0 = u /\ 0 < Dia
    BY <1>1, <2>1, DiaIs
  <2> HIDE DEF r, u
  <2>3. \A b \in Int : Pasa(k, b + ((u - b) % Dia) + 0, v) = Pasa(k, u + 0, v)
    BY <1>1, <1>2, <2>2, PasaLuego
  <2>4. QED
    BY <2>1, <2>2, <2>3
<1>5. Pasa(k, m, v) <= DMax + CalientaAntes
  <2> DEFINE a == de[1] + r
             x == CalientaAntes - r
             b == Pasa(k, a, v)
  <2>1. a \in Int /\ x \in Int /\ 0 <= x /\ x < Dia /\ a + x = m /\ x <= CalientaAntes
    <3> DEFINE q == de[1]
    <3>1. q \in Nat /\ r \in Nat /\ CalientaAntes \in Nat
      BY <1>1, Anchos
    <3> HIDE DEF q, r
    <3>2. q + r \in Int /\ (q + r) + (CalientaAntes - r) = q + CalientaAntes /\ CalientaAntes - r <= CalientaAntes
      BY <3>1
    <3>3. QED
      BY <1>1, <3>2 DEF q
  <2> HIDE DEF a, x
  <2>2. b \in Nat /\ Pasa(k, a + x, v) = IF b + x < Dia THEN b + x ELSE b + x - Dia
    <3>1. b \in Nat
      BY <1>2, <2>1, ViajeIs
    <3>2. Pasa(k, a + x, v) = IF Pasa(k, a, v) + x < Dia THEN Pasa(k, a, v) + x ELSE Pasa(k, a, v) + x - Dia
      BY <1>2, <2>1, PasaLuego
    <3>3. QED
      BY <3>1, <3>2
  <2>3. b <= DMax
    BY <1>3, <1>4 DEF a
  <2> HIDE DEF b
  <2>4. b + x <= DMax + CalientaAntes /\ b + x < Dia
    BY <2>1, <2>2, <2>3, Anchos, DiaIs
  <2>5. QED
    BY <2>1, <2>2, <2>4
<1>6. v \in Lista(k, de)
  <2>1. v \in ToSet(SalenCerca(k, f, m, DMax + CalientaAntes))
    <3> HIDE DEF f, m
    <3>1. QED
      BY <1>1, <1>3, <1>5, Anchos, SalenCercaIs
  <2>2. QED
    BY <2>1 DEF Lista, SalenCerca
<1>7. Templado(k, c, d, de, v)
  <2>1. v \notin ToSet(<<>>)
    BY DEF ToSet
  <2>2. QED
    BY <1>1, <1>6, <2>1 DEF Caldeada
<1>8. EnRuta(k, de[1] + r, v)
  BY <1>4 DEF EnRuta
<1>9. r \in de[3]..CalientaAntes
  BY <1>1, Anchos
<1>10. QED
  BY <1>7, <1>8, <1>9 DEF Templado

(***************************************************************************)
(* The inductive invariant.                                                *)
(***************************************************************************)
Datos ==
    /\ ciudad \in DOMAIN Ciudades /\ foco \in Focos /\ hora \in Horas \cup {Nada}
    /\ listo \in BOOLEAN /\ hecho \in BOOLEAN /\ T \in Nat
\* What is kept is of the population of before, or there was none.
Guardado ==
    \/ ~hecho /\ DOMAIN cache = {} /\ DOMAIN dur = {}
    \/ pob \in Claves /\ DePob(pob, cache, dur)
AlDia ==
    /\ ~listo => ~hecho /\ trabajo = SinTrabajo
    /\ listo => firma = Firma(ciudad)
    /\ hecho /\ trabajo = SinTrabajo => Firma(pob[1]) = firma
EnObra ==
    trabajo # SinTrabajo => trabajo \in Trabajos /\ Bien(trabajo, firma) /\ trabajo.fase # 9
IInv == Datos /\ Guardado /\ AlDia /\ EnObra

\* A build has a phase, and no build has none.
LEMMA SinTrabajoIs == SinTrabajo \notin Trabajos /\ SinTrabajo.fase # 9
<1>1. SinTrabajo.fase = -1
  BY DEF SinTrabajo
<1>2. \A J \in Trabajos : J.fase \in 0..9
  BY DEF Trabajos
<1>3. QED
  BY <1>1, <1>2

\* A new build is good, whatever the parcels.
LEMMA TrabajoNuevoIs ==
    /\ TrabajoNuevo \in Trabajos /\ TrabajoNuevo # SinTrabajo /\ TrabajoNuevo.fase # 9
    /\ \A s : Bien(TrabajoNuevo, s)
<1>1. TrabajoNuevo = Trab(0, TRUE, Nada, <<>>, <<>>, Nada, Nada)
  BY DEF TrabajoNuevo, Trab
<1>2. <<>> \in Parciales(Nat, [de : Claves, uso : Nat]) /\ <<>> \in Parciales(Nat, Int)
  BY VaciaIs
<1>3. TrabajoNuevo \in Trabajos
  BY <1>1, <1>2 DEF Trabajos, Trab
<1>4. /\ TrabajoNuevo.fase = 0 /\ TrabajoNuevo.pre = Nada /\ TrabajoNuevo.de = Nada
      /\ TrabajoNuevo.cache = <<>> /\ TrabajoNuevo.dur = <<>>
  BY DEF TrabajoNuevo
<1>5. \A s : Bien(TrabajoNuevo, s)
  BY <1>4 DEF Bien
<1>6. QED
  BY <1>3, <1>4, <1>5, SinTrabajoIs

\* What a frame leaves in the street, seen from the one before.
Vista ==
    /\ T' \in Nat
    /\ hecho' /\ Completo(calidad') =>
         /\ pob' \in Claves
         /\ activos' \subseteq {v \in ToSet(SalenCerca(pob', foco', T', DMax)) : EnRuta(pob', T', v)}
         /\ {v \in ToSet(SalenCerca(pob', foco', T', DMax)) : EnRuta(pob', T', v)} \subseteq activos' \cup aplazados'
         /\ aplazados' \subseteq ToSet(SalenCerca(pob', foco', T', DMax))
    /\ ~(hecho' /\ Completo(calidad')) => activos' = {}
    /\ ocupadas' = Pisadas(pob', T', activos')
    /\ trabajo # SinTrabajo /\ trabajo' = SinTrabajo =>
         \E J \in Trabajos :
            /\ Bien(J, firma) /\ J.fase = 9 /\ pob' = ClaveDe(J) /\ J.de = Rastro(trabajo.de, T')
            /\ hecho' /\ Completo(calidad') =>
                 \A v \in DOMAIN J.cache : EnRuta(pob', T', v) => v \notin aplazados'

\* The hour of a frame is an instant.
LEMMA AvanzaRelojIs ==
    ASSUME IInv, NEW dt \in Avances, NEW pared \in Instantes PROVE AvanzaReloj(dt, pared) \in Nat
<1>1. dt \in Nat /\ pared \in Nat /\ T \in Nat /\ (hora # Nada => hora \in Nat)
  BY ClockAssumption DEF IInv, Datos
<1>2. (T + dt) % Dia \in Nat
  BY <1>1 DEF Dia
<1>3. QED
  BY <1>1, <1>2 DEF AvanzaReloj

\* What the steps of a frame make of the build.
LEMMA ObraIs ==
    ASSUME IInv, listo, NEW t \in Nat, NEW pasos \in Nat,
           NEW J, J = IF trabajo = SinTrabajo THEN trabajo ELSE TrabajoPaso(trabajo, pasos, t)
    PROVE  /\ trabajo = SinTrabajo => J = SinTrabajo /\ J.fase # 9
           /\ trabajo # SinTrabajo => /\ J \in Trabajos /\ Bien(J, firma) /\ J # SinTrabajo
                                      /\ J.fase = 9 => J.de = Rastro(trabajo.de, t)
<1>1. CASE trabajo = SinTrabajo
  BY <1>1, SinTrabajoIs
<1>2. CASE trabajo # SinTrabajo
  <2>1. J = TrabajoPaso(trabajo, pasos, t)
    BY <1>2
  <2>2. /\ trabajo \in Trabajos /\ Bien(trabajo, firma) /\ trabajo.fase # 9
        /\ ciudad \in DOMAIN Ciudades /\ foco \in Focos /\ Firma(ciudad) = firma
    BY <1>2 DEF IInv, EnObra, Datos, AlDia
  <2>3. J \in Trabajos /\ Bien(J, firma) /\ (J.fase = 9 => J.de = Rastro(trabajo.de, t))
    BY <2>1, <2>2, TrabajoPasoIs
  <2>4. QED
    BY <1>2, <2>3, SinTrabajoIs
<1>3. QED
  BY <1>1, <1>2

\* A frame over what a population left, or over what a build warmed: the cache
\* is of the population, and the street is that of the timetable.
LEMMA PoblacionEnCalle ==
    ASSUME NEW k \in Claves, NEW cambia \in BOOLEAN, NEW J, NEW nuevos \in Nat, foco \in Focos, NEW t \in Nat,
           cambia => DePob(k, J.cache, J.dur), ~cambia => DePob(k, cache, dur),
           NEW e, e = Arranque(cambia, J, nuevos),
           NEW seVe \in BOOLEAN, NEW f, f = IF seVe THEN Recorre(k, t, e, EnVista(k, t)) ELSE e
    PROVE  /\ DePob(k, IF seVe THEN Poda(f.cache) ELSE f.cache, f.dur)
           /\ seVe => /\ Recorrido(k, t, e, ToSet(SalenCerca(k, foco, t, DMax)), f)
                      /\ cambia => e.cache = J.cache
           /\ ~seVe => f.activos = {}
<1>1. e \in Marcos(k) /\ e.activos = {} /\ e.aplazados = {} /\ (cambia => e.cache = J.cache)
  <2> DEFINE g == Arranque(cambia, J, nuevos)
  <2>1. g \in Marcos(k) /\ g.activos = {} /\ g.aplazados = {} /\ (cambia => g.cache = J.cache)
    BY ArranqueIs
  <2>2. e = g
    OBVIOUS
  <2> HIDE DEF g
  <2>3. QED
    BY <2>1, <2>2
<1>2. ASSUME seVe PROVE Recorrido(k, t, e, ToSet(SalenCerca(k, foco, t, DMax)), f)
  <2> DEFINE vs == SalenCerca(k, foco, t, DMax)
  <2>1. foco \in Int \X Int /\ t \in Int
    BY ClockAssumption
  <2>2. vs \in Seq(Viajes(k))
    BY <2>1, Anchos, SalenCercaIs
  <2>3. f = Recorre(k, t, e, vs)
    BY <1>2 DEF EnVista, SalenCerca
  <2> HIDE DEF vs
  <2>4. Recorrido(k, t, e, ToSet(vs), f)
    BY <1>1, <2>1, <2>2, <2>3, RecorreEs
  <2>5. QED
    BY <2>4 DEF vs
<1>3. f \in Marcos(k)
  <2>1. CASE seVe
    BY <1>2, <2>1 DEF Recorrido
  <2>2. CASE ~seVe
    BY <1>1, <2>2
  <2>3. QED
    BY <2>1, <2>2
<1>4. DePob(k, f.cache, f.dur)
  BY <1>3 DEF Marcos
<1>5. Poda(f.cache) \in Parciales(Viajes(k), Paseo(k)) /\ DOMAIN Poda(f.cache) \subseteq DOMAIN f.cache
  BY <1>4, PodaIs DEF DePob
<1>6. DePob(k, Poda(f.cache), f.dur)
  BY <1>4, <1>5 DEF DePob
<1>7. QED
  BY <1>1, <1>2, <1>4, <1>6

\* A frame keeps the invariant, and leaves in the street what it should.
LEMMA CuadroIs ==
    ASSUME IInv, listo, Cuadro
    PROVE  IInv' /\ Vista
<1>1. PICK dt \in Avances, pared \in Instantes, pasos \in Pasos, nuevos \in Nuevos :
         UnCuadro(AvanzaReloj(dt, pared), pasos, nuevos)
  BY DEF Cuadro
<1>2. UNCHANGED <<calidad, ciudad, listo, hora, foco, firma, cambios>>
  BY DEF Cuadro, visor
<1> DEFINE t == AvanzaReloj(dt, pared)
           J == IF trabajo = SinTrabajo THEN trabajo ELSE TrabajoPaso(trabajo, pasos, t)
           cambia == Acabado(J)
           k == IF cambia THEN ClaveDe(J) ELSE pob
           seVe == (hecho \/ cambia) /\ Completo(calidad)
           e == Arranque(cambia, J, nuevos)
           f == IF seVe THEN Recorre(k, t, e, EnVista(k, t)) ELSE e
<1>3. Pon(k, t, J, cambia, seVe, f)
  BY <1>1 DEF UnCuadro, ConTrabajo
<1>4. t \in Nat /\ pasos \in Nat /\ nuevos \in Nat /\ foco \in Focos
  BY AvanzaRelojIs, ClockAssumption DEF IInv, Datos
<1> HIDE DEF t
<1>5. /\ trabajo = SinTrabajo => J = SinTrabajo /\ J.fase # 9
      /\ trabajo # SinTrabajo => /\ J \in Trabajos /\ Bien(J, firma) /\ J # SinTrabajo
                                 /\ J.fase = 9 => J.de = Rastro(trabajo.de, t)
  BY <1>4, ObraIs
<1> HIDE DEF J
<1>6. /\ cambia \in BOOLEAN /\ (cambia <=> J.fase = 9)
      /\ seVe \in BOOLEAN /\ (seVe <=> (hecho \/ cambia) /\ Completo(calidad))
  BY DEF Acabado
<1>7. cambia => /\ trabajo # SinTrabajo /\ J \in Trabajos /\ Bien(J, firma) /\ J.fase = 9
                /\ J.de = Rastro(trabajo.de, t)
  BY <1>5, <1>6
<1>8. cambia => k = ClaveDe(J) /\ k \in Claves /\ DePob(k, J.cache, J.dur) /\ Firma(k[1]) = firma
  <2>1. SUFFICES ASSUME cambia PROVE ClaveDe(J) \in Claves /\ DePob(ClaveDe(J), J.cache, J.dur)
                                     /\ Firma(ClaveDe(J)[1]) = firma
    OBVIOUS
  <2>2. J \in Trabajos /\ Bien(J, firma) /\ J.fase = 9
    BY <1>7, <2>1
  <2>3. J.pre = <<>> /\ Firma(J.ciudad) = firma
    BY <2>2 DEF Bien
  <2>4. <<>> # Nada
    <3>1. <<>> \in Seq(Nat)
      OBVIOUS
    <3>2. QED
      BY <3>1, NadaAssumption
  <2>5. QED
    BY <2>2, <2>3, <2>4, ListaIs DEF ClaveDe
<1>9. ~cambia => k = pob
  OBVIOUS
<1> HIDE DEF cambia, k, seVe
<1>10. /\ T' = t /\ pob' = k /\ hecho' = (hecho \/ cambia) /\ dur' = f.dur
       /\ trabajo' = IF cambia THEN SinTrabajo ELSE J
       /\ cache' = IF seVe THEN Poda(f.cache) ELSE f.cache
       /\ activos' = f.activos /\ aplazados' = f.aplazados /\ ocupadas' = Pisadas(k, t, f.activos)
  BY <1>3 DEF Pon
<1>11. Datos' /\ hecho' \in BOOLEAN
  BY <1>2, <1>4, <1>6, <1>10 DEF IInv, Datos
<1>12. AlDia'
  BY <1>2, <1>5, <1>6, <1>8, <1>9, <1>10 DEF IInv, AlDia, Datos
<1>13. EnObra'
  BY <1>2, <1>5, <1>6, <1>10 DEF EnObra
<1>14. CASE cambia \/ (pob \in Claves /\ DePob(pob, cache, dur))
  <2>1. k \in Claves /\ (cambia => DePob(k, J.cache, J.dur)) /\ (~cambia => DePob(k, cache, dur))
    BY <1>8, <1>9, <1>14
  <2>2. /\ DePob(k, IF seVe THEN Poda(f.cache) ELSE f.cache, f.dur)
        /\ seVe => /\ Recorrido(k, t, e, ToSet(SalenCerca(k, foco, t, DMax)), f)
                   /\ cambia => e.cache = J.cache
        /\ ~seVe => f.activos = {}
    BY <1>4, <1>6, <2>1, PoblacionEnCalle
  <2> HIDE DEF e, f
  <2>3. Guardado'
    BY <1>10, <2>1, <2>2 DEF Guardado
  <2>4. /\ hecho' /\ Completo(calidad') <=> seVe
        /\ foco' = foco
    BY <1>2, <1>6, <1>10
  <2>5. trabajo # SinTrabajo /\ trabajo' = SinTrabajo => cambia
    BY <1>5, <1>10
  <2>6. Vista
    <3>1. seVe => /\ activos' \subseteq {v \in ToSet(SalenCerca(k, foco, t, DMax)) : EnRuta(k, t, v)}
                  /\ {v \in ToSet(SalenCerca(k, foco, t, DMax)) : EnRuta(k, t, v)} \subseteq activos' \cup aplazados'
                  /\ aplazados' \subseteq ToSet(SalenCerca(k, foco, t, DMax))
                  /\ cambia => \A v \in DOMAIN J.cache : EnRuta(k, t, v) => v \notin aplazados'
      BY <1>10, <2>2 DEF Recorrido
    <3>2. ~seVe => activos' = {}
      BY <1>10, <2>2
    <3>3. trabajo # SinTrabajo /\ trabajo' = SinTrabajo =>
            /\ J \in Trabajos /\ Bien(J, firma) /\ J.fase = 9 /\ k = ClaveDe(J) /\ J.de = Rastro(trabajo.de, t)
            /\ seVe => \A v \in DOMAIN J.cache : EnRuta(k, t, v) => v \notin aplazados'
      BY <1>7, <1>8, <2>5, <3>1
    <3>4. QED
      BY <1>4, <1>10, <2>1, <2>4, <3>1, <3>2, <3>3 DEF Vista
  <2>7. QED
    BY <1>11, <1>12, <1>13, <2>3, <2>6 DEF IInv
<1>15. CASE ~cambia /\ ~hecho /\ DOMAIN cache = {} /\ DOMAIN dur = {}
  <2>1. ~seVe
    BY <1>6, <1>15
  <2>2. f = e /\ e.cache = Envejece(cache) /\ e.dur = dur /\ e.activos = {} /\ e.aplazados = {}
    BY <1>15, <2>1 DEF Arranque
  <2> HIDE DEF f, e
  <2>3. DOMAIN cache' = {} /\ DOMAIN dur' = {} /\ ~hecho'
    BY <1>10, <1>15, <2>1, <2>2 DEF Envejece
  <2>4. Guardado'
    BY <2>3 DEF Guardado
  <2>5. ~ (trabajo # SinTrabajo /\ trabajo' = SinTrabajo)
    BY <1>5, <1>10, <1>15
  <2>6. Vista
    BY <1>4, <1>10, <2>2, <2>3, <2>5 DEF Vista
  <2>7. QED
    BY <1>11, <1>12, <1>13, <2>4, <2>6 DEF IInv
<1>16. QED
  BY <1>14, <1>15 DEF IInv, Guardado

\* At first there is no population and nothing kept.
LEMMA InitIs == Init => IInv
<1>1. SUFFICES ASSUME Init PROVE IInv
  OBVIOUS
<1>2. foco \in Focos
  BY <1>1, ClockAssumption DEF Init
<1>3. Datos
  BY <1>1, <1>2 DEF Init, Datos
<1>4. Guardado
  BY <1>1, VaciaIs DEF Init, Guardado
<1>5. QED
  BY <1>1, <1>3, <1>4 DEF Init, IInv, AlDia, EnObra

\* The whole build at once leaves a population with nothing kept.
LEMMA ConstruyeIs ==
    ASSUME NEW q, NEW c \in DOMAIN Ciudades, Construye(q, c)
    PROVE  pob' \in Claves /\ pob'[1] = c /\ DePob(pob', cache', dur') /\ trabajo' = SinTrabajo /\ hecho'
<1>1. /\ pob' = <<c, Catastro(Completo(q))>> /\ hecho' /\ cache' = <<>> /\ dur' = <<>> /\ trabajo' = SinTrabajo
  BY DEF Construye
<1>2. pob' \in Claves /\ pob'[1] = c
  BY <1>1 DEF Claves, Catastro
<1>3. DePob(pob', <<>>, <<>>)
  BY VaciaIs DEF DePob
<1>4. QED
  BY <1>1, <1>2, <1>3

\* The invariant is inductive.
LEMMA NextIs == IInv /\ [Next]_vars => IInv'
<1>1. SUFFICES ASSUME IInv, [Next]_vars PROVE IInv'
  OBVIOUS
<1>2. CASE listo /\ Cuadro
  BY <1>1, <1>2, CuadroIs
<1>3. CASE Listo
  <2>1. /\ ~listo /\ listo' = TRUE /\ firma' = Firma(ciudad)
        /\ UNCHANGED <<calidad, ciudad, hora, foco, T>>
    BY <1>3 DEF Listo, calle
  <2>2. ciudad \in DOMAIN Ciudades /\ ~hecho /\ trabajo = SinTrabajo
    BY <1>1, <2>1 DEF IInv, Datos, AlDia
  <2>3. CASE Construye(calidad, ciudad)
    <3>1. pob' \in Claves /\ pob'[1] = ciudad /\ DePob(pob', cache', dur') /\ trabajo' = SinTrabajo /\ hecho'
      BY <2>2, <2>3, ConstruyeIs
    <3>2. hecho' \in BOOLEAN
      BY <2>3 DEF Construye
    <3>3. Datos'
      BY <1>1, <2>1, <3>2 DEF IInv, Datos
    <3>4. QED
      BY <2>1, <3>1, <3>3 DEF IInv, Guardado, AlDia, EnObra
  <2>4. CASE UNCHANGED <<hecho, pob, trabajo, cache, dur>>
    <3>1. Datos'
      BY <1>1, <2>1, <2>4 DEF IInv, Datos
    <3>2. Guardado'
      BY <1>1, <2>4 DEF IInv, Guardado
    <3>3. QED
      BY <2>1, <2>2, <2>4, <3>1, <3>2 DEF IInv, AlDia, EnObra
  <2>5. QED
    BY <1>3, <2>3, <2>4 DEF Listo
<1>4. ASSUME NEW c \in DOMAIN Ciudades, SetCity(c) PROVE IInv'
  <2>1. ciudad' = c /\ UNCHANGED <<listo, hora, foco, pob, cache, dur, T>>
    BY <1>4 DEF SetCity, calle
  <2>2. CASE UNCHANGED <<firma, hecho, trabajo>> /\ (~listo \/ Firma(c) = firma)
    <3>1. Datos' /\ Guardado' /\ EnObra'
      BY <1>1, <1>4, <2>1, <2>2 DEF IInv, Datos, Guardado, EnObra
    <3>2. AlDia'
      BY <1>1, <2>1, <2>2 DEF IInv, AlDia
    <3>3. QED
      BY <3>1, <3>2 DEF IInv
  <2>3. CASE listo /\ firma' = Firma(c) /\ Olvida
    <3>1. hecho' = (hecho /\ Completo(calidad)) /\ trabajo' = IF Completo(calidad) THEN TrabajoNuevo ELSE SinTrabajo
      BY <2>3 DEF Olvida
    <3>2. Datos'
      BY <1>1, <1>4, <2>1, <3>1 DEF IInv, Datos
    <3>3. Guardado'
      BY <1>1, <2>1, <3>1 DEF IInv, Guardado, Datos
    <3>4. AlDia' /\ EnObra'
      BY <2>1, <2>3, <3>1, TrabajoNuevoIs DEF AlDia, EnObra
    <3>5. QED
      BY <3>2, <3>3, <3>4 DEF IInv
  <2>4. QED
    BY <1>1, <1>4, <2>2, <2>3 DEF SetCity, IInv, Datos
<1>5. ASSUME NEW q \in {"baja", "media"}, SetQuality(q) PROVE IInv'
  <2>1. UNCHANGED <<ciudad, listo, hora, foco, firma, T>>
    BY <1>5 DEF SetQuality, calle
  <2>2. CASE listo /\ Construye(q, ciudad)
    <3>1. pob' \in Claves /\ pob'[1] = ciudad /\ DePob(pob', cache', dur') /\ trabajo' = SinTrabajo /\ hecho'
      BY <1>1, <2>2, ConstruyeIs DEF IInv, Datos
    <3>2. hecho' \in BOOLEAN
      BY <2>2 DEF Construye
    <3>3. Datos'
      BY <1>1, <2>1, <3>2 DEF IInv, Datos
    <3>4. firma = Firma(ciudad)
      BY <1>1, <2>2 DEF IInv, AlDia
    <3>5. QED
      BY <2>1, <2>2, <3>1, <3>3, <3>4 DEF IInv, Guardado, AlDia, EnObra
  <2>3. CASE UNCHANGED <<hecho, pob, trabajo, cache, dur>>
    BY <1>1, <2>1, <2>3 DEF IInv, Datos, Guardado, AlDia, EnObra
  <2>4. QED
    BY <1>5, <2>2, <2>3 DEF SetQuality
<1>6. ASSUME NEW h \in Horas \cup {Nada}, SetTimeOfDay(h) PROVE IInv'
  BY <1>1, <1>6 DEF SetTimeOfDay, vida, calle, IInv, Datos, Guardado, AlDia, EnObra
<1>7. ASSUME NEW f \in Focos, Mueve(f) PROVE IInv'
  BY <1>1, <1>7 DEF Mueve, vida, calle, IInv, Datos, Guardado, AlDia, EnObra
<1>8. CASE UNCHANGED vars
  BY <1>1, <1>8 DEF vars, visor, vida, calle, IInv, Datos, Guardado, AlDia, EnObra
<1>9. QED
  BY <1>1, <1>2, <1>3, <1>4, <1>5, <1>6, <1>7, <1>8 DEF Next

\* The invariant holds throughout.
LEMMA Inductive == Spec => []IInv
BY InitIs, NextIs, PTL DEF Spec

(***************************************************************************)
(* The properties.                                                         *)
(***************************************************************************)
(* Every walk kept and every duration known are those of the population in *)
(* the street, whatever numbers two populations share (trabajoPaso,        *)
(* trabajoFin, rutaDe).                                                    *)
THEOREM WalksCorrect == Spec => []WalksAreOfThePopulation
<1>1. IInv => WalksAreOfThePopulation
  <2>1. SUFFICES ASSUME Guardado PROVE WalksAreOfThePopulation
    BY DEF IInv
  <2>2. CASE DOMAIN cache = {} /\ DOMAIN dur = {}
    BY <2>2 DEF WalksAreOfThePopulation
  <2>3. CASE pob \in Claves /\ DePob(pob, cache, dur)
    <3>1. /\ DOMAIN cache \subseteq Viajes(pob) /\ cache \in [DOMAIN cache -> Paseo(pob)]
          /\ \A v \in DOMAIN dur : dur[v] = Duracion(pob, v)
      BY <2>3, ParcialesIs DEF DePob
    <3>2. \A v \in DOMAIN cache : v \in DOMAIN PobDe(pob).viajes /\ cache[v].de = pob
      BY <3>1 DEF Viajes, Paseo
    <3>3. QED
      BY <3>1, <3>2 DEF WalksAreOfThePopulation, Duracion
  <2>4. QED
    BY <2>1, <2>2, <2>3 DEF Guardado
<1>2. QED
  BY <1>1, Inductive, PTL

(* With no build under way the population is that of the parcels: a city   *)
(* that came meanwhile, or in low quality, is not forgotten (the hooks     *)
(* listo, ciudad and calidad).                                             *)
THEOREM PopulationCorrect == Spec => []PopulationIsOfTheCity
<1>1. IInv => PopulationIsOfTheCity
  BY DEF IInv, AlDia, PopulationIsOfTheCity
<1>2. QED
  BY <1>1, Inductive, PTL

\* Only a frame changes what is in the street.
LEMMA SoloUnCuadro ==
    ASSUME IInv, [Next]_vars, UnCuadroMas
    PROVE  listo /\ Cuadro /\ IInv' /\ Vista
<1>1. ~UNCHANGED calle
  BY DEF UnCuadroMas, calle
<1>2. listo /\ Cuadro
  BY <1>1 DEF Next, vars, Listo, SetCity, SetQuality, SetTimeOfDay, Mueve
<1>3. QED
  BY <1>2, CuadroIs

(* The street is a function of the time: after every frame it is what the  *)
(* timetable says, less those put off (enVentana, transcurrido, cuadro).   *)
THEOREM StreetCorrect == Spec => StreetIsAFunctionOfTime
<1>1. IInv /\ [Next]_vars =>
        [UnCuadroMas /\ hecho' /\ Completo(calidad') =>
           LET debe == EnLaCalle(pob', T', foco') IN activos' \subseteq debe /\ debe \subseteq activos' \cup aplazados']_vars
  <2>1. SUFFICES ASSUME IInv, [Next]_vars, UnCuadroMas, hecho', Completo(calidad')
                 PROVE  /\ activos' \subseteq EnLaCalle(pob', T', foco')
                        /\ EnLaCalle(pob', T', foco') \subseteq activos' \cup aplazados'
    OBVIOUS
  <2>2. IInv' /\ Vista
    BY <2>1, SoloUnCuadro
  <2>3. pob' \in Claves /\ T' \in Int /\ foco' \in Int \X Int
    BY <2>1, <2>2, ClockAssumption DEF Vista, IInv, Datos
  <2>4. EnLaCalle(pob', T', foco') = {v \in ToSet(SalenCerca(pob', foco', T', DMax)) : EnRuta(pob', T', v)}
    BY <2>3, EnLaCalleIs
  <2>5. QED
    BY <2>1, <2>2, <2>4 DEF Vista
<1>2. QED
  BY <1>1, Inductive, PTL DEF Spec, StreetIsAFunctionOfTime

(* Nobody is on a crossing that the cars see free, and with nobody in the  *)
(* street every crossing is free (cebraOcupada and marcadas in cuadro).    *)
THEOREM CrossingsCorrect == Spec => MarkedCrossingsAreWalked
<1>1. IInv /\ [Next]_vars =>
        [UnCuadroMas =>
           /\ \A v \in activos' : \A i \in DOMAIN PobDe(pob').viajes[v].ruta.ocupa :
                LET o == PobDe(pob').viajes[v].ruta.ocupa[i]
                    el == (T' - PobDe(pob').viajes[v].t0) % Dia
                IN o[2] <= el /\ el <= o[3] => o[1] \in ocupadas'
           /\ activos' = {} => ocupadas' = {}]_vars
  <2>1. SUFFICES ASSUME IInv, [Next]_vars, UnCuadroMas
                 PROVE  /\ \A v \in activos' : \A i \in DOMAIN PobDe(pob').viajes[v].ruta.ocupa :
                             LET o == PobDe(pob').viajes[v].ruta.ocupa[i]
                                 el == (T' - PobDe(pob').viajes[v].t0) % Dia
                             IN o[2] <= el /\ el <= o[3] => o[1] \in ocupadas'
                        /\ activos' = {} => ocupadas' = {}
    OBVIOUS
  <2>2. Vista /\ ocupadas' = Pisadas(pob', T', activos')
    BY <2>1, SoloUnCuadro DEF Vista
  <2>3. activos' = {} => ocupadas' = {}
    BY <2>2 DEF Pisadas
  <2>4. ASSUME NEW v \in activos', NEW i \in DOMAIN PobDe(pob').viajes[v].ruta.ocupa
        PROVE  LET o == PobDe(pob').viajes[v].ruta.ocupa[i]
                   el == (T' - PobDe(pob').viajes[v].t0) % Dia
               IN o[2] <= el /\ el <= o[3] => o[1] \in ocupadas'
    <3> DEFINE R == PobDe(pob').viajes[v].ruta
               o == R.ocupa[i]
               el == Pasa(pob', T', v)
    <3>1. pob' \in Claves /\ T' \in Int /\ v \in Viajes(pob') /\ R # Nada
      <4>1. hecho' /\ Completo(calidad')
        BY <2>2, <2>4 DEF Vista
      <4>2. pob' \in Claves /\ T' \in Int /\ v \in ToSet(SalenCerca(pob', foco', T', DMax)) /\ EnRuta(pob', T', v)
        BY <2>2, <2>4, <4>1 DEF Vista
      <4>3. foco' \in Int \X Int
        BY <2>1, SoloUnCuadro, ClockAssumption DEF IInv, Datos
      <4> DEFINE s == SalenCerca(pob', foco', T', DMax)
      <4>4. s \in Seq(Viajes(pob'))
        BY <4>2, <4>3, Anchos, SalenCercaIs
      <4> HIDE DEF s
      <4>5. \A j \in DOMAIN s : s[j] \in Viajes(pob')
        BY <4>4
      <4>6. v \in Viajes(pob')
        BY <4>2, <4>5 DEF s, ToSet
      <4>7. QED
        BY <4>2, <4>6 DEF EnRuta
    <3>2. el \in Int
      BY <3>1, ViajeIs
    <3>3. o[2] \in Int /\ o[3] \in Int
      <4> DEFINE P == PobDe(pob')
      <4>1. BienHecha(P) /\ v \in DOMAIN P.viajes /\ P.viajes[v].ruta # Nada
        BY <3>1, Buena DEF Viajes
      <4>2. i \in DOMAIN P.viajes[v].ruta.ocupa
        BY <2>4
      <4> HIDE DEF P
      <4>3. P.viajes[v].ruta.ocupa[i][2] \in Int /\ P.viajes[v].ruta.ocupa[i][3] \in Int
        BY <4>1, <4>2 DEF BienHecha
      <4>4. QED
        BY <4>3 DEF P
    <3>4. i \in DOMAIN R.ocupa
      BY <2>4
    <3> DEFINE P(w) == PobDe(pob').viajes[w].ruta.ocupa
               X(w) == (T' - PobDe(pob').viajes[w].t0) % Dia
               S(w) == {P(w)[j][1] : j \in {j \in DOMAIN P(w) : SeAnuncia(P(w)[j], X(w))}}
    <3>5. S(v) \subseteq ocupadas'
      <4>1. ocupadas' = UNION {S(w) : w \in activos'}
        BY <2>2 DEF Pisadas
      <4> HIDE DEF S
      <4>2. QED
        BY <2>4, <4>1
    <3>6. SeAnuncia(o, el) => o[1] \in ocupadas'
      <4>1. o = P(v)[i] /\ el = X(v) /\ i \in DOMAIN P(v)
        BY <3>4 DEF Pasa
      <4> HIDE DEF o, el, P, X
      <4>2. SeAnuncia(o, el) => o[1] \in S(v)
        BY <4>1
      <4> HIDE DEF S
      <4>3. QED
        BY <3>5, <4>2
    <3> HIDE DEF o, el
    <3>7. o[2] <= el /\ el <= o[3] => SeAnuncia(o, el)
      BY <3>2, <3>3, ClockAssumption DEF SeAnuncia
    <3>8. QED
      BY <3>6, <3>7 DEF o, el, Pasa
  <2>5. QED
    BY <2>3, <2>4
<1>2. QED
  BY <1>1, Inductive, PTL DEF Spec, MarkedCrossingsAreWalked

(* In the frame where a new population comes out nobody who walks for      *)
(* longer than what is warmed ahead is put off, if the clock has done no   *)
(* more than go forward that much since the warming began, and the place   *)
(* is the same (fases, its phase 8; aCalentar).                            *)
THEOREM WarmCorrect == Spec => NewPopulationComesOutWarm
<1>1. IInv /\ [Next]_vars =>
        [Relevo /\ Caliente =>
           \A v \in aplazados' : \/ v \notin EnLaCalle(pob', T', foco')
                                \/ PobDe(pob').viajes[v].ruta.dur <= CalientaAntes]_vars
  <2>1. SUFFICES ASSUME IInv, [Next]_vars, Relevo, Caliente, NEW v \in aplazados',
                        v \in EnLaCalle(pob', T', foco'), ~ (PobDe(pob').viajes[v].ruta.dur <= CalientaAntes)
                 PROVE  FALSE
    OBVIOUS
  <2>2. Cuadro /\ IInv' /\ Vista
    BY <2>1, SoloUnCuadro DEF Relevo
  <2>3. PICK J \in Trabajos :
          /\ Bien(J, firma) /\ J.fase = 9 /\ pob' = ClaveDe(J) /\ J.de = Rastro(trabajo.de, T')
          /\ \A w \in DOMAIN J.cache : EnRuta(pob', T', w) => w \notin aplazados'
    BY <2>1, <2>2 DEF Relevo, Vista
  <2>4. pob' \in Claves /\ T' \in Nat /\ foco' = foco /\ foco \in Focos /\ foco \in Int \X Int /\ T' \in Int
    <3>1. foco' = foco
      BY <2>2 DEF Cuadro, visor
    <3>2. foco \in Focos
      BY <2>1 DEF IInv, Datos
    <3>3. QED
      BY <2>1, <2>2, <3>1, <3>2, ClockAssumption DEF Relevo, Vista
  <2>5. trabajo \in Trabajos /\ trabajo.de \in Instante \cup {Nada}
    BY <2>1 DEF Relevo, IInv, EnObra, Trabajos
  <2>6. /\ J.de \in Instante
        /\ J.de[3] <= CalientaAntes => J.de[3] = (T' - J.de[1]) % Dia
    BY <2>3, <2>4, <2>5, RastroIs
  <2>7. J.de[2] = foco /\ J.de[3] <= CalientaAntes
    <3>1. CASE trabajo.de = Nada
      BY <2>3, <3>1, Anchos DEF Rastro
    <3>2. CASE trabajo.de # Nada
      <4>1. J.de = Sigue(trabajo.de, T') /\ trabajo.de \in Instante
        BY <2>3, <2>5, <3>2 DEF Rastro
      <4>2. trabajo.de[2] = foco /\ Sigue(trabajo.de, T')[3] <= CalientaAntes
        BY <2>1, <2>4, <3>2 DEF Caliente
      <4>3. J.de[2] = trabajo.de[2]
        BY <2>4, <4>1, SigueIs
      <4>4. QED
        BY <4>1, <4>2, <4>3
    <3>3. QED
      BY <3>1, <3>2
  <2>8. Caldeada(pob', J.cache, J.dur, <<>>, J.de)
    <3>1. J.pre = <<>>
      BY <2>3 DEF Bien
    <3>2. <<>> # Nada
      <4>1. <<>> \in Seq(Nat)
        OBVIOUS
      <4>2. QED
        BY <4>1, NadaAssumption
    <3>3. QED
      BY <2>3, <3>1, <3>2, ListaIs
  <2>9. v \in ToSet(SalenCerca(pob', foco, T', DMax)) /\ EnRuta(pob', T', v)
    <3>1. EnLaCalle(pob', T', foco) = {w \in ToSet(SalenCerca(pob', foco, T', DMax)) : EnRuta(pob', T', w)}
      BY <2>4, EnLaCalleIs
    <3>2. QED
      BY <2>1, <2>4, <3>1
  <2>10. ~Corto(pob', v)
    BY <2>1, <2>9 DEF Corto, Duracion, EnRuta
  <2>11. v \in DOMAIN J.cache
    <3> DEFINE k == pob'
               t == T'
    <3>1. /\ k \in Claves /\ t \in Nat /\ J.de \in Instante
          /\ J.de[3] = (t - J.de[1]) % Dia /\ J.de[3] <= CalientaAntes
          /\ Caldeada(k, J.cache, J.dur, <<>>, J.de)
          /\ v \in ToSet(SalenCerca(k, J.de[2], t, DMax)) /\ EnRuta(k, t, v) /\ ~Corto(k, v)
      BY <2>4, <2>6, <2>7, <2>8, <2>9, <2>10
    <3> HIDE DEF k, t
    <3>2. QED
      BY <3>1, CalienteIs
  <2>12. QED
    BY <2>1, <2>3, <2>9, <2>11
<1>2. QED
  BY <1>1, Inductive, PTL DEF Spec, NewPopulationComesOutWarm
=============================================================================
