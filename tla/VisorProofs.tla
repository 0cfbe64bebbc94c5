------------------------------ MODULE VisorProofs ------------------------------
(***************************************************************************)
(* What the calls and the frames of Visor keep, proved for every city,     *)
(* plan, calendar, script and order of calls.                              *)
(***************************************************************************)
EXTENDS Visor, NatSetInduction, FiniteSetTheorems, FunctionTheorems

(***************************************************************************)
(* What each operator of the core leaves alone.  In what follows S is a    *)
(* state of the core, M and X states of the modules and E the three of them. *)
(***************************************************************************)
\* b is a, but for the fields of F.
Solo(a, b, F) == DOMAIN b = DOMAIN a /\ \A n \in DOMAIN a \ F : b[n] = a[n]

\* The fields of the view, of the pose, of what is drawn over the city, and of the register.
DeVista == {"cur", "goal", "flight", "pos", "yaw", "fly"}
DePose == DeVista \cup {"mode"}
DeMarcas == {"visibles", "selLabel", "saleLabels", "ownerLabels", "avatarLabels", "avatars", "avatarOrder", "ghosts", "fantasmas",
             "sel", "hover", "grid", "rig", "parcelAt", "cellState", "saleRings", "aplicada"}
DeSolidos == {"oculto", "barrios", "catastro", "parcelas"}

LEMMA SoloTrans ==
    ASSUME NEW a, NEW b, NEW c, NEW F, NEW G, Solo(a, b, F), Solo(b, c, G)
    PROVE  Solo(a, c, F \cup G)
BY DEF Solo

LEMMA SoloMas ==
    ASSUME NEW a, NEW b, NEW F, NEW G, Solo(a, b, F), F \subseteq G
    PROVE  Solo(a, b, G)
BY DEF Solo

LEMMA SoloNada ==
    ASSUME NEW a, NEW F
    PROVE  Solo(a, a, F)
BY DEF Solo

\* Every way of moving the visitor or the view leaves all the rest, and but for
\* the change of mode the mode too.
LEMMA SoloPose ==
    ASSUME NEW S, "mode" \in DOMAIN S
    PROVE  /\ \A m : Solo(S, PonModo(S, m), DePose) /\ PonModo(S, m).mode = (IF m = "walk" THEN "walk" ELSE "orbit")
           /\ \A p : Solo(S, PoseAPie(S, p), DeVista)
           /\ \A v : Solo(S, Fly(S, v), DeVista)
           /\ \A c : Solo(S, FlyTo(S, c), DeVista)
           /\ \A l : Solo(S, FlyToLandmark(S, l), DeVista)
           /\ \A v : Solo(S, PonVista(S, v), DeVista)
           /\ \A v \in {"ciudad", "centro", "cerca", "a_pie"} : Solo(S, PonBench(S, v), DeVista)
           /\ \A g : Solo(S, BenchDevuelve(S, g), DeVista)
           /\ \A g : Solo(S, DevuelvePose(S, g), DeVista)
           /\ Solo(S, CancelFlight(S), DeVista)
           /\ Solo(S, AlturaLibre(S), DeVista)
           /\ \A M, e : Solo(S, Vuela(M, S, e), DeVista)
           /\ \A X : Solo(S, Travelling(X, S), DeVista)
<1>1. \A m : Solo(S, PonModo(S, m), DePose) /\ PonModo(S, m).mode = (IF m = "walk" THEN "walk" ELSE "orbit")
  BY DEF Solo, DePose, DeVista, PonModo, ModoWalk, ModoOrbit
<1>2. \A p : Solo(S, PoseAPie(S, p), DeVista)
  BY DEF Solo, DeVista, PoseAPie
<1>3. \A v : Solo(S, Fly(S, v), DeVista)
  BY DEF Solo, DeVista, Fly
<1>4. \A c : Solo(S, FlyTo(S, c), DeVista)
  BY DEF Solo, DeVista, Fly, FlyTo
<1>5. \A l : Solo(S, FlyToLandmark(S, l), DeVista)
  BY DEF Solo, DeVista, Fly, FlyToLandmark
<1>6. \A v : Solo(S, PonVista(S, v), DeVista)
  BY DEF Solo, DeVista, PonVista
<1>7. \A v \in {"ciudad", "centro", "cerca", "a_pie"} : Solo(S, PonBench(S, v), DeVista)
  BY DEF Solo, DeVista, PonVista, PonBench
<1>8. \A g : Solo(S, BenchDevuelve(S, g), DeVista)
  BY DEF Solo, DeVista, PonVista, BenchDevuelve
<1>9. \A g : Solo(S, DevuelvePose(S, g), DeVista)
  BY DEF Solo, DeVista, DevuelvePose
<1>10. Solo(S, CancelFlight(S), DeVista)
  BY DEF Solo, DeVista, CancelFlight
<1>11. Solo(S, AlturaLibre(S), DeVista)
  BY DEF Solo, DeVista, AlturaLibre
<1>12. \A M, e : Solo(S, Vuela(M, S, e), DeVista)
  BY <1>3, <1>4 DEF Vuela
<1>13. \A X : Solo(S, Travelling(X, S), DeVista)
  BY DEF Solo, DeVista, Travelling
<1>14. QED
  BY <1>1, <1>2, <1>3, <1>4, <1>5, <1>6, <1>7, <1>8, <1>9, <1>10, <1>11, <1>12, <1>13

\* So does a frame of the camera.
LEMMA SoloCamara ==
    ASSUME NEW S, NEW llega, NEW mov
    PROVE  Solo(S, UpdateCamera(S, llega, mov), DeVista)
<1>1. \A T : Solo(T, ColocaCamaraAPie(T), DeVista)
  BY DEF Solo, DeVista, ColocaCamaraAPie
<1>2. Solo(S, Camina(S, mov), DeVista)
  BY DEF Solo, DeVista, Camina
<1>3. Solo(S, UpdateOrbit(S, llega), DeVista)
  BY DEF Solo, DeVista, UpdateOrbit
<1>4. Solo(S, ColocaCamaraAPie(Camina(S, mov)), DeVista)
  <2>1. Solo(S, ColocaCamaraAPie(Camina(S, mov)), DeVista \cup DeVista)
    BY <1>1, <1>2, SoloTrans
  <2>2. QED
    BY <2>1
<1>5. QED
  BY <1>3, <1>4 DEF UpdateCamera

\* The selection, the pointer, the people and the ghosts change what is drawn
\* over the city.
LEMMA SoloMarcas ==
    ASSUME NEW S
    PROVE  /\ Solo(S, RefreshSelection(S), DeMarcas)
           /\ Solo(S, RebuildAvatarLabels(S), DeMarcas)
           /\ \A l : Solo(S, SetPresence(S, l), DeMarcas)
           /\ \A l : Solo(S, SetGhosts(S, l), DeMarcas)
           /\ \A c, u : Solo(S, DoSelect(S, c, u), DeMarcas)
           /\ \A c : Solo(S, SetHover(S, c), DeMarcas)
           /\ \A X : Solo(S, MuestraMarcas(X, S), DeMarcas)
           /\ \A p, g : Solo(S, XrInput(S, p, g), DeMarcas)
<1>1. \A T : Solo(T, RefreshSelection(T), DeMarcas)
  BY DEF Solo, DeMarcas, RefreshSelection
<1>2. \A T : Solo(T, RebuildAvatarLabels(T), DeMarcas)
  BY DEF Solo, DeMarcas, RebuildAvatarLabels
<1>3. \A l : Solo(S, SetPresence(S, l), DeMarcas)
  <2>1. TAKE l
  <2>2. PICK p, o : \/ SetPresence(S, l) = [S EXCEPT !.avatars = p, !.avatarOrder = o]
                    \/ SetPresence(S, l) = RebuildAvatarLabels([S EXCEPT !.avatars = p, !.avatarOrder = o])
    BY DEF SetPresence
  <2> DEFINE T == [S EXCEPT !.avatars = p, !.avatarOrder = o]
  <2>3. Solo(S, T, DeMarcas)
    BY DEF Solo, DeMarcas
  <2> HIDE DEF T
  <2>4. Solo(S, RebuildAvatarLabels(T), DeMarcas \cup DeMarcas)
    BY <1>2, <2>3, SoloTrans
  <2>5. QED
    BY <2>2, <2>3, <2>4 DEF T
<1>4. \A l : Solo(S, SetGhosts(S, l), DeMarcas)
  BY DEF Solo, DeMarcas, SetGhosts
<1>5. \A c, u : Solo(S, DoSelect(S, c, u), DeMarcas)
  <2>1. TAKE c, u
  <2>2. PICK T : Solo(S, T, DeMarcas) /\ (DoSelect(S, c, u) = S \/ DoSelect(S, c, u) = RefreshSelection(T))
    <3>1. \A k : Solo(S, [S EXCEPT !.sel = k], DeMarcas) /\ Solo(S, SetParcelGrid([S EXCEPT !.sel = k], TRUE), DeMarcas)
      BY DEF Solo, DeMarcas, SetParcelGrid
    <3>2. QED
      BY <3>1 DEF DoSelect
  <2>3. Solo(S, RefreshSelection(T), DeMarcas \cup DeMarcas)
    BY <1>1, <2>2, SoloTrans
  <2>4. QED
    BY <2>2, <2>3, SoloNada
<1>6. \A c : Solo(S, SetHover(S, c), DeMarcas)
  BY DEF Solo, DeMarcas, SetHover
<1>7. \A X : Solo(S, MuestraMarcas(X, S), DeMarcas)
  BY DEF Solo, DeMarcas, MuestraMarcas
<1>8. \A p, g : Solo(S, XrInput(S, p, g), DeMarcas)
  BY DEF Solo, DeMarcas, XrInput
<1>9. QED
  BY <1>1, <1>2, <1>3, <1>4, <1>5, <1>6, <1>7, <1>8

\* The hour, the loop and the headset.
LEMMA SoloLazo ==
    ASSUME NEW S
    PROVE  /\ \A u : Solo(S, PonLuz(S, u), {"luz"})
           /\ \A b : Solo(S, SetVisible(S, b), {"visible", "raf"})
           /\ \A b : Solo(S, Visibility(S, b), {"docHidden", "raf"})
           /\ Solo(S, EnterVR(S), {"xr", "rig", "raf"})
           /\ Solo(S, RestoreDesktop(S), DePose \cup {"xr", "rig", "raf"})
           /\ \A d : Solo(S, SetCity(S, d), {"city", "pending"})
<1>1. \A u : Solo(S, PonLuz(S, u), {"luz"})
  BY DEF Solo, PonLuz
<1>2. \A b : Solo(S, SetVisible(S, b), {"visible", "raf"})
  BY DEF Solo, SetVisible, SyncLoop
<1>3. \A b : Solo(S, Visibility(S, b), {"docHidden", "raf"})
  BY DEF Solo, Visibility, SyncLoop
<1>4. Solo(S, EnterVR(S), {"xr", "rig", "raf"})
  BY DEF Solo, EnterVR, SyncLoop
<1>5. Solo(S, RestoreDesktop(S), DePose \cup {"xr", "rig", "raf"})
  BY DEF Solo, DePose, DeVista, RestoreDesktop, SyncLoop
<1>6. \A d : Solo(S, SetCity(S, d), {"city", "pending"})
  BY DEF Solo, SetCity
<1>7. QED
  BY <1>1, <1>2, <1>3, <1>4, <1>5, <1>6

\* What puts a city, a quality or the world in the scene.
LEMMA SoloCiudad ==
    ASSUME NEW S
    PROVE  /\ \A v : Solo(S, Levanta(S, v), DeSolidos)
           /\ Solo(S, BuildClusters(S), DeSolidos)
           /\ \A o : Solo(S, Oculta(S, o), DeSolidos)
           /\ \A ps : Solo(S, PonParcelas(S, ps), DeSolidos)
           /\ \A d : Solo(S, ApplyCity(S, d), DeSolidos \cup DeMarcas)
           /\ \A q : Solo(S, SetQuality(S, q), DeSolidos \cup {"quality"})
           /\ Solo(S, Mundo(S), DeSolidos \cup {"edificios", "cur", "goal"})
<1>1. \A T, v : Solo(T, Levanta(T, v), DeSolidos)
  BY DEF Solo, DeSolidos, Levanta
<1>2. \A T : Solo(T, BuildClusters(T), DeSolidos)
  BY <1>1 DEF BuildClusters
<1>3. \A o : Solo(S, Oculta(S, o), DeSolidos)
  <2>1. TAKE o
  <2> DEFINE T == [S EXCEPT !.oculto = o]
  <2>2. Oculta(S, o) = T \/ Oculta(S, o) = BuildClusters(T)
    BY DEF Oculta
  <2>3. Solo(S, T, DeSolidos)
    BY DEF Solo, DeSolidos
  <2> HIDE DEF T
  <2>4. Solo(S, BuildClusters(T), DeSolidos \cup DeSolidos)
    BY <1>2, <2>3, SoloTrans
  <2>5. QED
    BY <2>2, <2>3, <2>4
<1>4. \A T, ps : Solo(T, PonParcelas(T, ps), DeSolidos)
  BY DEF Solo, DeSolidos, PonParcelas
<1>5. \A d : Solo(S, ApplyCity(S, d), DeSolidos \cup DeMarcas)
  <2>1. TAKE d
  <2> DEFINE T == PonParcelas(Oculta(S, Ocultos(S.edificios, d)), ParcelasSolidas(d))
  <2>2. Solo(S, T, DeSolidos \cup DeSolidos)
    BY <1>3, <1>4, SoloTrans
  <2> HIDE DEF T
  <2>3. PICK a, b, c, v, o : ApplyCity(S, d) = RefreshSelection([T EXCEPT !.parcelAt = a, !.cellState = b, !.saleRings = c, !.aplicada = d, !.saleLabels = v, !.ownerLabels = o])
    BY DEF ApplyCity, T
  <2> DEFINE U == [T EXCEPT !.parcelAt = a, !.cellState = b, !.saleRings = c, !.aplicada = d, !.saleLabels = v, !.ownerLabels = o]
  <2>4. Solo(T, U, DeMarcas)
    BY DEF Solo, DeMarcas
  <2> HIDE DEF U
  <2>5. Solo(S, U, (DeSolidos \cup DeSolidos) \cup DeMarcas)
    BY <2>2, <2>4, SoloTrans
  <2>6. Solo(U, RefreshSelection(U), DeMarcas)
    BY SoloMarcas
  <2>7. Solo(S, RefreshSelection(U), ((DeSolidos \cup DeSolidos) \cup DeMarcas) \cup DeMarcas)
    BY <2>5, <2>6, SoloTrans
  <2>8. ((DeSolidos \cup DeSolidos) \cup DeMarcas) \cup DeMarcas = DeSolidos \cup DeMarcas
    OBVIOUS
  <2>9. QED
    BY <2>3, <2>7, <2>8 DEF U
<1>6. \A q : Solo(S, SetQuality(S, q), DeSolidos \cup {"quality"})
  <2>1. TAKE q
  <2> DEFINE T == [S EXCEPT !.quality = q]
  <2>2. SetQuality(S, q) = T \/ SetQuality(S, q) = BuildClusters(T)
    BY DEF SetQuality
  <2>3. Solo(S, T, {"quality"})
    BY DEF Solo
  <2> HIDE DEF T
  <2>4. Solo(S, BuildClusters(T), {"quality"} \cup DeSolidos)
    BY <1>2, <2>3, SoloTrans
  <2>5. {"quality"} \cup DeSolidos = DeSolidos \cup {"quality"}
    OBVIOUS
  <2>6. QED
    BY <2>2, <2>3, <2>4, <2>5, SoloMas
<1>7. Solo(S, Mundo(S), DeSolidos \cup {"edificios", "cur", "goal"})
  <2> DEFINE T == [S EXCEPT !.edificios = PlanificarBarrios, !.catastro = CatastroReconstruye(Hitos), !.cur = SkylineView, !.goal = SkylineView]
  <2>1. Mundo(S) = BuildClusters(T)
    BY DEF Mundo
  <2>2. Solo(S, T, {"catastro"} \cup {"edificios", "cur", "goal"})
    BY DEF Solo
  <2> HIDE DEF T
  <2>3. Solo(S, BuildClusters(T), ({"catastro"} \cup {"edificios", "cur", "goal"}) \cup DeSolidos)
    BY <1>2, <2>2, SoloTrans
  <2>4. ({"catastro"} \cup {"edificios", "cur", "goal"}) \cup DeSolidos = DeSolidos \cup {"edificios", "cur", "goal"}
    BY DEF DeSolidos
  <2>5. QED
    BY <2>1, <2>3, <2>4
<1>8. QED
  BY <1>1, <1>2, <1>3, <1>4, <1>5, <1>6, <1>7

(***************************************************************************)
(* The invariant, part by part.                                            *)
(***************************************************************************)
\* The shape of the three states.
Campos == DOMAIN NucleoNuevo
CamposMem == {"placas", "huecos", "placaT", "lista", "listaSel", "listaVista", "encLabels", "verEncargos", "foco",
              "progreso", "resaltar", "guiaOn", "guiaPintada", "firma", "idioma", "disco"}
CamposExt == {"snd", "foto", "pantalla", "escape", "tormenta", "boton", "disco"}

\* The core: the mode, the loop, which never runs under the headset, the light
\* and the measure.
NucleoOK(S) ==
    /\ S.ready \in BOOLEAN /\ S.xr \in BOOLEAN
    /\ S.mode \in {"walk", "orbit"}
    /\ S.raf => ~S.xr
    /\ S.luz \in Luces
    /\ S.hour \in Horas \cup {Nada}
    /\ S.pendingFlight # Nada => S.pendingFlight.fn \in {"celda", "hito", "skyline", "city"}
    /\ S.bench.activo \in BOOLEAN /\ S.bench.i \in Nat /\ DOMAIN S.bench = {"activo", "i", "fase", "guardado"}
    /\ S.bench.activo => S.bench.guardado.mode \in {"walk", "orbit"}
    /\ S.city \in Ciudades \cup {Nada}
    /\ S.quality \in DOMAIN Fraccion

\* The icon of the sound says what the sound is, and without audio there is none.
SonidoOK(X) ==
    /\ X.snd.activo \in BOOLEAN /\ X.boton = X.snd.activo
    /\ DOMAIN X.snd = {"ac", "activo", "volumen", "callar", "orden", "gesto", "pasoPrev", "paso"}
    /\ {"sonido", "audio"} \subseteq DOMAIN X.disco
    /\ ~X.disco.audio => ~X.snd.activo /\ X.snd.ac = Nada /\ X.snd.orden = Nada

\* What the storm keeps as the light of the sun is light it has not touched,
\* and without a storm the light of now is untouched too.
TormentaOK(S, X) ==
    /\ DOMAIN X.tormenta = {"forzada", "quitadaHasta", "kMano", "k", "base", "aplicada", "arena"}
    /\ X.tormenta.kMano \in 0..10
    /\ X.tormenta.base \in {l \in Luces : l.k = 0} \cup {Nada}
    /\ X.tormenta.aplicada \in BOOLEAN
    /\ X.tormenta.aplicada => X.tormenta.base # Nada
    /\ ~X.tormenta.aplicada => S.luz.k = 0 /\ X.tormenta.arena = FALSE

FotoOK(X) ==
    /\ X.foto.activo \in BOOLEAN /\ DOMAIN X.foto = DOMAIN FotoApagada
    /\ X.foto.activo => X.foto.guardado.mode \in {"walk", "orbit"}

Sesion(E) ==
    /\ DOMAIN E = {"s", "m", "x"} /\ DOMAIN E.s = Campos /\ DOMAIN E.x = CamposExt
    /\ NucleoOK(E.s) /\ SonidoOK(E.x) /\ TormentaOK(E.s, E.x) /\ FotoOK(E.x)

\* The places of the plaques, and, once the map has loaded, what is of the city.
Distritos(sec) == {e.distrito : e \in ToSet(sec)}
HuecosOK(M) ==
    /\ DOMAIN M.huecos = 1..Huecos
    /\ \A i \in 1..Huecos : DOMAIN M.huecos[i] = {"placa", "clave"}
    /\ M.placas \in Seq(ToSet(M.placas))
    /\ \A i \in 1..Huecos : M.huecos[i].clave # Nada => M.huecos[i].placa \in ToSet(M.placas)
DeLaCiudad(M, d) ==
    /\ M.firma = FirmaCiudad(d)
    /\ M.lista = Encargos(d)
    /\ M.placas = Placas(d)
    /\ "items" \in DOMAIN M.encLabels /\ Distritos(M.encLabels.items) = Distritos(M.lista)
MemOK(S, M) ==
    /\ DOMAIN M = CamposMem /\ HuecosOK(M)
    /\ S.ready /\ S.city # Nada => DeLaCiudad(M, S.city)
    /\ ~S.ready \/ S.city = Nada => M.firma = Nada
    /\ ~S.ready => S.pending = S.city

\* What the photo and the measure keep is the pose they were entered with.
PoseGuardada(S, X, a) ==
    /\ X.foto.activo => X.foto.guardado = a.foto
    /\ S.bench.activo => S.bench.guardado = a.medida

LEMMA CamposSon ==
    /\ {"ready", "city", "pending", "quality", "oculto", "edificios", "barrios", "catastro", "parcelas", "bench", "luz", "niebla", "hour",
        "raf", "xr", "visible", "docHidden", "disposed", "visibles", "pendingFlight", "ghosts", "avatars", "rig"} \subseteq Campos
    /\ DePose \subseteq Campos
BY DEF Campos, NucleoNuevo, DePose, DeVista

(***************************************************************************)
(* The sound.                                                              *)
(***************************************************************************)
DeSonido == {"snd", "boton", "disco"}
DeFoto == {"foto", "pantalla", "escape", "boton"}
DeTormenta == {"tormenta", "boton"}

\* A change of the sound keeps what the icon says.
LEMMA CambiaSonido ==
    ASSUME NEW X, DOMAIN X = CamposExt, SonidoOK(X)
    PROVE  /\ Solo(X, PintaBotones(X), {"boton"}) /\ SonidoOK(PintaBotones(X))
           /\ Solo(X, AlternaSonido(X), DeSonido) /\ SonidoOK(AlternaSonido(X))
           /\ X.disco.audio => AlternaSonido(X).boton = ~X.boton /\ AlternaSonido(X).disco.sonido = ~X.boton
           /\ ~X.disco.audio => AlternaSonido(X) = X
           /\ Solo(X, Calla(X), DeSonido) /\ SonidoOK(Calla(X))
           /\ Solo(X, CumpleOrden(X), DeSonido) /\ SonidoOK(CumpleOrden(X))
           /\ Solo(X, Vigia(X), DeSonido) /\ SonidoOK(Vigia(X))
           /\ \A b : Solo(X, VisibilidadSonido(X, b), DeSonido) /\ SonidoOK(VisibilidadSonido(X, b))
           /\ \A S : Solo(X, ActualizaSonido(X, S), DeSonido) /\ SonidoOK(ActualizaSonido(X, S))
<1> USE DEF Solo, DeSonido, CamposExt, SonidoOK
<1>1. Solo(X, PintaBotones(X), {"boton"}) /\ SonidoOK(PintaBotones(X))
  BY DEF PintaBotones
<1>2. /\ Solo(X, AlternaSonido(X), DeSonido) /\ SonidoOK(AlternaSonido(X))
      /\ X.disco.audio => AlternaSonido(X).boton = ~X.boton /\ AlternaSonido(X).disco.sonido = ~X.boton
      /\ ~X.disco.audio => AlternaSonido(X) = X
  <2> DEFINE snd == AplicaVolumen(IF X.snd.activo THEN Apaga(X.snd) ELSE Enciende(X.snd))
  <2>1. DOMAIN snd = DOMAIN X.snd /\ snd.activo = ~X.snd.activo /\ snd.activo \in BOOLEAN
    BY DEF AplicaVolumen, Apaga, Enciende, CreaAudio, Reanuda
  <2>2. AlternaSonido(X) = IF ~X.snd.activo /\ X.snd.ac = Nada /\ ~X.disco.audio THEN X
                           ELSE PintaBotones([X EXCEPT !.snd = snd, !.disco.sonido = snd.activo])
    BY DEF AlternaSonido
  <2>3. ~X.disco.audio => AlternaSonido(X) = X
    BY <2>2
  <2>4. CASE ~X.disco.audio
    BY <2>3, <2>4
  <2>5. CASE X.disco.audio
    <3>1. AlternaSonido(X) = PintaBotones([X EXCEPT !.snd = snd, !.disco.sonido = snd.activo])
      BY <2>2, <2>5
    <3> DEFINE W == [X EXCEPT !.snd = snd, !.disco.sonido = snd.activo]
    <3>2. /\ DOMAIN W = CamposExt /\ W.snd = snd /\ W.disco = [X.disco EXCEPT !.sonido = snd.activo]
          /\ \A c \in CamposExt \ DeSonido : W[c] = X[c]
      OBVIOUS
    <3> HIDE DEF snd
    <3>3. /\ W.disco.sonido = snd.activo /\ W.disco.audio
          /\ {"sonido", "audio"} \subseteq DOMAIN W.disco
      BY <2>5, <3>2
    <3> HIDE DEF W
    <3>4. /\ DOMAIN PintaBotones(W) = CamposExt /\ PintaBotones(W).boton = snd.activo
          /\ \A c \in CamposExt \ {"boton"} : PintaBotones(W)[c] = W[c]
      BY <3>2 DEF PintaBotones
    <3>5. AlternaSonido(X) = PintaBotones(W)
      BY <3>1 DEF W
    <3> DEFINE P == AlternaSonido(X)
    <3>6. DOMAIN P = CamposExt /\ P.snd = snd /\ P.disco = W.disco /\ P.boton = snd.activo
      BY <3>2, <3>4, <3>5
    <3>7. \A c \in CamposExt \ DeSonido : P[c] = X[c]
      BY <3>2, <3>4, <3>5
    <3> HIDE DEF P
    <3>8. P.snd.activo \in BOOLEAN /\ P.boton = P.snd.activo /\ DOMAIN P.snd = DOMAIN X.snd
      BY <2>1, <3>6
    <3>9. P.disco.audio /\ {"sonido", "audio"} \subseteq DOMAIN P.disco /\ P.disco.sonido = snd.activo
      BY <3>3, <3>6
    <3>10. Solo(X, P, DeSonido) /\ SonidoOK(P)
      BY <3>6, <3>7, <3>8, <3>9
    <3>11. P.boton = ~X.boton /\ P.disco.sonido = ~X.boton
      BY <2>1, <3>6, <3>9
    <3>12. QED
      BY <2>5, <3>10, <3>11 DEF P
  <2>6. QED
    BY <2>4, <2>5
<1>3. Solo(X, Calla(X), DeSonido) /\ SonidoOK(Calla(X))
  BY NadaAssumption DEF Calla, Suspende
<1>4. Solo(X, CumpleOrden(X), DeSonido) /\ SonidoOK(CumpleOrden(X))
  BY DEF CumpleOrden
<1>5. Solo(X, Vigia(X), DeSonido) /\ SonidoOK(Vigia(X))
  BY DEF Vigia
<1>6. \A b : Solo(X, VisibilidadSonido(X, b), DeSonido) /\ SonidoOK(VisibilidadSonido(X, b))
  BY DEF VisibilidadSonido, Suspende, Reanuda
<1>7. \A S : Solo(X, ActualizaSonido(X, S), DeSonido) /\ SonidoOK(ActualizaSonido(X, S))
  BY DEF ActualizaSonido, AplicaVolumen
<1>8. QED
  BY <1>1, <1>2, <1>3, <1>4, <1>5, <1>6, <1>7

\* So does the first gesture on the page, and it leaves the button alone when it
\* falls on it.
LEMMA CambiaGesto ==
    ASSUME NEW X, DOMAIN X = CamposExt, SonidoOK(X), NEW b
    PROVE  /\ Solo(X, PrimerGesto(X, b), DeSonido) /\ SonidoOK(PrimerGesto(X, b))
           /\ PrimerGesto(X, "sonido").boton = X.boton /\ PrimerGesto(X, "sonido").disco = X.disco
<1> DEFINE V == [X EXCEPT !.snd.gesto = FALSE]
<1>1. Solo(X, V, DeSonido) /\ SonidoOK(V) /\ V.boton = X.boton /\ V.disco = X.disco
  BY DEF Solo, DeSonido, CamposExt, SonidoOK
<1>2. DOMAIN V = CamposExt
  BY <1>1 DEF Solo
<1>3. PrimerGesto(X, b) = X \/ PrimerGesto(X, b) = V \/ PrimerGesto(X, b) = AlternaSonido(V)
  BY DEF PrimerGesto
<1>4. PrimerGesto(X, "sonido") = X \/ PrimerGesto(X, "sonido") = V
  BY DEF PrimerGesto
<1> HIDE DEF V
<1>5. Solo(V, AlternaSonido(V), DeSonido) /\ SonidoOK(AlternaSonido(V))
  BY <1>1, <1>2, CambiaSonido
<1>6. Solo(X, AlternaSonido(V), DeSonido \cup DeSonido)
  BY <1>1, <1>5, SoloTrans
<1>7. Solo(X, X, DeSonido)
  BY SoloNada
<1>8. QED
  BY <1>1, <1>3, <1>4, <1>5, <1>6, <1>7

\* The photo and the storm do not touch the sound.
LEMMA CambiaFoto ==
    ASSUME NEW X, DOMAIN X = CamposExt, SonidoOK(X), FotoOK(X), NEW S, NEW rotulos
    PROVE  /\ Solo(X, CierraFoto(X), DeFoto) /\ SonidoOK(CierraFoto(X)) /\ FotoOK(CierraFoto(X)) /\ ~CierraFoto(X).foto.activo
           /\ Solo(X, TrasPintar(X), DeFoto) /\ SonidoOK(TrasPintar(X)) /\ FotoOK(TrasPintar(X))
           /\ TrasPintar(X).foto.activo = X.foto.activo /\ TrasPintar(X).foto.guardado = X.foto.guardado
           /\ \A b : LET R == CuadroFoto(X, S, rotulos, b).x
                     IN /\ Solo(X, R, DeFoto) /\ SonidoOK(R) /\ FotoOK(R)
                        /\ R.foto.activo = X.foto.activo /\ R.foto.guardado = X.foto.guardado
<1> USE DEF Solo, DeFoto, CamposExt, SonidoOK, FotoOK, FotoApagada
<1>1. Solo(X, CierraFoto(X), DeFoto) /\ SonidoOK(CierraFoto(X)) /\ FotoOK(CierraFoto(X)) /\ ~CierraFoto(X).foto.activo
  BY DEF CierraFoto, PintaBotones
<1>2. /\ Solo(X, TrasPintar(X), DeFoto) /\ SonidoOK(TrasPintar(X)) /\ FotoOK(TrasPintar(X))
      /\ TrasPintar(X).foto.activo = X.foto.activo /\ TrasPintar(X).foto.guardado = X.foto.guardado
  BY DEF TrasPintar
<1>3. ASSUME NEW b
      PROVE  LET R == CuadroFoto(X, S, rotulos, b).x
             IN /\ Solo(X, R, DeFoto) /\ SonidoOK(R) /\ FotoOK(R)
                /\ R.foto.activo = X.foto.activo /\ R.foto.guardado = X.foto.guardado
  BY DEF CuadroFoto, OcultaEtiquetas
<1>4. QED
  BY <1>1, <1>2, <1>3

(***************************************************************************)
(* The storm.                                                              *)
(***************************************************************************)
\* The least and the greatest of a few numbers.
LEMMA MenorDe ==
    ASSUME NEW a \in Int, NEW b \in Int
    PROVE  /\ Min({a, b}) = IF a <= b THEN a ELSE b
           /\ Max({a, b}) = IF a <= b THEN b ELSE a
<1>1. \E x \in {a, b} : (\A y \in {a, b} : x <= y)
  OBVIOUS
<1>2. \E x \in {a, b} : (\A y \in {a, b} : x >= y)
  OBVIOUS
<1>3. Min({a, b}) \in {a, b} /\ Min({a, b}) <= a /\ Min({a, b}) <= b
  BY <1>1 DEF Min
<1>4. Max({a, b}) \in {a, b} /\ Max({a, b}) >= a /\ Max({a, b}) >= b
  BY <1>2 DEF Max
<1>5. QED
  BY <1>3, <1>4

\* The calendar never asks for more than all of the storm.
LEMMA CalendarioIs ==
    ASSUME NEW u \in 0..MaxT
    PROVE  Calendario(u) \in 0..10
<1> DEFINE soplan == {c \in Tormentas : c.ini <= u /\ u < c.fin}
           k(c) == Min({10, ((u - c.ini) * 10) \div Rampa, ((c.fin - u) * 10) \div Rampa})
<1>1. Calendario(u) = IF soplan = {} THEN 0 ELSE k(CHOOSE c \in soplan : TRUE)
  BY DEF Calendario
<1>2. ASSUME NEW c \in soplan PROVE k(c) \in 0..10
  <2>1. c.ini \in Int /\ c.fin \in Int /\ u \in Int /\ c.ini <= u /\ u < c.fin
    BY VisorAssumption
  <2> DEFINE a == ((u - c.ini) * 10) \div Rampa
             b == ((c.fin - u) * 10) \div Rampa
  <2>2. a \in Int /\ b \in Int /\ a >= 0 /\ b >= 0
    BY <2>1 DEF Rampa
  <2> HIDE DEF a, b
  <2>3. \E x \in {10, a, b} : (\A y \in {10, a, b} : x <= y)
    BY <2>2
  <2>4. Min({10, a, b}) \in {10, a, b} /\ \A y \in {10, a, b} : Min({10, a, b}) <= y
    BY <2>3 DEF Min
  <2>5. Min({10, a, b}) \in 0..10
    BY <2>2, <2>4
  <2>6. QED
    BY <2>5 DEF a, b
<1>3. soplan # {} => (CHOOSE c \in soplan : TRUE) \in soplan
  OBVIOUS
<1> HIDE DEF soplan, k
<1>4. QED
  BY <1>1, <1>2, <1>3

\* The storm b is a, but for the fields of F.
OtraTormenta(a, b, F) == DOMAIN b = DOMAIN a /\ \A n \in DOMAIN a : n \notin F => b[n] = a[n]

\* The button and the panel do not touch the light, and the sun that is
\* computed is kept before the storm takes from it.
LEMMA CambiaTormenta ==
    ASSUME NEW S, NEW X, DOMAIN X = CamposExt, SonidoOK(X), TormentaOK(S, X)
    PROVE  /\ \A u : Solo(X, BotonTormenta(X, u), DeTormenta) /\ SonidoOK(BotonTormenta(X, u)) /\ TormentaOK(S, BotonTormenta(X, u))
           /\ \A v : Solo(X, PonTormenta(X, v), DeTormenta) /\ SonidoOK(PonTormenta(X, v)) /\ TormentaOK(S, PonTormenta(X, v))
           /\ \A T : T.luz \in Luces /\ T.luz.k = 0 =>
                /\ Solo(X, GuardaBaseSol(X, T.luz), DeTormenta) /\ SonidoOK(GuardaBaseSol(X, T.luz))
                /\ TormentaOK(T, GuardaBaseSol(X, T.luz))
<1>1. ASSUME NEW W, Solo(X, W, {"tormenta"}), OtraTormenta(X.tormenta, W.tormenta, {"forzada", "quitadaHasta", "kMano"}),
             W.tormenta.kMano \in 0..10
      PROVE  /\ Solo(X, PintaBotones(W), DeTormenta) /\ SonidoOK(PintaBotones(W)) /\ TormentaOK(S, PintaBotones(W))
  <2>1. DOMAIN W = CamposExt /\ SonidoOK(W) /\ TormentaOK(S, W)
    BY <1>1 DEF Solo, CamposExt, SonidoOK, TormentaOK, OtraTormenta
  <2>2. Solo(W, PintaBotones(W), {"boton"}) /\ SonidoOK(PintaBotones(W))
    BY <2>1, CambiaSonido
  <2>3. TormentaOK(S, PintaBotones(W))
    BY <2>1, <2>2 DEF Solo, CamposExt, TormentaOK
  <2>4. Solo(X, PintaBotones(W), {"tormenta"} \cup {"boton"})
    BY <1>1, <2>2, SoloTrans
  <2>5. {"tormenta"} \cup {"boton"} = DeTormenta
    BY DEF DeTormenta
  <2>6. QED
    BY <2>2, <2>3, <2>4, <2>5
<1>2. ASSUME NEW u
      PROVE  Solo(X, BotonTormenta(X, u), DeTormenta) /\ SonidoOK(BotonTormenta(X, u)) /\ TormentaOK(S, BotonTormenta(X, u))
  <2> DEFINE tor == X.tormenta
             A(f) == [tor EXCEPT !.forzada = f]
             B(q) == [tor EXCEPT !.quitadaHasta = q]
             W(T) == [X EXCEPT !.tormenta = T]
  <2>1. \/ BotonTormenta(X, u) = PintaBotones(W(A(Nada)))
        \/ BotonTormenta(X, u) = PintaBotones(W(A(TRUE)))
        \/ \E q : BotonTormenta(X, u) = PintaBotones(W(B(q)))
    BY DEF BotonTormenta
  <2>2. \A T : Solo(X, W(T), {"tormenta"}) /\ W(T).tormenta = T
    BY DEF Solo, CamposExt
  <2>3. \A f : OtraTormenta(tor, A(f), {"forzada", "quitadaHasta", "kMano"}) /\ A(f).kMano \in 0..10
    BY DEF OtraTormenta, TormentaOK
  <2>4. \A q : OtraTormenta(tor, B(q), {"forzada", "quitadaHasta", "kMano"}) /\ B(q).kMano \in 0..10
    BY DEF OtraTormenta, TormentaOK
  <2> HIDE DEF A, B, W
  <2>5. QED
    BY <1>1, <2>1, <2>2, <2>3, <2>4 DEF tor
<1>5. ASSUME NEW v
      PROVE  Solo(X, PonTormenta(X, v), DeTormenta) /\ SonidoOK(PonTormenta(X, v)) /\ TormentaOK(S, PonTormenta(X, v))
  <2> DEFINE k == IF v = TRUE THEN 10 ELSE 0
             A == [X EXCEPT !.tormenta.forzada = v]
             B == [A EXCEPT !.tormenta.quitadaHasta = 0]
             W == [B EXCEPT !.tormenta.kMano = k]
  <2>1. PonTormenta(X, v) = PintaBotones(W)
    BY DEF PonTormenta
  <2>2. Solo(X, A, {"tormenta"}) /\ OtraTormenta(X.tormenta, A.tormenta, {"forzada", "quitadaHasta", "kMano"})
    BY DEF Solo, CamposExt, OtraTormenta
  <2> HIDE DEF A
  <2>3. Solo(X, B, {"tormenta"}) /\ OtraTormenta(X.tormenta, B.tormenta, {"forzada", "quitadaHasta", "kMano"})
    BY <2>2 DEF Solo, CamposExt, OtraTormenta
  <2> HIDE DEF B
  <2>4. Solo(X, W, {"tormenta"}) /\ OtraTormenta(X.tormenta, W.tormenta, {"forzada", "quitadaHasta", "kMano"}) /\ W.tormenta.kMano = k
    BY <2>3 DEF Solo, CamposExt, OtraTormenta, TormentaOK
  <2>5. k \in 0..10
    OBVIOUS
  <2> HIDE DEF W, k
  <2>6. QED
    BY <1>1, <2>1, <2>4, <2>5
<1>3. ASSUME NEW T, T.luz \in Luces, T.luz.k = 0
      PROVE  /\ Solo(X, GuardaBaseSol(X, T.luz), DeTormenta) /\ SonidoOK(GuardaBaseSol(X, T.luz))
             /\ TormentaOK(T, GuardaBaseSol(X, T.luz))
  <2>1. T.luz # Nada
    BY <1>3, VisorAssumption
  <2>2. QED
    BY <1>3, <2>1 DEF GuardaBaseSol, SonidoOK, TormentaOK, Solo, DeTormenta, CamposExt
<1>4. QED
  BY <1>2, <1>3, <1>5

\* What a frame of the storm leaves: the light attenuated once, by k.
Atenuada(S, X) == S.luz.k = X.tormenta.k /\ S.niebla = (X.tormenta.k > 0) /\ X.tormenta.arena = (X.tormenta.k > 0)

LEMMA CuadroTormentaIs ==
    ASSUME NEW S, NEW X, DOMAIN X = CamposExt, DOMAIN S = Campos, SonidoOK(X), TormentaOK(S, X), S.luz \in Luces, NEW u \in 0..MaxT
    PROVE  LET R == CuadroTormenta(X, S, u)
           IN /\ DOMAIN R = {"s", "x"}
              /\ Solo(X, R.x, {"tormenta"}) /\ Solo(S, R.s, {"luz", "niebla"})
              /\ SonidoOK(R.x) /\ TormentaOK(R.s, R.x) /\ R.s.luz \in Luces
              /\ S.niebla = FALSE => Atenuada(R.s, R.x)
<1> DEFINE tor == X.tormenta
           kMano == Tope(tor.kMano + (IF tor.forzada = TRUE THEN PasoMano ELSE -PasoMano), 0, 10)
           cal == IF u < tor.quitadaHasta THEN 0 ELSE Calendario(u)
           k == IF tor.forzada = FALSE THEN 0 ELSE Max({kMano, cal})
           medida == [X EXCEPT !.tormenta.kMano = kMano, !.tormenta.k = k]
           base == IF tor.base = Nada THEN S.luz ELSE tor.base
           R == CuadroTormenta(X, S, u)
<1>1. R = IF k = 0 THEN (IF tor.aplicada THEN RestauraTormenta(medida, S) ELSE [x |-> medida, s |-> S])
          ELSE [x |-> [medida EXCEPT !.tormenta.base = base, !.tormenta.aplicada = TRUE, !.tormenta.arena = TRUE],
                s |-> [S EXCEPT !.luz = Atenua(base, k), !.niebla = TRUE]]
  BY DEF CuadroTormenta
<1>2. kMano \in 0..10 /\ k \in 0..10
  <2>1. kMano \in 0..10
    BY DEF Tope, PasoMano, TormentaOK
  <2>2. cal \in 0..10
    BY CalendarioIs
  <2> HIDE DEF kMano, cal
  <2>3. Max({kMano, cal}) \in 0..10
    <3>1. kMano \in Int /\ cal \in Int
      BY <2>1, <2>2
    <3>2. Max({kMano, cal}) = IF kMano <= cal THEN cal ELSE kMano
      BY <3>1, MenorDe
    <3>3. QED
      BY <2>1, <2>2, <3>2
  <2>4. QED
    BY <2>1, <2>3
<1>3. /\ "luz" \in DOMAIN S /\ "niebla" \in DOMAIN S
      /\ \A l : [S EXCEPT !.luz = l].luz = l /\ [S EXCEPT !.luz = l, !.niebla = TRUE].luz = l
  BY CamposSon
<1> HIDE DEF kMano, k, cal
<1>4. /\ Solo(X, medida, {"tormenta"}) /\ SonidoOK(medida) /\ TormentaOK(S, medida)
      /\ medida.tormenta.k = k /\ medida.tormenta.base = tor.base /\ medida.tormenta.aplicada = tor.aplicada
      /\ medida.tormenta.arena = tor.arena
  BY <1>2 DEF Solo, CamposExt, SonidoOK, TormentaOK
<1>5. DOMAIN medida = CamposExt
  BY <1>4 DEF Solo
<1> HIDE DEF medida
<1>6. CASE k = 0 /\ ~tor.aplicada
  <2>1. R = [x |-> medida, s |-> S]
    BY <1>1, <1>6
  <2>2. S.luz.k = 0 /\ tor.arena = FALSE
    BY <1>6 DEF TormentaOK
  <2>3. R.x = medida /\ R.s = S /\ DOMAIN R = {"s", "x"}
    BY <2>1
  <2>4. (k > 0) = FALSE
    BY <1>6
  <2>5. S.niebla = FALSE => Atenuada(S, medida)
    BY <1>4, <1>6, <2>2, <2>4, Zenon DEF Atenuada
  <2>6. Solo(S, S, {"luz", "niebla"})
    BY SoloNada
  <2> HIDE DEF R
  <2>7. QED
    BY <1>4, <2>3, <2>5, <2>6 DEF R
<1>7. CASE k = 0 /\ tor.aplicada
  <2> DEFINE Y == [medida EXCEPT !.tormenta.aplicada = FALSE, !.tormenta.arena = FALSE]
             T == [S EXCEPT !.luz = tor.base]
  <2>1. tor.base # Nada /\ tor.base \in Luces /\ tor.base.k = 0
    BY <1>7 DEF TormentaOK
  <2>2. R = [x |-> Y, s |-> T]
    BY <1>1, <1>4, <1>7, <2>1 DEF RestauraTormenta
  <2>3. Solo(S, T, {"luz", "niebla"}) /\ T.luz = tor.base /\ T.niebla = S.niebla
    BY <1>3 DEF Solo
  <2> DEFINE A == [medida EXCEPT !.tormenta.aplicada = FALSE]
             m == medida.tormenta
  <2>8. Solo(X, A, {"tormenta"}) /\ OtraTormenta(m, A.tormenta, {"aplicada"}) /\ A.tormenta.aplicada = FALSE
    BY <1>4, <1>5 DEF Solo, CamposExt, OtraTormenta, TormentaOK
  <2>9. Y = [A EXCEPT !.tormenta.arena = FALSE]
    OBVIOUS
  <2> HIDE DEF A, Y
  <2>10. /\ Solo(X, Y, {"tormenta"}) /\ OtraTormenta(m, Y.tormenta, {"aplicada", "arena"})
         /\ Y.tormenta.aplicada = FALSE /\ Y.tormenta.arena = FALSE
    BY <1>4, <1>5, <2>8, <2>9 DEF Solo, CamposExt, OtraTormenta, TormentaOK
  <2>4. Solo(X, Y, {"tormenta"}) /\ SonidoOK(Y) /\ Y.tormenta.k = k /\ Y.tormenta.arena = FALSE
    BY <1>4, <1>5, <2>10 DEF Solo, CamposExt, SonidoOK, TormentaOK, OtraTormenta
  <2>5. TormentaOK(T, Y)
    BY <1>4, <1>5, <2>1, <2>3, <2>10 DEF CamposExt, TormentaOK, OtraTormenta
  <2> HIDE DEF Y, T
  <2>6. R.x = Y /\ R.s = T /\ DOMAIN R = {"s", "x"}
    BY <2>2
  <2>7. (k > 0) = FALSE
    BY <1>7
  <2>11. S.niebla = FALSE => Atenuada(T, Y)
    BY <1>7, <2>1, <2>3, <2>4, <2>7, Zenon DEF Atenuada
  <2>12. QED
    BY <2>1, <2>3, <2>4, <2>5, <2>6, <2>11
<1>8. CASE k # 0
  <2> DEFINE Y == [medida EXCEPT !.tormenta.base = base, !.tormenta.aplicada = TRUE, !.tormenta.arena = TRUE]
             l == Atenua(base, k)
             T == [S EXCEPT !.luz = l, !.niebla = TRUE]
  <2>1. base \in Luces /\ base.k = 0
    BY <1>2 DEF TormentaOK
  <2>2. R = [x |-> Y, s |-> T]
    BY <1>1, <1>8
  <2>3. l \in Luces /\ l.k = k
    <3>1. Min({10, base.k + k}) = k
      BY <1>2, <2>1, MenorDe
    <3> HIDE DEF base
    <3>2. QED
      BY <1>2, <2>1, <3>1 DEF Atenua, Luces
  <2> HIDE DEF l
  <2>4. Solo(S, T, {"luz", "niebla"}) /\ T.luz = l /\ T.niebla = TRUE
    BY <1>3 DEF Solo
  <2>5. base # Nada
    BY <2>1, VisorAssumption
  <2> HIDE DEF base
  <2> DEFINE A == [medida EXCEPT !.tormenta.base = base]
             B == [A EXCEPT !.tormenta.aplicada = TRUE]
             m == medida.tormenta
  <2>11. Y = [B EXCEPT !.tormenta.arena = TRUE]
    OBVIOUS
  <2>12. Solo(X, A, {"tormenta"}) /\ OtraTormenta(m, A.tormenta, {"base"}) /\ A.tormenta.base = base
    BY <1>4, <1>5 DEF Solo, CamposExt, OtraTormenta, TormentaOK
  <2> HIDE DEF A, Y
  <2>13. /\ Solo(X, B, {"tormenta"}) /\ OtraTormenta(m, B.tormenta, {"base", "aplicada"})
         /\ B.tormenta.base = base /\ B.tormenta.aplicada = TRUE
    BY <1>4, <1>5, <2>12 DEF Solo, CamposExt, OtraTormenta, TormentaOK
  <2> HIDE DEF B
  <2>14. /\ Solo(X, Y, {"tormenta"}) /\ OtraTormenta(m, Y.tormenta, {"base", "aplicada", "arena"})
         /\ Y.tormenta.base = base /\ Y.tormenta.aplicada = TRUE /\ Y.tormenta.arena = TRUE
    BY <1>4, <1>5, <2>11, <2>13 DEF Solo, CamposExt, OtraTormenta, TormentaOK
  <2>6. Solo(X, Y, {"tormenta"}) /\ SonidoOK(Y) /\ Y.tormenta.k = k /\ Y.tormenta.arena = TRUE
    BY <1>4, <1>5, <2>14 DEF Solo, CamposExt, SonidoOK, TormentaOK, OtraTormenta
  <2>7. TormentaOK(T, Y)
    BY <1>4, <1>5, <2>1, <2>5, <2>14 DEF CamposExt, TormentaOK, OtraTormenta
  <2> HIDE DEF Y, T
  <2>8. R.x = Y /\ R.s = T /\ DOMAIN R = {"s", "x"}
    BY <2>2
  <2>9. k > 0
    BY <1>2, <1>8
  <2>10. QED
    BY <2>3, <2>4, <2>6, <2>7, <2>8, <2>9 DEF Atenuada
<1>9. QED
  BY <1>6, <1>7, <1>8

(***************************************************************************)
(* What each call keeps of the session: the core, the sound, the storm and *)
(* the photo; and that it neither begins nor ends the photo or the measure. *)
(***************************************************************************)
MismaSesion(E, R) == R.s.bench = E.s.bench /\ R.x.foto.activo = E.x.foto.activo /\ R.x.foto.guardado = E.x.foto.guardado
\* The fields of the core no part of NucleoOK looks at.
DeTransito == DeVista \cup DeMarcas \cup DeSolidos \cup {"edificios", "visible", "docHidden", "pending", "niebla"}

\* A call that changes only those, and the mode for another of the two.
LEMMA MueveNucleo ==
    ASSUME NEW E, Sesion(E), NEW R, DOMAIN R = {"s", "m", "x"}, Solo(E.s, R.s, DeTransito \cup {"mode"}),
           R.s.mode \in {"walk", "orbit"}, R.x = E.x
    PROVE  Sesion(R) /\ MismaSesion(E, R)
<1>1. \A n \in {"ready", "xr", "raf", "luz", "hour", "bench", "city", "quality", "pendingFlight"} : R.s[n] = E.s[n]
  BY CamposSon DEF Sesion, Solo, DeTransito, DeVista, DeMarcas, DeSolidos
<1>2. /\ R.s.ready = E.s.ready /\ R.s.xr = E.s.xr /\ R.s.raf = E.s.raf /\ R.s.luz = E.s.luz /\ R.s.hour = E.s.hour
      /\ R.s.bench = E.s.bench /\ R.s.city = E.s.city /\ R.s.quality = E.s.quality
      /\ R.s.pendingFlight = E.s.pendingFlight
  BY <1>1
<1>3. DOMAIN R.s = Campos
  BY DEF Sesion, Solo
<1>4. NucleoOK(R.s)
  BY <1>2 DEF NucleoOK, Sesion
<1>5. TormentaOK(R.s, R.x)
  BY <1>2 DEF TormentaOK, Sesion
<1>6. QED
  BY <1>2, <1>3, <1>4, <1>5 DEF Sesion, MismaSesion

\* A call that keeps the mode.
LEMMA MueveVista ==
    ASSUME NEW E, Sesion(E), NEW R, DOMAIN R = {"s", "m", "x"}, NEW F, Solo(E.s, R.s, F), F \subseteq DeTransito, R.x = E.x
    PROVE  Sesion(R) /\ MismaSesion(E, R) /\ R.s.mode = E.s.mode
<1>1. R.s.mode = E.s.mode
  BY CamposSon DEF Sesion, Solo, DeTransito, DeVista, DePose, DeMarcas, DeSolidos
<1>2. Solo(E.s, R.s, DeTransito \cup {"mode"})
  BY SoloMas
<1>3. E.s.mode \in {"walk", "orbit"}
  BY DEF Sesion, NucleoOK
<1>4. QED
  BY <1>1, <1>2, <1>3, MueveNucleo

\* A call of a module.
LEMMA MueveExtras ==
    ASSUME NEW E, Sesion(E), NEW R, DOMAIN R = {"s", "m", "x"}, R.s = E.s, Solo(E.x, R.x, CamposExt \ {"foto"}),
           SonidoOK(R.x), TormentaOK(E.s, R.x)
    PROVE  Sesion(R) /\ MismaSesion(E, R)
<1>1. R.x.foto = E.x.foto /\ DOMAIN R.x = CamposExt
  BY DEF Sesion, Solo, CamposExt
<1>2. QED
  BY <1>1 DEF Sesion, MismaSesion, FotoOK

LEMMA MueveSonido ==
    ASSUME NEW E, Sesion(E), NEW R, DOMAIN R = {"s", "m", "x"}, R.s = E.s, Solo(E.x, R.x, DeSonido), SonidoOK(R.x)
    PROVE  Sesion(R) /\ MismaSesion(E, R)
<1>1. R.x.tormenta = E.x.tormenta
  BY DEF Sesion, Solo, CamposExt, DeSonido
<1>2. TormentaOK(E.s, R.x)
  BY <1>1 DEF Sesion, TormentaOK
<1>3. Solo(E.x, R.x, CamposExt \ {"foto"})
  BY SoloMas DEF DeSonido, CamposExt
<1>4. QED
  BY <1>2, <1>3, MueveExtras

\* One call after another.
LEMMA MismaTrans ==
    ASSUME NEW E, NEW R, NEW U, MismaSesion(E, R), MismaSesion(R, U)
    PROVE  MismaSesion(E, U)
BY DEF MismaSesion

\* The change of mode.
LEMMA SesionModo ==
    ASSUME NEW E, Sesion(E), NEW m \in {"walk", "orbit"}
    PROVE  LET R == SetMode(E, m)
           IN /\ Sesion(R) /\ MismaSesion(E, R)
              /\ R.s.mode = m /\ Solo(E.s, R.s, DePose) /\ Solo(E.x, R.x, {"boton"})
<1> DEFINE A == [E EXCEPT !.s = PonModo(@, m)]
           R == EmitirModo(A)
<1>1. CASE E.s.mode = m
  BY <1>1, SoloNada DEF SetMode, MismaSesion
<1>2. CASE E.s.mode # m
  <2>1. SetMode(E, m) = R
    BY <1>2 DEF SetMode
  <2>2. DOMAIN A = {"s", "m", "x"} /\ A.s = PonModo(E.s, m) /\ A.x = E.x
    BY DEF Sesion
  <2>3. Solo(E.s, A.s, DePose) /\ A.s.mode = m
    BY <2>2, SoloPose, CamposSon DEF Sesion, DePose
  <2>4. Solo(E.s, A.s, DeTransito \cup {"mode"})
    BY <2>3, SoloMas DEF DeTransito, DePose
  <2>5. Sesion(A) /\ MismaSesion(E, A)
    BY <2>2, <2>3, <2>4, MueveNucleo
  <2>6. DOMAIN R = {"s", "m", "x"} /\ R.s = A.s /\ R.x = PintaBotones(A.x)
    BY <2>2 DEF EmitirModo
  <2> HIDE DEF A, R
  <2>7. Solo(A.x, R.x, {"boton"}) /\ SonidoOK(R.x)
    BY <2>5, <2>6, CambiaSonido DEF Sesion
  <2>8. Solo(A.x, R.x, DeSonido)
    BY <2>7, SoloMas DEF DeSonido
  <2>9. Sesion(R) /\ MismaSesion(A, R)
    BY <2>5, <2>6, <2>7, <2>8, MueveSonido
  <2>10. MismaSesion(E, R)
    BY <2>5, <2>9, MismaTrans
  <2>11. QED
    BY <2>1, <2>2, <2>3, <2>6, <2>7, <2>9, <2>10
<1>3. QED
  BY <1>1, <1>2

\* The light of the sun is computed: the storm keeps it as its own, and it is
\* light nothing has been taken from.
LEMMA SesionSol ==
    ASSUME NEW E, Sesion(E), t \in 0..MaxT
    PROVE  LET R == UpdateSun(E)
           IN Sesion(R) /\ MismaSesion(E, R) /\ Solo(E.s, R.s, {"luz"}) /\ Solo(E.x, R.x, DeTormenta) /\ R.m = E.m
<1> DEFINE A == [E EXCEPT !.s = PonLuz(@, t)]
           R == UpdateSun(E)
<1>1. DOMAIN R = {"s", "m", "x"} /\ R.s = PonLuz(E.s, t) /\ R.x = GuardaBaseSol(E.x, R.s.luz) /\ R.m = E.m
  BY DEF UpdateSun, EmitirSol, Sesion
<1>2. Solo(E.s, R.s, {"luz"})
  BY <1>1, SoloLazo
<1>3. R.s.luz \in Luces /\ R.s.luz.k = 0
  <2>1. R.s.luz = SinAtenuar(DubaiHour(E.s, t))
    BY <1>1, CamposSon DEF PonLuz, Sesion
  <2>2. DubaiHour(E.s, t) \in Horas \cup 0..MaxT
    BY DEF DubaiHour, Sesion, NucleoOK
  <2>3. QED
    BY <2>1, <2>2 DEF SinAtenuar, Luces
<1> HIDE DEF R
<1>4. /\ Solo(E.x, R.x, DeTormenta) /\ SonidoOK(R.x) /\ TormentaOK(R.s, R.x)
  BY <1>1, <1>3, CambiaTormenta DEF Sesion
<1>5. R.x.foto = E.x.foto /\ DOMAIN R.x = CamposExt
  BY <1>4 DEF Sesion, Solo, DeTormenta, CamposExt
<1>6. \A n \in {"ready", "xr", "raf", "mode", "hour", "bench", "city", "quality", "pendingFlight"} : R.s[n] = E.s[n]
  BY <1>2, CamposSon DEF Sesion, Solo, DePose
<1>7. /\ R.s.ready = E.s.ready /\ R.s.xr = E.s.xr /\ R.s.raf = E.s.raf /\ R.s.mode = E.s.mode /\ R.s.hour = E.s.hour
      /\ R.s.bench = E.s.bench /\ R.s.city = E.s.city /\ R.s.quality = E.s.quality
      /\ R.s.pendingFlight = E.s.pendingFlight
  BY <1>6
<1>8. NucleoOK(R.s)
  BY <1>3, <1>7 DEF NucleoOK, Sesion
<1>9. FotoOK(R.x) /\ DOMAIN R.s = Campos
  BY <1>2, <1>5 DEF FotoOK, Sesion, Solo
<1>10. QED
  BY <1>1, <1>2, <1>4, <1>5, <1>7, <1>8, <1>9 DEF Sesion, MismaSesion, R

\* What waits for the map, and the city and the parcels put in the scene.
LEMMA SesionCiudad ==
    ASSUME NEW E, Sesion(E), NEW d
    PROVE  LET R == AplicaCiudad(E, d)
           IN Sesion(R) /\ MismaSesion(E, R) /\ Solo(E.s, R.s, DeSolidos \cup DeMarcas) /\ R.x = E.x
<1> DEFINE R == AplicaCiudad(E, d)
<1>1. DOMAIN R = {"s", "m", "x"} /\ R.s = ApplyCity(E.s, d) /\ R.x = E.x
  BY DEF AplicaCiudad, EmitirCiudad, Sesion
<1>2. Solo(E.s, R.s, DeSolidos \cup DeMarcas)
  BY <1>1, SoloCiudad
<1> HIDE DEF R
<1>3. DeSolidos \cup DeMarcas \subseteq DeTransito
  BY DEF DeTransito
<1>4. Sesion(R) /\ MismaSesion(E, R)
  BY <1>1, <1>2, <1>3, MueveVista
<1>5. QED
  BY <1>1, <1>2, <1>4 DEF R

ConDestino(v) == v.fn \in {"celda", "hito", "skyline", "city"}

LEMMA SesionVuelo ==
    ASSUME NEW E, Sesion(E), NEW v, ConDestino(v)
    PROVE  LET R == Vuela1(E, v)
           IN Sesion(R) /\ MismaSesion(E, R) /\ Solo(E.s, R.s, DePose \cup {"pendingFlight"}) /\ Solo(E.x, R.x, {"boton"})
<1> DEFINE R == Vuela1(E, v)
<1>0. E.s.ready \in BOOLEAN /\ DOMAIN E = {"s", "m", "x"}
  BY DEF Sesion, NucleoOK
<1>1. CASE ~E.s.ready
  <2> DEFINE U == [E EXCEPT !.s.pendingFlight = v]
  <2>1. R = U
    BY <1>1 DEF Vuela1
  <2>2. /\ DOMAIN U = {"s", "m", "x"} /\ U.s = [E.s EXCEPT !.pendingFlight = v] /\ U.x = E.x
    BY <1>0
  <2> HIDE DEF U
  <2>3. Solo(E.s, U.s, {"pendingFlight"}) /\ U.s.pendingFlight = v
    BY <2>2, CamposSon DEF Solo, Sesion
  <2>4. \A n \in {"ready", "xr", "raf", "mode", "luz", "hour", "bench", "city", "quality"} : U.s[n] = E.s[n]
    BY <2>3, CamposSon DEF Sesion, Solo, DePose
  <2>5. /\ U.s.ready = E.s.ready /\ U.s.xr = E.s.xr /\ U.s.raf = E.s.raf /\ U.s.mode = E.s.mode /\ U.s.luz = E.s.luz /\ U.s.hour = E.s.hour
        /\ U.s.bench = E.s.bench /\ U.s.city = E.s.city /\ U.s.quality = E.s.quality
    BY <2>4
  <2>6. NucleoOK(U.s)
    BY <2>3, <2>5 DEF NucleoOK, Sesion, ConDestino
  <2>7. Sesion(U) /\ MismaSesion(E, U)
    BY <2>2, <2>3, <2>5, <2>6 DEF Sesion, MismaSesion, TormentaOK, Solo
  <2>8. Solo(E.s, U.s, DePose \cup {"pendingFlight"})
    BY <2>3, SoloMas
  <2>9. Solo(E.x, U.x, {"boton"})
    BY <2>2, SoloNada
  <2>10. QED
    BY <2>1, <2>7, <2>8, <2>9
<1>2. CASE E.s.ready /\ v.fn = "celda"
  <2>1. R = [E EXCEPT !.s = FlyTo(@, v.arg)]
    BY <1>0, <1>2 DEF Vuela1
  <2>2. DOMAIN R = {"s", "m", "x"} /\ R.s = FlyTo(E.s, v.arg) /\ R.x = E.x
    BY <1>0, <2>1
  <2>3. Solo(E.s, R.s, DeVista)
    BY <2>2, SoloPose, CamposSon DEF Sesion, DePose
  <2> HIDE DEF R
  <2>4. Sesion(R) /\ MismaSesion(E, R)
    BY <2>2, <2>3, MueveVista DEF DeTransito
  <2>5. Solo(E.s, R.s, DePose \cup {"pendingFlight"}) /\ Solo(E.x, R.x, {"boton"})
    BY <2>2, <2>3, SoloMas, SoloNada DEF DePose
  <2>6. QED
    BY <2>4, <2>5 DEF R
<1>3. CASE E.s.ready /\ v.fn = "hito"
  <2>1. R = E \/ R = [E EXCEPT !.s = FlyToLandmark(@, Hitos[1])]
    BY <1>0, <1>3 DEF Vuela1
  <2>2. DOMAIN R = {"s", "m", "x"} /\ (R.s = E.s \/ R.s = FlyToLandmark(E.s, Hitos[1])) /\ R.x = E.x
    BY <1>0, <2>1
  <2>3. Solo(E.s, R.s, DeVista)
    BY <2>2, SoloPose, SoloNada, CamposSon DEF Sesion, DePose
  <2> HIDE DEF R
  <2>4. Sesion(R) /\ MismaSesion(E, R)
    BY <2>2, <2>3, MueveVista DEF DeTransito
  <2>5. Solo(E.s, R.s, DePose \cup {"pendingFlight"}) /\ Solo(E.x, R.x, {"boton"})
    BY <2>2, <2>3, SoloMas, SoloNada DEF DePose
  <2>6. QED
    BY <2>4, <2>5 DEF R
<1>4. CASE E.s.ready /\ v.fn \in {"skyline", "city"}
  <2> DEFINE A == SetMode(E, "orbit")
             w == IF v.fn = "city" THEN CityView ELSE SkylineView
  <2>1. R = [A EXCEPT !.s = Fly(@, w)]
    BY <1>0, <1>4 DEF Vuela1
  <2>2. Sesion(A) /\ MismaSesion(E, A) /\ Solo(E.s, A.s, DePose) /\ Solo(E.x, A.x, {"boton"})
    BY SesionModo
  <2> HIDE DEF A, w
  <2>3. DOMAIN R = {"s", "m", "x"} /\ R.s = Fly(A.s, w) /\ R.x = A.x
    BY <2>1, <2>2 DEF Sesion
  <2>4. Solo(A.s, R.s, DeVista)
    BY <2>2, <2>3, SoloPose, CamposSon DEF Sesion, DePose
  <2> HIDE DEF R
  <2>5. Sesion(R) /\ MismaSesion(A, R)
    BY <2>2, <2>3, <2>4, MueveVista DEF DeTransito
  <2>6. Solo(E.s, R.s, DePose \cup DeVista)
    BY <2>2, <2>4, SoloTrans
  <2>7. Solo(E.s, R.s, DePose \cup {"pendingFlight"})
    BY <2>6, SoloMas DEF DePose
  <2>8. QED
    BY <2>2, <2>3, <2>5, <2>7, MismaTrans DEF R
<1>5. QED
  BY <1>0, <1>1, <1>2, <1>3, <1>4 DEF ConDestino

\* The world that is built: it is raised; what waited is put; the flight that
\* waited begins.
Levantado(E) == Listo(UpdateSun([E EXCEPT !.s = Mundo(@)]))
Repuesto(E) == EmitirListo(Repone(CiudadPendiente(E)))

LEMMA SesionLevantado ==
    ASSUME NEW E, Sesion(E), t \in 0..MaxT
    PROVE  LET R == Levantado(E)
           IN /\ Sesion(R) /\ MismaSesion(E, R) /\ R.m = E.m /\ R.s.ready = TRUE
              /\ Solo(Mundo(E.s), R.s, {"luz", "ready"}) /\ Solo(E.s, R.s, DeSolidos \cup {"edificios", "cur", "goal", "luz", "ready"})
<1> DEFINE A == [E EXCEPT !.s = Mundo(@)]
           B == UpdateSun(A)
           R == Listo(B)
<1>1. DOMAIN A = {"s", "m", "x"} /\ A.s = Mundo(E.s) /\ A.x = E.x /\ A.m = E.m
  BY DEF Sesion
<1>2. Solo(E.s, A.s, DeSolidos \cup {"edificios", "cur", "goal"})
  BY <1>1, SoloCiudad
<1> HIDE DEF A
<1>3. Sesion(A) /\ MismaSesion(E, A)
  <2>1. DeSolidos \cup {"edificios", "cur", "goal"} \subseteq DeTransito
    BY DEF DeTransito, DeVista
  <2>2. QED
    BY <1>1, <1>2, <2>1, MueveVista
<1>4. Sesion(B) /\ MismaSesion(A, B) /\ Solo(A.s, B.s, {"luz"}) /\ B.m = A.m
  BY <1>3, SesionSol
<1> HIDE DEF B
<1>5. DOMAIN R = {"s", "m", "x"} /\ R.s = [B.s EXCEPT !.ready = TRUE] /\ R.x = B.x /\ R.m = B.m
  BY <1>4 DEF Listo, Sesion
<1>6. Levantado(E) = R
  BY DEF Levantado, A, B
<1> HIDE DEF R
<1>7. Solo(B.s, R.s, {"ready"}) /\ R.s.ready = TRUE
  BY <1>5, <1>4, CamposSon DEF Solo, Sesion
<1>8. \A n \in {"xr", "raf", "mode", "luz", "hour", "bench", "city", "quality", "pendingFlight"} : R.s[n] = B.s[n]
  BY <1>4, <1>7, CamposSon DEF Sesion, Solo, DePose
<1>9. /\ R.s.xr = B.s.xr /\ R.s.raf = B.s.raf /\ R.s.mode = B.s.mode /\ R.s.luz = B.s.luz /\ R.s.hour = B.s.hour
      /\ R.s.bench = B.s.bench /\ R.s.city = B.s.city /\ R.s.quality = B.s.quality /\ R.s.pendingFlight = B.s.pendingFlight
  BY <1>8
<1>10. NucleoOK(R.s)
  BY <1>4, <1>7, <1>9 DEF NucleoOK, Sesion
<1>11. Sesion(R) /\ MismaSesion(B, R)
  BY <1>4, <1>5, <1>7, <1>9, <1>10 DEF Sesion, MismaSesion, TormentaOK, Solo
<1>12. Solo(A.s, R.s, {"luz", "ready"})
  <2>1. Solo(A.s, R.s, {"luz"} \cup {"ready"})
    BY <1>4, <1>7, SoloTrans
  <2>2. QED
    BY <2>1, SoloMas
<1>13. Solo(E.s, R.s, DeSolidos \cup {"edificios", "cur", "goal", "luz", "ready"})
  <2>1. Solo(E.s, R.s, (DeSolidos \cup {"edificios", "cur", "goal"}) \cup {"luz", "ready"})
    BY <1>2, <1>12, SoloTrans
  <2>2. QED
    BY <2>1, SoloMas
<1>14. QED
  BY <1>1, <1>3, <1>4, <1>5, <1>6, <1>7, <1>11, <1>12, <1>13 DEF MismaSesion

LEMMA SesionRepone ==
    ASSUME NEW E, Sesion(E)
    PROVE  LET R == Repone(E) IN Sesion(R) /\ MismaSesion(E, R) /\ Solo(E.s, R.s, DeMarcas) /\ R.m = E.m /\ R.x = E.x
<1> DEFINE S1 == SetGhosts(E.s, E.s.ghosts)
           S2 == RefreshSelection(S1)
           S3 == RebuildAvatarLabels(S2)
           R == Repone(E)
<1>1. DOMAIN R = {"s", "m", "x"} /\ R.s = S3 /\ R.x = E.x /\ R.m = E.m
  BY DEF Repone, Sesion
<1>2. Solo(E.s, S1, DeMarcas)
  BY SoloMarcas
<1>3. Solo(S1, S2, DeMarcas)
  BY SoloMarcas
<1>4. Solo(S2, S3, DeMarcas)
  BY SoloMarcas
<1> HIDE DEF S1, S2, S3
<1>5. Solo(E.s, S2, DeMarcas \cup DeMarcas)
  BY <1>2, <1>3, SoloTrans
<1>6. Solo(E.s, S3, (DeMarcas \cup DeMarcas) \cup DeMarcas)
  BY <1>4, <1>5, SoloTrans
<1> HIDE DEF R
<1>7. Solo(E.s, R.s, DeMarcas)
  BY <1>1, <1>6, SoloMas
<1>8. Sesion(R) /\ MismaSesion(E, R)
  BY <1>1, <1>7, MueveVista DEF DeTransito
<1>9. QED
  BY <1>1, <1>7, <1>8 DEF R

LEMMA SesionRepuesto ==
    ASSUME NEW E, Sesion(E)
    PROVE  LET D == CiudadPendiente(E)
               R == Repuesto(E)
           IN /\ Sesion(D) /\ MismaSesion(E, D)
              /\ D = E \/ \E d : Solo(AplicaCiudad(E, d).s, D.s, {"pending"}) /\ D.m = AplicaCiudad(E, d).m
              /\ Solo(E.s, D.s, DeSolidos \cup DeMarcas \cup {"pending"})
              /\ Sesion(R) /\ MismaSesion(E, R) /\ Solo(D.s, R.s, DeMarcas) /\ Solo(E.s, R.s, DeSolidos \cup DeMarcas \cup {"pending"})
              /\ R.m = MemListo(D.m, R.s)
<1> DEFINE D == CiudadPendiente(E)
           F == Repone(D)
           R == EmitirListo(F)
<1>1. PICK d : D = E \/ D = [AplicaCiudad(E, d) EXCEPT !.s.pending = Nada]
  BY DEF CiudadPendiente
<1> DEFINE U == AplicaCiudad(E, d)
           V == [U EXCEPT !.s.pending = Nada]
<1>2. Sesion(U) /\ MismaSesion(E, U) /\ Solo(E.s, U.s, DeSolidos \cup DeMarcas)
  BY SesionCiudad
<1>a. D = E \/ D = V
  BY <1>1
<1> HIDE DEF U, D
<1>3. DOMAIN V = {"s", "m", "x"} /\ V.s = [U.s EXCEPT !.pending = Nada] /\ V.x = U.x /\ V.m = U.m
  BY <1>2 DEF Sesion
<1> HIDE DEF V
<1>4. Solo(U.s, V.s, {"pending"})
  BY <1>3 DEF Solo
<1>5. Sesion(V) /\ MismaSesion(U, V)
  BY <1>2, <1>3, <1>4, MueveVista DEF DeTransito
<1>6. MismaSesion(E, V) /\ MismaSesion(E, E)
  BY <1>2, <1>5 DEF MismaSesion
<1>7. Solo(E.s, V.s, DeSolidos \cup DeMarcas \cup {"pending"})
  BY <1>2, <1>4, SoloTrans
<1>8. Sesion(D) /\ MismaSesion(E, D) /\ Solo(E.s, D.s, DeSolidos \cup DeMarcas \cup {"pending"})
  BY <1>a, <1>5, <1>6, <1>7, SoloNada
<1>9. D = E \/ (Solo(U.s, D.s, {"pending"}) /\ D.m = U.m)
  BY <1>a, <1>3, <1>4
<1>10. Sesion(F) /\ MismaSesion(D, F) /\ Solo(D.s, F.s, DeMarcas) /\ F.m = D.m
  BY <1>8, SesionRepone
<1>11. Repuesto(E) = R
  BY DEF Repuesto, D
<1> HIDE DEF F
<1>12. DOMAIN R = {"s", "m", "x"} /\ R.s = F.s /\ R.x = F.x /\ R.m = MemListo(F.m, F.s)
  BY <1>10 DEF EmitirListo, Sesion
<1> HIDE DEF R
<1>13. Sesion(R) /\ MismaSesion(F, R)
  BY <1>10, <1>12 DEF Sesion, MismaSesion
<1>14. MismaSesion(E, R)
  BY <1>8, <1>10, <1>13 DEF MismaSesion
<1>15. Solo(E.s, R.s, DeSolidos \cup DeMarcas \cup {"pending"})
  <2>1. Solo(E.s, F.s, (DeSolidos \cup DeMarcas \cup {"pending"}) \cup DeMarcas)
    BY <1>8, <1>10, SoloTrans
  <2>2. QED
    BY <1>12, <2>1, SoloMas
<1>16. QED
  BY <1>8, <1>9, <1>10, <1>11, <1>12, <1>13, <1>14, <1>15 DEF D, U

LEMMA SesionPendiente ==
    ASSUME NEW E, Sesion(E)
    PROVE  LET R == VueloPendiente(E)
           IN Sesion(R) /\ MismaSesion(E, R) /\ Solo(E.s, R.s, DePose \cup {"pendingFlight"})
<1> DEFINE v == E.s.pendingFlight
           U == [E EXCEPT !.s.pendingFlight = Nada]
           R == VueloPendiente(E)
<1>1. CASE v = Nada
  <2>1. R = E
    BY <1>1 DEF VueloPendiente
  <2> HIDE DEF R
  <2>2. QED
    BY <2>1, SoloNada DEF MismaSesion, R
<1>2. CASE v # Nada
  <2>1. R = Vuela1(U, v)
    BY <1>2 DEF VueloPendiente
  <2>2. ConDestino(v)
    BY <1>2 DEF Sesion, NucleoOK, ConDestino
  <2>3. DOMAIN U = {"s", "m", "x"} /\ U.s = [E.s EXCEPT !.pendingFlight = Nada] /\ U.x = E.x
    BY DEF Sesion
  <2> HIDE DEF U, v, R
  <2>4. Solo(E.s, U.s, {"pendingFlight"}) /\ U.s.pendingFlight = Nada
    BY <2>3, CamposSon DEF Solo, Sesion
  <2>5. \A n \in {"ready", "xr", "raf", "mode", "luz", "hour", "bench", "city", "quality"} : U.s[n] = E.s[n]
    BY <2>4, CamposSon DEF Sesion, Solo, DePose
  <2>6. /\ U.s.ready = E.s.ready /\ U.s.xr = E.s.xr /\ U.s.raf = E.s.raf /\ U.s.mode = E.s.mode /\ U.s.luz = E.s.luz /\ U.s.hour = E.s.hour
        /\ U.s.bench = E.s.bench /\ U.s.city = E.s.city /\ U.s.quality = E.s.quality
    BY <2>5
  <2>7. NucleoOK(U.s)
    BY <2>4, <2>6 DEF NucleoOK, Sesion
  <2>8. Sesion(U) /\ MismaSesion(E, U)
    BY <2>3, <2>4, <2>6, <2>7 DEF Sesion, MismaSesion, TormentaOK, Solo
  <2>9. Sesion(R) /\ MismaSesion(U, R) /\ Solo(U.s, R.s, DePose \cup {"pendingFlight"})
    BY <2>1, <2>2, <2>8, SesionVuelo
  <2>10. Solo(E.s, R.s, DePose \cup {"pendingFlight"})
    <3>1. Solo(E.s, R.s, {"pendingFlight"} \cup (DePose \cup {"pendingFlight"}))
      BY <2>4, <2>9, SoloTrans
    <3>2. QED
      BY <3>1, SoloMas
  <2>11. QED
    BY <2>8, <2>9, <2>10, MismaTrans DEF R
<1>3. QED
  BY <1>1, <1>2

LEMMA SesionMundo ==
    ASSUME NEW E, Sesion(E), t \in 0..MaxT
    PROVE  Sesion(BuildWorld(E)) /\ MismaSesion(E, BuildWorld(E))
<1> DEFINE A == Levantado(E)
           B == Repuesto(A)
           C == VueloPendiente(B)
<1>1. Sesion(A) /\ MismaSesion(E, A)
  BY SesionLevantado
<1> HIDE DEF A
<1>2. Sesion(B) /\ MismaSesion(A, B)
  BY <1>1, SesionRepuesto
<1> HIDE DEF B
<1>3. Sesion(C) /\ MismaSesion(B, C)
  BY <1>2, SesionPendiente
<1>4. BuildWorld(E) = C
  BY DEF BuildWorld, Levantado, Repuesto, A, B
<1>5. QED
  BY <1>1, <1>2, <1>3, <1>4, MismaTrans

(***************************************************************************)
(* The photo and the measure: how they end.                                *)
(***************************************************************************)
\* Leaving the photo ends it, and without a headset the pose kept is back.
LEMMA SesionSaleFoto ==
    ASSUME NEW E, Sesion(E)
    PROVE  LET R == SaleFoto(E)
           IN /\ Sesion(R) /\ R.s.bench = E.s.bench /\ ~R.x.foto.activo
              /\ Solo(E.s, R.s, DePose \cup {"visibles"}) /\ Solo(E.x, R.x, DeFoto)
              /\ E.x.foto.activo /\ ~E.s.xr => MismaPose(E.x.foto.guardado, PoseDe(R.s))
<1> DEFINE g == E.x.foto.guardado
           A == [E EXCEPT !.x.foto.activo = FALSE]
           m == IF E.s.xr THEN E.s.mode ELSE g.mode
           B == SetMode(A, m)
           T == DevuelvePose(B.s, g)
           R == SaleFoto(E)
<1>0. E.x.foto.activo \in BOOLEAN /\ DOMAIN E = {"s", "m", "x"}
  BY DEF Sesion, FotoOK
<1>1. CASE ~E.x.foto.activo
  <2>1. R = E
    BY <1>1 DEF SaleFoto
  <2> HIDE DEF R
  <2>2. QED
    BY <1>1, <2>1, SoloNada DEF R
<1>2. CASE E.x.foto.activo
  <2>1. R = [B EXCEPT !.s = MuestraMarcas(E.x, DevuelvePose(@, g)), !.x = CierraFoto(@)]
    BY <1>2 DEF SaleFoto
  <2>2. m \in {"walk", "orbit"}
    BY <1>2 DEF Sesion, FotoOK, NucleoOK
  <2>3. DOMAIN A = {"s", "m", "x"} /\ A.s = E.s /\ A.x = [E.x EXCEPT !.foto.activo = FALSE]
    BY <1>0
  <2> HIDE DEF A
  <2>4. Solo(E.x, A.x, {"foto"}) /\ A.x.foto.activo = FALSE /\ DOMAIN A.x.foto = DOMAIN E.x.foto
    BY <2>3 DEF Solo, Sesion, CamposExt, FotoOK, FotoApagada
  <2>5. Sesion(A)
    BY <2>3, <2>4 DEF Sesion, Solo, CamposExt, SonidoOK, TormentaOK, FotoOK
  <2>6. /\ Sesion(B) /\ MismaSesion(A, B)
        /\ B.s.mode = m /\ Solo(A.s, B.s, DePose) /\ Solo(A.x, B.x, {"boton"})
    BY <2>2, <2>5, SesionModo
  <2> HIDE DEF B, m
  <2>7. Solo(B.s, T, DeVista) /\ T.mode = B.s.mode
    <3>1. Solo(B.s, T, DeVista)
      BY <2>6, SoloPose, CamposSon DEF Sesion, DePose
    <3>2. QED
      BY <2>6, <3>1, CamposSon DEF Sesion, Solo, DePose, DeVista
  <2>8. DOMAIN R = {"s", "m", "x"} /\ R.s = MuestraMarcas(E.x, T) /\ R.x = CierraFoto(B.x)
    BY <2>1, <2>6 DEF Sesion
  <2>9. Solo(B.x, R.x, DeFoto) /\ SonidoOK(R.x) /\ FotoOK(R.x) /\ ~R.x.foto.activo
    BY <2>6, <2>8, CambiaFoto DEF Sesion
  <2>10. Solo(T, R.s, {"visibles"})
    BY <2>8 DEF MuestraMarcas, Solo
  <2>11. E.x.foto.activo /\ ~E.s.xr => MismaPose(g, PoseDe(R.s))
    <3>1. SUFFICES ASSUME ~E.s.xr PROVE MismaPose(g, PoseDe(R.s))
      BY <1>2
    <3>2. B.s.mode = g.mode /\ ~B.s.xr
      BY <2>3, <2>6, <3>1, CamposSon DEF m, Solo, DePose, DeVista, Sesion
    <3>3. T.mode = g.mode
      BY <2>7, <3>2
    <3>4. g.mode = "walk" => T.pos = g.pos /\ T.yaw = g.yaw /\ T.fly = g.fly
      BY <2>6, <3>2, CamposSon DEF DevuelvePose, Sesion, DePose, DeVista
    <3>5. g.mode # "walk" => T.cur = g.cur /\ T.goal = g.goal /\ T.flight = g.flight
      BY <2>6, <3>2, CamposSon DEF DevuelvePose, Sesion, DePose, DeVista
    <3> HIDE DEF T
    <3>6. \A n \in DePose : R.s[n] = T[n]
      BY <2>6, <2>7, <2>10, CamposSon DEF Solo, Sesion, DePose, DeVista
    <3>7. /\ R.s.mode = T.mode /\ R.s.pos = T.pos /\ R.s.yaw = T.yaw /\ R.s.fly = T.fly
          /\ R.s.cur = T.cur /\ R.s.goal = T.goal /\ R.s.flight = T.flight
      BY <3>6 DEF DePose, DeVista
    <3> HIDE DEF R, g
    <3>8. QED
      BY <3>3, <3>4, <3>5, <3>7 DEF MismaPose, PoseDe
  <2> HIDE DEF T, R, g
  <2>12. Solo(B.s, R.s, DeVista \cup {"visibles"})
    BY <2>7, <2>10, SoloTrans
  <2>13. DOMAIN B.x = CamposExt /\ R.x.tormenta = B.x.tormenta
    BY <2>6, <2>9 DEF Sesion, Solo, DeFoto, CamposExt
  <2>14. Sesion(R) /\ R.s.bench = B.s.bench
    <3>1. \A n \in {"ready", "xr", "raf", "mode", "luz", "hour", "bench", "city", "quality", "pendingFlight"} : R.s[n] = B.s[n]
      BY <2>6, <2>12, CamposSon DEF Sesion, Solo, DeVista, DePose
    <3>2. /\ R.s.ready = B.s.ready /\ R.s.xr = B.s.xr /\ R.s.raf = B.s.raf /\ R.s.mode = B.s.mode /\ R.s.luz = B.s.luz /\ R.s.hour = B.s.hour
          /\ R.s.bench = B.s.bench /\ R.s.city = B.s.city /\ R.s.quality = B.s.quality /\ R.s.pendingFlight = B.s.pendingFlight
      BY <3>1
    <3>3. NucleoOK(R.s)
      BY <2>6, <3>2 DEF NucleoOK, Sesion
    <3>4. DOMAIN R.x = CamposExt /\ DOMAIN R.s = Campos
      BY <2>6, <2>9, <2>12 DEF Sesion, Solo
    <3>5. TormentaOK(R.s, R.x)
      BY <2>6, <2>13, <3>2 DEF Sesion, TormentaOK
    <3>6. QED
      BY <2>8, <2>9, <3>2, <3>3, <3>4, <3>5 DEF Sesion
  <2>15. Solo(E.s, R.s, DePose \cup {"visibles"})
    <3>1. Solo(E.s, R.s, DePose \cup (DeVista \cup {"visibles"}))
      BY <2>3, <2>6, <2>12, SoloTrans
    <3>2. QED
      BY <3>1, SoloMas DEF DePose
  <2>16. Solo(E.x, R.x, DeFoto)
    <3>1. Solo(E.x, B.x, {"foto"} \cup {"boton"})
      BY <2>4, <2>6, SoloTrans
    <3>2. Solo(E.x, R.x, ({"foto"} \cup {"boton"}) \cup DeFoto)
      BY <2>9, <3>1, SoloTrans
    <3>3. QED
      BY <3>2, SoloMas DEF DeFoto
  <2>17. R.s.bench = E.s.bench
    BY <2>3, <2>6, <2>14 DEF MismaSesion
  <2>18. QED
    BY <2>9, <2>11, <2>14, <2>15, <2>16, <2>17 DEF R, g
<1>3. QED
  BY <1>0, <1>1, <1>2

\* Putting on the headset ends the photo.
LEMMA SesionEntrarVR ==
    ASSUME NEW E, Sesion(E)
    PROVE  LET R == EntrarVR(E)
           IN /\ Sesion(R) /\ R.s.bench = E.s.bench /\ ~R.x.foto.activo /\ R.s.xr
              /\ Solo(E.s, R.s, DePose \cup {"visibles", "xr", "rig", "raf"}) /\ Solo(E.x, R.x, DeFoto)
<1> DEFINE A == [E EXCEPT !.s = EnterVR(@)]
           R == SaleFoto(A)
<1>1. DOMAIN A = {"s", "m", "x"} /\ A.s = EnterVR(E.s) /\ A.x = E.x
  BY DEF Sesion
<1>2. Solo(E.s, A.s, {"xr", "rig", "raf"})
  BY <1>1, SoloLazo
<1>3. A.s.xr = TRUE /\ A.s.raf = FALSE
  BY <1>1, CamposSon DEF EnterVR, SyncLoop, Sesion
<1>4. \A n \in {"ready", "mode", "luz", "hour", "bench", "city", "quality", "pendingFlight"} : A.s[n] = E.s[n]
  BY <1>2, CamposSon DEF Sesion, Solo, DePose
<1>5. /\ A.s.ready = E.s.ready /\ A.s.mode = E.s.mode /\ A.s.luz = E.s.luz /\ A.s.hour = E.s.hour
      /\ A.s.bench = E.s.bench /\ A.s.city = E.s.city /\ A.s.quality = E.s.quality /\ A.s.pendingFlight = E.s.pendingFlight
  BY <1>4
<1> HIDE DEF A
<1>6. NucleoOK(A.s)
  BY <1>3, <1>5 DEF NucleoOK, Sesion
<1>7. Sesion(A)
  BY <1>1, <1>2, <1>5, <1>6 DEF Sesion, TormentaOK, Solo
<1>8. /\ Sesion(R) /\ R.s.bench = A.s.bench /\ ~R.x.foto.activo
      /\ Solo(A.s, R.s, DePose \cup {"visibles"}) /\ Solo(A.x, R.x, DeFoto)
  BY <1>7, SesionSaleFoto
<1>9. EntrarVR(E) = R
  BY DEF EntrarVR, A
<1> HIDE DEF R
<1>10. R.s.xr
  BY <1>3, <1>7, <1>8, CamposSon DEF Sesion, Solo, DePose, DeVista
<1>11. Solo(E.s, R.s, {"xr", "rig", "raf"} \cup (DePose \cup {"visibles"}))
  BY <1>2, <1>8, SoloTrans
<1>12. {"xr", "rig", "raf"} \cup (DePose \cup {"visibles"}) = DePose \cup {"visibles", "xr", "rig", "raf"}
  OBVIOUS
<1>13. QED
  BY <1>1, <1>5, <1>8, <1>9, <1>10, <1>11, <1>12

\* The end of the measure.
LEMMA SesionBenchFin ==
    ASSUME NEW E, Sesion(E), E.s.bench.activo
    PROVE  LET R == BenchFin(E)
           IN /\ Sesion(R) /\ R.x.foto = E.x.foto /\ ~R.s.bench.activo
              /\ Solo(E.s, R.s, DePose \cup {"bench"}) /\ Solo(E.x, R.x, {"boton"})
              /\ MismaPose(E.s.bench.guardado, PoseDe(R.s))
<1> DEFINE g == E.s.bench.guardado
           A == [E EXCEPT !.s.bench = SinMedida]
           B == SetMode(A, g.mode)
           R == [B EXCEPT !.s = BenchDevuelve(@, g)]
<1>1. BenchFin(E) = R
  BY DEF BenchFin
<1>2. g.mode \in {"walk", "orbit"}
  BY DEF Sesion, NucleoOK
<1>3. DOMAIN A = {"s", "m", "x"} /\ A.s = [E.s EXCEPT !.bench = SinMedida] /\ A.x = E.x
  BY DEF Sesion
<1> HIDE DEF A
<1>4. Solo(E.s, A.s, {"bench"}) /\ A.s.bench = SinMedida
  BY <1>3, CamposSon DEF Solo, Sesion
<1>5. \A n \in {"ready", "xr", "raf", "mode", "luz", "hour", "city", "quality", "pendingFlight"} : A.s[n] = E.s[n]
  BY <1>4, CamposSon DEF Sesion, Solo, DePose
<1>6. /\ A.s.ready = E.s.ready /\ A.s.xr = E.s.xr /\ A.s.raf = E.s.raf /\ A.s.mode = E.s.mode /\ A.s.luz = E.s.luz /\ A.s.hour = E.s.hour
      /\ A.s.city = E.s.city /\ A.s.quality = E.s.quality /\ A.s.pendingFlight = E.s.pendingFlight
  BY <1>5
<1>7. NucleoOK(A.s)
  BY <1>4, <1>6 DEF NucleoOK, Sesion, SinMedida
<1>8. Sesion(A)
  BY <1>3, <1>4, <1>6, <1>7 DEF Sesion, TormentaOK, Solo
<1>9. /\ Sesion(B) /\ MismaSesion(A, B)
      /\ B.s.mode = g.mode /\ Solo(A.s, B.s, DePose) /\ Solo(A.x, B.x, {"boton"})
  BY <1>2, <1>8, SesionModo
<1> HIDE DEF B
<1>10. DOMAIN R = {"s", "m", "x"} /\ R.s = BenchDevuelve(B.s, g) /\ R.x = B.x
  BY <1>9 DEF Sesion
<1> HIDE DEF R
<1>11. Solo(B.s, R.s, DeVista)
  BY <1>9, <1>10, SoloPose, CamposSon DEF Sesion, DePose
<1>12. Sesion(R) /\ MismaSesion(B, R) /\ R.s.mode = B.s.mode
  BY <1>9, <1>10, <1>11, MueveVista DEF DeTransito
<1>13. ~R.s.bench.activo
  BY <1>4, <1>9, <1>12 DEF MismaSesion, SinMedida
<1>14. Solo(E.s, R.s, DePose \cup {"bench"})
  <2>1. Solo(E.s, B.s, {"bench"} \cup DePose)
    BY <1>4, <1>9, SoloTrans
  <2>2. Solo(E.s, R.s, ({"bench"} \cup DePose) \cup DeVista)
    BY <1>11, <2>1, SoloTrans
  <2>3. QED
    BY <2>2, SoloMas DEF DePose
<1>15. R.x.foto = E.x.foto /\ Solo(E.x, R.x, {"boton"})
  BY <1>3, <1>9, <1>10 DEF Sesion, Solo, CamposExt
<1>16. MismaPose(g, PoseDe(R.s))
  <2>1. g.mode = "walk" => R.s.pos = g.pos /\ R.s.yaw = g.yaw /\ R.s.fly = g.fly
    BY <1>9, <1>10, CamposSon DEF BenchDevuelve, Sesion, DePose, DeVista
  <2>2. g.mode # "walk" => R.s.cur = g.cur /\ R.s.goal = g.goal /\ R.s.flight = g.flight
    BY <1>9, <1>10, CamposSon DEF BenchDevuelve, PonVista, Sesion, DePose, DeVista
  <2> HIDE DEF g
  <2>3. QED
    BY <1>9, <1>12, <2>1, <2>2 DEF MismaPose, PoseDe
<1>17. QED
  BY <1>1, <1>12, <1>13, <1>14, <1>15, <1>16

\* A frame of the measure: it goes on with the pose it keeps, or gives it back.
Medida(E, R) ==
    /\ ~E.s.bench.activo => R.s.bench = E.s.bench
    /\ E.s.bench.activo => \/ R.s.bench.activo /\ R.s.bench.guardado = E.s.bench.guardado
                           \/ ~R.s.bench.activo /\ MismaPose(E.s.bench.guardado, PoseDe(R.s))

\* The measure R is E's, with other counters.
OtroPaso(E, A) ==
    /\ DOMAIN A = {"s", "m", "x"} /\ A.x = E.x /\ Solo(E.s, A.s, {"bench"})
    /\ DOMAIN A.s.bench = DOMAIN E.s.bench /\ A.s.bench.i \in Nat
    /\ A.s.bench.activo = E.s.bench.activo /\ A.s.bench.guardado = E.s.bench.guardado

LEMMA SesionPaso ==
    ASSUME NEW E, Sesion(E), NEW A, OtroPaso(E, A)
    PROVE  Sesion(A)
<1>1. \A n \in {"ready", "xr", "raf", "mode", "luz", "hour", "city", "quality", "pendingFlight"} : A.s[n] = E.s[n]
  BY CamposSon DEF Sesion, Solo, DePose, OtroPaso
<1>2. /\ A.s.ready = E.s.ready /\ A.s.xr = E.s.xr /\ A.s.raf = E.s.raf /\ A.s.mode = E.s.mode /\ A.s.luz = E.s.luz /\ A.s.hour = E.s.hour
      /\ A.s.city = E.s.city /\ A.s.quality = E.s.quality /\ A.s.pendingFlight = E.s.pendingFlight
  BY <1>1
<1>3. NucleoOK(A.s)
  BY <1>2 DEF NucleoOK, Sesion, OtroPaso
<1>4. QED
  BY <1>2, <1>3 DEF Sesion, TormentaOK, Solo, OtroPaso

LEMMA SesionBench ==
    ASSUME NEW E, Sesion(E), NEW pasa
    PROVE  LET R == BenchFrame(E, pasa)
           IN /\ Sesion(R) /\ R.x.foto = E.x.foto /\ Medida(E, R)
              /\ Solo(E.s, R.s, DePose \cup {"bench"}) /\ Solo(E.x, R.x, {"boton"})
<1> DEFINE b == E.s.bench
           i == b.i + 1
           modo(v) == IF v = "a_pie" THEN "walk" ELSE "orbit"
           R == BenchFrame(E, pasa)
<1>0. b.activo \in BOOLEAN /\ b.i \in Nat /\ DOMAIN E = {"s", "m", "x"} /\ DOMAIN b = {"activo", "i", "fase", "guardado"}
  BY DEF Sesion, NucleoOK
<1>1. CASE R = E
  <2> HIDE DEF R
  <2>1. Medida(E, E)
    BY <1>0 DEF Medida
  <2>2. QED
    BY <1>1, <2>1, SoloNada DEF R
<1>2. CASE b.activo /\ R = BenchFin(E)
  <2> HIDE DEF R
  <2> DEFINE W == BenchFin(E)
  <2>1. /\ Sesion(W) /\ W.x.foto = E.x.foto /\ ~W.s.bench.activo
        /\ Solo(E.s, W.s, DePose \cup {"bench"}) /\ Solo(E.x, W.x, {"boton"})
        /\ MismaPose(E.s.bench.guardado, PoseDe(W.s))
    BY <1>2, SesionBenchFin
  <2> HIDE DEF W
  <2>2. QED
    BY <1>2, <2>1 DEF Medida, W, R
<1>3. CASE b.activo /\ R = [E EXCEPT !.s.bench.fase = @ + 1]
  <2>1. DOMAIN R = {"s", "m", "x"} /\ R.x = E.x /\ R.s = [E.s EXCEPT !.bench = [b EXCEPT !.fase = @ + 1]]
    BY <1>0, <1>3
  <2> HIDE DEF R
  <2>2. OtroPaso(E, R)
    BY <1>0, <2>1, CamposSon DEF OtroPaso, Solo, Sesion
  <2>3. Sesion(R)
    BY <2>2, SesionPaso
  <2>4. Solo(E.s, R.s, DePose \cup {"bench"}) /\ Solo(E.x, R.x, {"boton"})
    BY <2>2, SoloMas, SoloNada DEF OtroPaso
  <2>5. QED
    BY <1>3, <2>2, <2>3, <2>4 DEF OtroPaso, Medida, R
<1>4. CASE /\ b.activo /\ i <= Len(VistasBench)
           /\ R = [SetMode(E, modo(VistasBench[i])) EXCEPT !.s = [PonBench(@, VistasBench[i]) EXCEPT !.bench.i = i, !.bench.fase = 0]]
  <2> DEFINE v == VistasBench[i]
             m == modo(v)
             A == SetMode(E, m)
             T == PonBench(A.s, v)
             U == [T EXCEPT !.bench.i = i]
  <2>1. v \in {"ciudad", "centro", "cerca", "a_pie"} /\ i \in Nat
    BY <1>0, <1>4 DEF VistasBench
  <2>2. m \in {"walk", "orbit"}
    OBVIOUS
  <2>3. /\ Sesion(A) /\ MismaSesion(E, A)
        /\ Solo(E.s, A.s, DePose) /\ Solo(E.x, A.x, {"boton"})
    BY <2>2, SesionModo
  <2>4. DOMAIN R = {"s", "m", "x"} /\ R.x = A.x /\ R.s = [U EXCEPT !.bench.fase = 0]
    BY <1>4, <2>3 DEF Sesion
  <2> HIDE DEF R, A, m, v, i
  <2>5. Solo(A.s, T, DeVista)
    BY <2>1, <2>3, SoloPose, CamposSon DEF Sesion, DePose
  <2> DEFINE B == [A EXCEPT !.s = T]
  <2>6. DOMAIN B = {"s", "m", "x"} /\ B.s = T /\ B.x = A.x
    BY <2>3 DEF Sesion
  <2> HIDE DEF B, T
  <2>7. Sesion(B) /\ MismaSesion(A, B)
    BY <2>3, <2>5, <2>6, MueveVista DEF DeTransito
  <2> DEFINE C == [B EXCEPT !.s = U]
  <2>8. DOMAIN T.bench = {"activo", "i", "fase", "guardado"} /\ DOMAIN T = Campos
    BY <2>6, <2>7 DEF Sesion, NucleoOK
  <2>9. DOMAIN C = {"s", "m", "x"} /\ C.s = U /\ C.x = B.x
    BY <2>6
  <2>10. /\ Solo(T, U, {"bench"}) /\ DOMAIN U.bench = DOMAIN T.bench /\ U.bench.i = i
         /\ U.bench.activo = T.bench.activo /\ U.bench.guardado = T.bench.guardado
    BY <2>8, CamposSon DEF Solo
  <2> HIDE DEF C, U
  <2>11. OtroPaso(B, C)
    BY <2>1, <2>6, <2>9, <2>10 DEF OtroPaso
  <2>12. /\ Solo(U, R.s, {"bench"}) /\ DOMAIN R.s.bench = DOMAIN U.bench /\ R.s.bench.i = U.bench.i
         /\ R.s.bench.activo = U.bench.activo /\ R.s.bench.guardado = U.bench.guardado
    BY <2>4, <2>8, <2>10, CamposSon DEF Solo
  <2>13. OtroPaso(C, R)
    BY <2>1, <2>4, <2>6, <2>9, <2>10, <2>12 DEF OtroPaso
  <2>14. Sesion(R)
    BY <2>7, <2>11, <2>13, SesionPaso
  <2>15. Solo(E.s, R.s, DePose \cup {"bench"})
    <3>1. Solo(E.s, T, DePose \cup DeVista)
      BY <2>3, <2>5, SoloTrans
    <3>2. Solo(E.s, U, (DePose \cup DeVista) \cup {"bench"})
      BY <2>10, <3>1, SoloTrans
    <3>3. Solo(E.s, R.s, ((DePose \cup DeVista) \cup {"bench"}) \cup {"bench"})
      BY <2>12, <3>2, SoloTrans
    <3>4. QED
      BY <3>3, SoloMas DEF DePose
  <2>16. R.s.bench.activo = b.activo /\ R.s.bench.guardado = b.guardado
    BY <2>3, <2>6, <2>7, <2>10, <2>12 DEF MismaSesion
  <2>17. R.x.foto = E.x.foto /\ Solo(E.x, R.x, {"boton"})
    BY <2>3, <2>4 DEF Sesion, Solo, CamposExt
  <2>18. Medida(E, R)
    BY <1>4, <2>16 DEF Medida
  <2>19. QED
    BY <2>14, <2>15, <2>17, <2>18 DEF R
<1>5. Len(VistasBench) = 4
  BY DEF VistasBench
<1>6. ~(i > Len(VistasBench)) => i <= Len(VistasBench)
  BY <1>0, <1>5
<1>7. \/ R = E
      \/ b.activo /\ R = BenchFin(E)
      \/ b.activo /\ R = [E EXCEPT !.s.bench.fase = @ + 1]
      \/ /\ b.activo /\ i <= Len(VistasBench)
         /\ R = [SetMode(E, modo(VistasBench[i])) EXCEPT !.s = [PonBench(@, VistasBench[i]) EXCEPT !.bench.i = i, !.bench.fase = 0]]
  BY <1>0, <1>6 DEF BenchFrame
<1>8. QED
  BY <1>1, <1>2, <1>3, <1>4, <1>7

(***************************************************************************)
(* The frames.                                                             *)
(***************************************************************************)
\* What the storm, the photo, the sound and the errands change of the core.
DeCuadro == DeVista \cup {"visibles", "luz", "niebla"}

\* The photo moves the camera and hides what is drawn over the city.
LEMMA FotoMueve ==
    ASSUME NEW S, "mode" \in DOMAIN S, NEW X, NEW rotulos, NEW b
    PROVE  LET R == CuadroFoto(X, S, rotulos, b) IN DOMAIN R = {"x", "s"} /\ Solo(S, R.s, DeVista \cup {"visibles"})
<1>1. DOMAIN OcultaEtiquetas(X, S, rotulos) = {"x", "s"} /\ Solo(S, OcultaEtiquetas(X, S, rotulos).s, {"visibles"})
  BY DEF OcultaEtiquetas, Solo
<1> DEFINE limpia == IF b THEN OcultaEtiquetas(X, S, rotulos) ELSE [x |-> X, s |-> S]
           sin == [limpia.s EXCEPT !.visibles = @ \ limpia.x.foto.objetos]
<1>2. Solo(S, limpia.s, {"visibles"})
  BY <1>1, SoloNada
<1>3. CuadroFoto(X, S, rotulos, b) = IF ~X.foto.activo THEN [x |-> X, s |-> S] ELSE [x |-> limpia.x, s |-> Travelling(X, sin)]
  BY DEF CuadroFoto
<1>4. Solo(limpia.s, sin, {"visibles"})
  BY DEF Solo
<1> HIDE DEF limpia
<1>5. Solo(S, sin, {"visibles"} \cup {"visibles"})
  BY <1>2, <1>4, SoloTrans
<1> HIDE DEF sin
<1>6. "mode" \in DOMAIN sin
  BY <1>5 DEF Solo
<1>7. Solo(sin, Travelling(X, sin), DeVista)
  BY <1>6, SoloPose
<1>8. Solo(S, Travelling(X, sin), ({"visibles"} \cup {"visibles"}) \cup DeVista)
  BY <1>5, <1>7, SoloTrans
<1>9. Solo(S, Travelling(X, sin), DeVista \cup {"visibles"})
  BY <1>8, SoloMas
<1>10. Solo(S, S, DeVista \cup {"visibles"})
  BY SoloNada
<1>11. QED
  BY <1>3, <1>9, <1>10

\* The errands move the camera.
LEMMA MemoriaMueve ==
    ASSUME NEW S, "mode" \in DOMAIN S, NEW M
    PROVE  LET R == MemCuadro(M, S, 1) IN DOMAIN R = {"m", "s"} /\ Solo(S, R.s, DeVista)
<1>1. ASSUME NEW W PROVE LET R == BuscaHueco(W, S) IN DOMAIN R = {"m", "s"} /\ (R.s = S \/ \E a, e : R.s = Vuela(a, S, e))
  BY DEF BuscaHueco
<1>2. QED
  BY <1>1, SoloPose, SoloNada DEF MemCuadro

\* A frame of the modules leaves the light attenuated once when the frame has
\* begun without fog.
LEMMA SesionCuadro ==
    ASSUME NEW E, Sesion(E), NEW f, t \in 0..MaxT
    PROVE  LET R == EmitirCuadro(E, f)
           IN /\ Sesion(R) /\ MismaSesion(E, R)
              /\ Solo(E.s, R.s, DeCuadro) /\ Solo(E.x, R.x, CamposExt)
              /\ E.s.niebla = FALSE => Atenuada(R.s, R.x)
<1> DEFINE r == CuadroTormenta(E.x, E.s, t)
           A == Deja(E, r)
           q == CuadroFoto(A.x, A.s, Escena(A.m), f.decimosexto)
           B == Deja(A, q)
           C == Sonido(B)
           p == MemCuadro(C.m, C.s, 1)
           D == Deja(C, p)
           R == Segundo(D, f)
<1>1. EmitirCuadro(E, f) = R
  BY DEF EmitirCuadro, CuadroMemoria, CuadroExtras, Foto
<1>2. /\ DOMAIN r = {"s", "x"}
      /\ Solo(E.x, r.x, {"tormenta"}) /\ Solo(E.s, r.s, {"luz", "niebla"})
      /\ SonidoOK(r.x) /\ TormentaOK(r.s, r.x) /\ r.s.luz \in Luces
      /\ E.s.niebla = FALSE => Atenuada(r.s, r.x)
  BY CuadroTormentaIs DEF Sesion, NucleoOK
<1> HIDE DEF r
<1>3. DOMAIN A = {"s", "m", "x"} /\ A.s = r.s /\ A.x = r.x /\ A.m = E.m
  BY <1>2 DEF Deja, Sesion
<1> HIDE DEF A
<1>4. Sesion(A) /\ MismaSesion(E, A)
  <2>1. \A n \in {"ready", "xr", "raf", "mode", "hour", "bench", "city", "quality", "pendingFlight"} : A.s[n] = E.s[n]
    BY <1>2, <1>3, CamposSon DEF Sesion, Solo, DePose
  <2>2. /\ A.s.ready = E.s.ready /\ A.s.xr = E.s.xr /\ A.s.raf = E.s.raf /\ A.s.mode = E.s.mode /\ A.s.hour = E.s.hour
        /\ A.s.bench = E.s.bench /\ A.s.city = E.s.city /\ A.s.quality = E.s.quality /\ A.s.pendingFlight = E.s.pendingFlight
    BY <2>1
  <2>3. NucleoOK(A.s)
    BY <1>2, <1>3, <2>2 DEF NucleoOK, Sesion
  <2>4. A.x.foto = E.x.foto /\ DOMAIN A.x = CamposExt /\ DOMAIN A.s = Campos
    BY <1>2, <1>3 DEF Sesion, Solo, CamposExt
  <2>5. QED
    BY <1>2, <1>3, <2>2, <2>3, <2>4 DEF Sesion, FotoOK, MismaSesion
<1>5. DOMAIN q = {"x", "s"} /\ Solo(A.s, q.s, DeVista \cup {"visibles"})
  BY <1>4, FotoMueve, CamposSon DEF Sesion, DePose
<1>6. /\ Solo(A.x, q.x, DeFoto) /\ SonidoOK(q.x) /\ FotoOK(q.x)
      /\ q.x.foto.activo = A.x.foto.activo /\ q.x.foto.guardado = A.x.foto.guardado
  BY <1>4, CambiaFoto DEF Sesion
<1> HIDE DEF q
<1>7. DOMAIN B = {"s", "m", "x"} /\ B.s = q.s /\ B.x = q.x
  BY <1>4, <1>5 DEF Deja, Sesion
<1> HIDE DEF B
<1>8. Sesion(B) /\ MismaSesion(A, B) /\ B.s.luz = A.s.luz /\ B.s.niebla = A.s.niebla /\ B.x.tormenta = A.x.tormenta
  <2>1. \A n \in {"ready", "xr", "raf", "mode", "hour", "bench", "city", "quality", "luz", "niebla", "pendingFlight"} : B.s[n] = A.s[n]
    BY <1>4, <1>5, <1>7, CamposSon DEF Sesion, Solo, DePose, DeVista
  <2>2. /\ B.s.ready = A.s.ready /\ B.s.xr = A.s.xr /\ B.s.raf = A.s.raf /\ B.s.mode = A.s.mode /\ B.s.hour = A.s.hour
        /\ B.s.bench = A.s.bench /\ B.s.city = A.s.city /\ B.s.quality = A.s.quality /\ B.s.luz = A.s.luz /\ B.s.niebla = A.s.niebla
        /\ B.s.pendingFlight = A.s.pendingFlight
    BY <2>1
  <2>3. NucleoOK(B.s)
    BY <1>4, <2>2 DEF NucleoOK, Sesion
  <2>4. B.x.tormenta = A.x.tormenta /\ DOMAIN B.x = CamposExt /\ DOMAIN B.s = Campos
    BY <1>4, <1>5, <1>6, <1>7 DEF Sesion, Solo, CamposExt, DeFoto
  <2>5. TormentaOK(B.s, B.x)
    BY <1>4, <2>2, <2>4 DEF Sesion, TormentaOK
  <2>6. QED
    BY <1>6, <1>7, <2>2, <2>3, <2>4, <2>5 DEF Sesion, MismaSesion
<1>9. /\ DOMAIN C = {"s", "m", "x"} /\ C.s = B.s /\ Solo(B.x, C.x, DeSonido) /\ SonidoOK(C.x)
  BY <1>8, CambiaSonido DEF Sonido, Sesion
<1> HIDE DEF C
<1>10. Sesion(C) /\ MismaSesion(B, C)
  BY <1>8, <1>9, MueveSonido
<1>11. DOMAIN p = {"m", "s"} /\ Solo(C.s, p.s, DeVista)
  BY <1>10, MemoriaMueve, CamposSon DEF Sesion, DePose
<1> HIDE DEF p
<1>12. DOMAIN D = {"s", "m", "x"} /\ D.s = p.s /\ D.x = C.x
  BY <1>10, <1>11 DEF Deja, Sesion
<1> HIDE DEF D
<1>13. Sesion(D) /\ MismaSesion(C, D)
  BY <1>10, <1>11, <1>12, MueveVista DEF DeTransito
<1>14. DOMAIN R = {"s", "m", "x"} /\ R.s = D.s /\ R.x = D.x
  BY <1>13 DEF Segundo, Sesion
<1> HIDE DEF R
<1>15. Sesion(R) /\ MismaSesion(E, R)
  BY <1>4, <1>8, <1>10, <1>13, <1>14 DEF Sesion, MismaSesion
<1>16. Solo(E.s, R.s, DeCuadro)
  <2>1. Solo(E.s, B.s, {"luz", "niebla"} \cup (DeVista \cup {"visibles"}))
    BY <1>2, <1>3, <1>5, <1>7, SoloTrans
  <2>2. Solo(E.s, R.s, ({"luz", "niebla"} \cup (DeVista \cup {"visibles"})) \cup DeVista)
    BY <1>9, <1>11, <1>12, <1>14, <2>1, SoloTrans
  <2>3. QED
    BY <2>2, SoloMas DEF DeCuadro
<1>17. Solo(E.x, R.x, CamposExt)
  BY <1>15 DEF Sesion, Solo
<1>18. E.s.niebla = FALSE => Atenuada(R.s, R.x)
  <2>1. R.s.luz = B.s.luz /\ R.s.niebla = B.s.niebla
    BY <1>8, <1>9, <1>11, <1>12, <1>14, CamposSon DEF Solo, DeVista, Sesion
  <2>2. R.x.tormenta = B.x.tormenta
    BY <1>8, <1>9, <1>12, <1>14 DEF Solo, DeSonido, CamposExt, Sesion
  <2>3. QED
    BY <1>2, <1>3, <1>8, <2>1, <2>2 DEF Atenuada
<1>19. QED
  BY <1>1, <1>15, <1>16, <1>17, <1>18

\* A frame on the screen.
LEMMA SesionPinta ==
    ASSUME NEW E, Sesion(E), NEW f, t \in 0..MaxT
    PROVE  LET R == Pinta(E, f)
           IN /\ Sesion(R) /\ MismaSesion(E, R) /\ Atenuada(R.s, R.x)
              /\ Solo(E.s, R.s, DeCuadro)
<1> DEFINE A == Mira(E, f)
           B == Sol(A, f)
           C == EmitirCuadro(B, f)
           D == CullLabels(C, f)
           R == [D EXCEPT !.x = TrasPintar(@)]
           T == UpdateCamera(E.s, f.llega, f.mov)
<1>1. Pinta(E, f) = R
  BY DEF Pinta
<1>2. DOMAIN A = {"s", "m", "x"} /\ A.s = [T EXCEPT !.niebla = FALSE] /\ A.x = E.x
  BY DEF Mira, Sesion
<1>3. Solo(E.s, T, DeVista)
  BY SoloCamara, CamposSon DEF Sesion, DePose
<1> HIDE DEF A, T
<1>4. Solo(T, A.s, {"niebla"}) /\ A.s.niebla = FALSE
  BY <1>2, <1>3, CamposSon DEF Solo, Sesion
<1>5. Solo(E.s, A.s, DeVista \cup {"niebla"})
  BY <1>3, <1>4, SoloTrans
<1>6. Sesion(A) /\ MismaSesion(E, A)
  BY <1>2, <1>5, MueveVista DEF DeTransito
<1>7. Sesion(B) /\ MismaSesion(A, B) /\ Solo(A.s, B.s, {"luz"})
  BY <1>6, SesionSol, SoloNada DEF Sol, MismaSesion
<1> HIDE DEF B
<1>8. B.s.niebla = FALSE
  BY <1>4, <1>6, <1>7, CamposSon DEF Solo, Sesion
<1>9. Sesion(C) /\ MismaSesion(B, C) /\ Solo(B.s, C.s, DeCuadro) /\ Atenuada(C.s, C.x)
  BY <1>7, <1>8, SesionCuadro
<1> HIDE DEF C
<1>10. DOMAIN D = {"s", "m", "x"} /\ D.s = C.s /\ D.x = C.x
  BY <1>9 DEF CullLabels, Sesion
<1> HIDE DEF D
<1>11. DOMAIN R = {"s", "m", "x"} /\ R.s = C.s /\ R.x = TrasPintar(C.x)
  BY <1>10
<1> HIDE DEF R
<1>12. /\ Solo(C.x, R.x, DeFoto) /\ SonidoOK(R.x) /\ FotoOK(R.x)
       /\ R.x.foto.activo = C.x.foto.activo /\ R.x.foto.guardado = C.x.foto.guardado
  BY <1>9, <1>11, CambiaFoto DEF Sesion
<1>13. R.x.tormenta = C.x.tormenta /\ DOMAIN R.x = CamposExt
  BY <1>9, <1>12 DEF Solo, Sesion, DeFoto, CamposExt
<1>14. Sesion(R) /\ MismaSesion(C, R) /\ Atenuada(R.s, R.x)
  BY <1>9, <1>11, <1>12, <1>13 DEF Sesion, MismaSesion, TormentaOK, Atenuada
<1>15. MismaSesion(E, R)
  BY <1>6, <1>7, <1>9, <1>14 DEF MismaSesion
<1>16. Solo(E.s, R.s, DeCuadro)
  <2>1. Solo(E.s, B.s, (DeVista \cup {"niebla"}) \cup {"luz"})
    BY <1>5, <1>7, SoloTrans
  <2>2. Solo(E.s, C.s, ((DeVista \cup {"niebla"}) \cup {"luz"}) \cup DeCuadro)
    BY <1>9, <2>1, SoloTrans
  <2>3. ((DeVista \cup {"niebla"}) \cup {"luz"}) \cup DeCuadro \subseteq DeCuadro
    BY DEF DeCuadro
  <2>4. QED
    BY <1>11, <2>2, <2>3, SoloMas
<1>17. QED
  BY <1>1, <1>14, <1>15, <1>16

\* A turn of the loop.
LEMMA SesionLazo ==
    ASSUME NEW E, Sesion(E), NEW f, t \in 0..MaxT
    PROVE  LET R == Cuadro(E, f)
           IN /\ Sesion(R) /\ Medida(E, R) /\ R.x.foto.activo = E.x.foto.activo /\ R.x.foto.guardado = E.x.foto.guardado
              /\ Solo(E.s, R.s, DePose \cup DeCuadro \cup {"bench"})
              /\ R.s.ready => Atenuada(R.s, R.x)
<1> DEFINE A == IF E.s.ready THEN Pinta(E, f) ELSE E
           R == BenchFrame(A, f.pasa)
<1>1. Cuadro(E, f) = R
  BY DEF Cuadro
<1>2. Sesion(A) /\ MismaSesion(E, A) /\ Solo(E.s, A.s, DeCuadro) /\ (E.s.ready => Atenuada(A.s, A.x))
  <2>1. MismaSesion(E, E) /\ Solo(E.s, E.s, DeCuadro)
    BY SoloNada DEF MismaSesion
  <2>2. QED
    BY <2>1, SesionPinta
<1> HIDE DEF A
<1>3. /\ Sesion(R) /\ R.x.foto = A.x.foto /\ Medida(A, R)
      /\ Solo(A.s, R.s, DePose \cup {"bench"}) /\ Solo(A.x, R.x, {"boton"})
  BY <1>2, SesionBench
<1> HIDE DEF R
<1>4. /\ R.s.luz = A.s.luz /\ R.s.niebla = A.s.niebla /\ R.s.ready = E.s.ready
      /\ R.x.tormenta = A.x.tormenta
  <2>1. R.s.luz = A.s.luz /\ R.s.niebla = A.s.niebla /\ R.s.ready = A.s.ready
    BY <1>2, <1>3, CamposSon DEF Solo, Sesion, DePose, DeVista
  <2>2. A.s.ready = E.s.ready
    BY <1>2, CamposSon DEF Solo, Sesion, DeCuadro, DeVista
  <2>3. QED
    BY <1>2, <1>3, <2>1, <2>2 DEF Solo, Sesion, CamposExt
<1>5. R.s.ready => Atenuada(R.s, R.x)
  BY <1>2, <1>4 DEF Atenuada
<1>6. Medida(E, R)
  BY <1>2, <1>3 DEF Medida, MismaSesion
<1>7. Solo(E.s, R.s, DePose \cup DeCuadro \cup {"bench"})
  <2>1. Solo(E.s, R.s, DeCuadro \cup (DePose \cup {"bench"}))
    BY <1>2, <1>3, SoloTrans
  <2>2. QED
    BY <2>1, SoloMas
<1>8. QED
  BY <1>1, <1>2, <1>3, <1>5, <1>6, <1>7 DEF MismaSesion

\* A frame in the headset.
LEMMA SesionGafas ==
    ASSUME NEW E, Sesion(E), NEW f, t \in 0..MaxT
    PROVE  LET R == XrFrame(E, f) IN Sesion(R) /\ MismaSesion(E, R) /\ Solo(E.s, R.s, DeCuadro \cup DeMarcas)
<1> DEFINE A == [E EXCEPT !.s = XrInput(@, <<E.s.rig.pos[1] + f.mov[1], E.s.rig.pos[2] + f.mov[2]>>, 0)]
           B == EmitirCuadro(A, f)
           R == Sol(B, f)
<1>1. XrFrame(E, f) = R
  BY DEF XrFrame
<1>2. DOMAIN A = {"s", "m", "x"} /\ A.x = E.x /\ Solo(E.s, A.s, DeMarcas)
  BY SoloMarcas DEF Sesion
<1> HIDE DEF A
<1>3. Sesion(A) /\ MismaSesion(E, A)
  BY <1>2, MueveVista DEF DeTransito
<1>4. Sesion(B) /\ MismaSesion(A, B) /\ Solo(A.s, B.s, DeCuadro)
  BY <1>3, SesionCuadro
<1> HIDE DEF B
<1>5. Sesion(R) /\ MismaSesion(B, R) /\ Solo(B.s, R.s, {"luz"})
  BY <1>4, SesionSol, SoloNada DEF Sol, MismaSesion
<1> HIDE DEF R
<1>6. Solo(E.s, R.s, DeCuadro \cup DeMarcas)
  <2>1. Solo(E.s, B.s, DeMarcas \cup DeCuadro)
    BY <1>2, <1>4, SoloTrans
  <2>2. Solo(E.s, R.s, (DeMarcas \cup DeCuadro) \cup {"luz"})
    BY <1>5, <2>1, SoloTrans
  <2>3. QED
    BY <2>2, SoloMas DEF DeCuadro
<1>7. QED
  BY <1>1, <1>3, <1>4, <1>5, <1>6 DEF MismaSesion

(***************************************************************************)
(* What the panel asks of the session.                                     *)
(***************************************************************************)
\* The change of quality, of city, of hour and of the loop.
LEMMA SesionPanel ==
    ASSUME NEW E, Sesion(E), t \in 0..MaxT
    PROVE  /\ \A q \in DOMAIN Fraccion : LET R == [E EXCEPT !.s = SetQuality(@, q)] IN Sesion(R) /\ MismaSesion(E, R)
           /\ \A d \in Ciudades : LET R == [E EXCEPT !.s = SetCity(@, d)] IN Sesion(R) /\ MismaSesion(E, R)
           /\ \A h \in Horas \cup {Nada} : LET R == UpdateSun([E EXCEPT !.s.hour = h]) IN Sesion(R) /\ MismaSesion(E, R)
           /\ \A b : LET R == [E EXCEPT !.s = SetVisible(@, b)] IN Sesion(R) /\ MismaSesion(E, R)
           /\ \A b : LET R == [E EXCEPT !.s = Visibility(@, b), !.x = VisibilidadSonido(@, b)] IN Sesion(R) /\ MismaSesion(E, R)
           /\ LET R == [E EXCEPT !.s = RestoreDesktop(@)] IN Sesion(R) /\ MismaSesion(E, R)
<1> DEFINE Pasa(R, F) == DOMAIN R = {"s", "m", "x"} /\ R.x = E.x /\ Solo(E.s, R.s, F) /\ NucleoOK(R.s)
<1>1. ASSUME NEW R, NEW F, Pasa(R, F), "luz" \notin F, "bench" \notin F PROVE Sesion(R) /\ MismaSesion(E, R)
  <2>1. R.s.luz = E.s.luz /\ R.s.bench = E.s.bench /\ DOMAIN R.s = Campos
    BY <1>1, CamposSon DEF Solo, Sesion
  <2>2. QED
    BY <1>1, <2>1 DEF Sesion, MismaSesion, TormentaOK
<1> HIDE DEF Pasa
<1>2. ASSUME NEW q \in DOMAIN Fraccion PROVE LET R == [E EXCEPT !.s = SetQuality(@, q)] IN Sesion(R) /\ MismaSesion(E, R)
  <2> DEFINE R == [E EXCEPT !.s = SetQuality(@, q)]
  <2>1. DOMAIN R = {"s", "m", "x"} /\ R.x = E.x /\ R.s = SetQuality(E.s, q)
    BY DEF Sesion
  <2>2. Solo(E.s, R.s, DeSolidos \cup {"quality"})
    BY <2>1, SoloCiudad
  <2>3. R.s.quality = q
    <3> DEFINE T == [E.s EXCEPT !.quality = q]
    <3>1. T.quality = q /\ DOMAIN T = Campos
      BY CamposSon DEF Sesion
    <3>2. R.s = T \/ R.s = BuildClusters(T)
      BY <2>1 DEF SetQuality
    <3> HIDE DEF T
    <3>3. BuildClusters(T).quality = T.quality
      BY <3>1, SoloCiudad, CamposSon DEF Solo, DeSolidos
    <3>4. QED
      BY <3>1, <3>2, <3>3
  <2> HIDE DEF R
  <2>4. \A n \in {"ready", "xr", "raf", "mode", "luz", "hour", "bench", "city", "pendingFlight"} : R.s[n] = E.s[n]
    BY <2>2, CamposSon DEF Sesion, Solo, DeSolidos, DePose
  <2>5. /\ R.s.ready = E.s.ready /\ R.s.xr = E.s.xr /\ R.s.raf = E.s.raf /\ R.s.mode = E.s.mode /\ R.s.luz = E.s.luz /\ R.s.hour = E.s.hour
        /\ R.s.bench = E.s.bench /\ R.s.city = E.s.city /\ R.s.pendingFlight = E.s.pendingFlight
    BY <2>4
  <2>6. NucleoOK(R.s)
    BY <2>3, <2>5 DEF NucleoOK, Sesion
  <2>7. QED
    BY <1>1, <2>1, <2>2, <2>6 DEF Pasa, DeSolidos, R
<1>3. ASSUME NEW d \in Ciudades PROVE LET R == [E EXCEPT !.s = SetCity(@, d)] IN Sesion(R) /\ MismaSesion(E, R)
  <2> DEFINE R == [E EXCEPT !.s = SetCity(@, d)]
  <2>1. DOMAIN R = {"s", "m", "x"} /\ R.x = E.x /\ R.s = SetCity(E.s, d)
    BY DEF Sesion
  <2>2. Solo(E.s, R.s, {"city", "pending"})
    BY <2>1, SoloLazo
  <2>3. R.s.city = d
    BY <2>1, CamposSon DEF SetCity, Sesion
  <2> HIDE DEF R
  <2>4. \A n \in {"ready", "xr", "raf", "mode", "luz", "hour", "bench", "quality", "pendingFlight"} : R.s[n] = E.s[n]
    BY <2>2, CamposSon DEF Sesion, Solo, DePose
  <2>5. /\ R.s.ready = E.s.ready /\ R.s.xr = E.s.xr /\ R.s.raf = E.s.raf /\ R.s.mode = E.s.mode /\ R.s.luz = E.s.luz /\ R.s.hour = E.s.hour
        /\ R.s.bench = E.s.bench /\ R.s.quality = E.s.quality /\ R.s.pendingFlight = E.s.pendingFlight
    BY <2>4
  <2>6. NucleoOK(R.s)
    BY <2>3, <2>5 DEF NucleoOK, Sesion
  <2>7. QED
    BY <1>1, <2>1, <2>2, <2>6 DEF Pasa, R
<1>4. ASSUME NEW h \in Horas \cup {Nada} PROVE LET R == UpdateSun([E EXCEPT !.s.hour = h]) IN Sesion(R) /\ MismaSesion(E, R)
  <2> DEFINE A == [E EXCEPT !.s.hour = h]
  <2>1. DOMAIN A = {"s", "m", "x"} /\ A.x = E.x /\ A.s = [E.s EXCEPT !.hour = h]
    BY DEF Sesion
  <2>2. Solo(E.s, A.s, {"hour"}) /\ A.s.hour = h
    BY <2>1, CamposSon DEF Solo, Sesion
  <2> HIDE DEF A
  <2>4. \A n \in {"ready", "xr", "raf", "mode", "luz", "city", "bench", "quality", "pendingFlight"} : A.s[n] = E.s[n]
    BY <2>2, CamposSon DEF Sesion, Solo, DePose
  <2>5. /\ A.s.ready = E.s.ready /\ A.s.xr = E.s.xr /\ A.s.raf = E.s.raf /\ A.s.mode = E.s.mode /\ A.s.luz = E.s.luz /\ A.s.city = E.s.city
        /\ A.s.bench = E.s.bench /\ A.s.quality = E.s.quality /\ A.s.pendingFlight = E.s.pendingFlight
    BY <2>4
  <2>6. NucleoOK(A.s)
    BY <2>2, <2>5 DEF NucleoOK, Sesion
  <2>7. Sesion(A) /\ MismaSesion(E, A)
    BY <1>1, <2>1, <2>2, <2>6 DEF Pasa
  <2>8. Sesion(UpdateSun(A)) /\ MismaSesion(A, UpdateSun(A))
    BY <2>7, SesionSol
  <2>9. QED
    BY <2>7, <2>8, MismaTrans DEF A
<1>5. ASSUME NEW S, Solo(E.s, S, {"visible", "docHidden", "raf"}), S.raf => ~S.xr PROVE NucleoOK(S)
  <2>4. \A n \in {"ready", "xr", "hour", "mode", "luz", "city", "bench", "quality", "pendingFlight"} : S[n] = E.s[n]
    BY <1>5, CamposSon DEF Sesion, Solo, DePose
  <2>5. /\ S.ready = E.s.ready /\ S.xr = E.s.xr /\ S.hour = E.s.hour /\ S.mode = E.s.mode /\ S.luz = E.s.luz /\ S.city = E.s.city
        /\ S.bench = E.s.bench /\ S.quality = E.s.quality /\ S.pendingFlight = E.s.pendingFlight
    BY <2>4
  <2>6. QED
    BY <1>5, <2>5 DEF NucleoOK, Sesion
<1>6. ASSUME NEW b PROVE LET R == [E EXCEPT !.s = SetVisible(@, b)] IN Sesion(R) /\ MismaSesion(E, R)
  <2> DEFINE R == [E EXCEPT !.s = SetVisible(@, b)]
  <2>1. DOMAIN R = {"s", "m", "x"} /\ R.x = E.x /\ R.s = SetVisible(E.s, b)
    BY DEF Sesion
  <2>2. R.s.raf => ~R.s.xr
    BY <2>1, CamposSon DEF SetVisible, SyncLoop, Sesion
  <2>3. Solo(E.s, R.s, {"visible", "raf"})
    BY <2>1, SoloLazo
  <2> HIDE DEF R
  <2>4. Solo(E.s, R.s, {"visible", "docHidden", "raf"})
    BY <2>3, SoloMas
  <2>5. QED
    BY <1>1, <1>5, <2>1, <2>2, <2>4 DEF Pasa, R
<1>7. ASSUME NEW b PROVE LET R == [E EXCEPT !.s = Visibility(@, b), !.x = VisibilidadSonido(@, b)] IN Sesion(R) /\ MismaSesion(E, R)
  <2> DEFINE A == [E EXCEPT !.s = Visibility(@, b)]
             R == [A EXCEPT !.x = VisibilidadSonido(@, b)]
  <2>1. DOMAIN A = {"s", "m", "x"} /\ A.x = E.x /\ A.s = Visibility(E.s, b)
    BY DEF Sesion
  <2>2. A.s.raf => ~A.s.xr
    BY <2>1, CamposSon DEF Visibility, SyncLoop, Sesion
  <2>3. Solo(E.s, A.s, {"docHidden", "raf"})
    BY <2>1, SoloLazo
  <2> HIDE DEF A
  <2>4. Solo(E.s, A.s, {"visible", "docHidden", "raf"})
    BY <2>3, SoloMas
  <2>5. Sesion(A) /\ MismaSesion(E, A)
    BY <1>1, <1>5, <2>1, <2>2, <2>4 DEF Pasa
  <2>6. DOMAIN R = {"s", "m", "x"} /\ R.s = A.s /\ R.x = VisibilidadSonido(A.x, b)
    BY <2>1
  <2> HIDE DEF R
  <2>7. Sesion(R) /\ MismaSesion(A, R)
    BY <2>5, <2>6, CambiaSonido, MueveSonido DEF Sesion
  <2>8. [E EXCEPT !.s = Visibility(@, b), !.x = VisibilidadSonido(@, b)] = R
    BY DEF R, A
  <2>9. QED
    BY <2>5, <2>7, <2>8, MismaTrans
<1>8. LET R == [E EXCEPT !.s = RestoreDesktop(@)] IN Sesion(R) /\ MismaSesion(E, R)
  <2> DEFINE R == [E EXCEPT !.s = RestoreDesktop(@)]
  <2>1. DOMAIN R = {"s", "m", "x"} /\ R.x = E.x /\ R.s = RestoreDesktop(E.s)
    BY DEF Sesion
  <2>2. R.s.xr = FALSE /\ R.s.mode = "walk"
    BY <2>1, CamposSon DEF RestoreDesktop, SyncLoop, Sesion, DePose, DeVista
  <2>3. Solo(E.s, R.s, DePose \cup {"xr", "rig", "raf"})
    BY <2>1, SoloLazo
  <2> HIDE DEF R
  <2>4. \A n \in {"ready", "hour", "luz", "city", "bench", "quality", "pendingFlight"} : R.s[n] = E.s[n]
    BY <2>3, CamposSon DEF Sesion, Solo, DePose, DeVista
  <2>5. /\ R.s.ready = E.s.ready /\ R.s.hour = E.s.hour /\ R.s.luz = E.s.luz /\ R.s.city = E.s.city
        /\ R.s.bench = E.s.bench /\ R.s.quality = E.s.quality /\ R.s.pendingFlight = E.s.pendingFlight
    BY <2>4
  <2>6. NucleoOK(R.s)
    BY <2>2, <2>5 DEF NucleoOK, Sesion
  <2>7. QED
    BY <1>1, <2>1, <2>3, <2>6 DEF Pasa, DePose, DeVista, R
<1>9. QED
  BY <1>2, <1>3, <1>4, <1>6, <1>7, <1>8

(***************************************************************************)
(* The session: its invariant and the properties that follow from it.      *)
(***************************************************************************)
InvSesion == Sesion(Todo) /\ t \in 0..MaxT /\ PoseGuardada(s, ext, antes) /\ StormDarkensOnce /\ DOMAIN paso = {"que", "n"}

\* A step that neither begins nor ends the photo or the measure.
Sigue == Sesion(Todo)' /\ s'.bench = s.bench /\ ext'.foto.activo = ext.foto.activo /\ ext'.foto.guardado = ext.foto.guardado

LEMMA TodoSon == Todo.s = s /\ Todo.m = mem /\ Todo.x = ext /\ DOMAIN Todo = {"s", "m", "x"}
BY DEF Todo

LEMMA PonSesion ==
    ASSUME NEW R, Sesion(R), Pon(R)
    PROVE  Sesion(Todo)' /\ s' = R.s /\ mem' = R.m /\ ext' = R.x
BY DEF Pon, Sesion, Todo

LEMMA PonSigue ==
    ASSUME NEW R, Sesion(R), MismaSesion(Todo, R), Pon(R)
    PROVE  Sigue
BY PonSesion, TodoSon DEF Sigue, MismaSesion

\* The first gesture on the page.
LEMMA SesionGesto ==
    ASSUME NEW E, Sesion(E), NEW b
    PROVE  LET R == ConGesto(E, b)
           IN /\ Sesion(R) /\ MismaSesion(E, R) /\ R.s = E.s /\ R.m = E.m /\ Solo(E.x, R.x, DeSonido)
              /\ b = "sonido" => R.x.boton = E.x.boton /\ R.x.disco = E.x.disco
<1> DEFINE R == ConGesto(E, b)
<1>1. DOMAIN R = {"s", "m", "x"} /\ R.s = E.s /\ R.m = E.m /\ R.x = PrimerGesto(E.x, b)
  BY DEF ConGesto, Sesion
<1> HIDE DEF R
<1>2. Solo(E.x, R.x, DeSonido) /\ SonidoOK(R.x) /\ (b = "sonido" => R.x.boton = E.x.boton /\ R.x.disco = E.x.disco)
  BY <1>1, CambiaGesto DEF Sesion
<1>3. Sesion(R) /\ MismaSesion(E, R)
  BY <1>1, <1>2, MueveSonido
<1>4. QED
  BY <1>1, <1>2, <1>3 DEF R

\* What a gesture does to the core alone, and to the memory alone.
LEMMA TrasGesto ==
    ASSUME NEW E, Sesion(E), NEW b, NEW F, NEW S, Solo(E.s, S, F), F \subseteq DeTransito, NEW M
    PROVE  LET G == ConGesto(E, b)
               R == [G EXCEPT !.s = S]
               U == [G EXCEPT !.s = S, !.m = M]
           IN Sesion(R) /\ MismaSesion(E, R) /\ Sesion(U) /\ MismaSesion(E, U)
<1> DEFINE G == ConGesto(E, b)
           R == [G EXCEPT !.s = S]
           U == [R EXCEPT !.m = M]
<1>1. Sesion(G) /\ MismaSesion(E, G) /\ G.s = E.s
  BY SesionGesto
<1> HIDE DEF G
<1>2. DOMAIN R = {"s", "m", "x"} /\ R.s = S /\ R.x = G.x
  BY <1>1 DEF Sesion
<1> HIDE DEF R
<1>3. DOMAIN U = {"s", "m", "x"} /\ U.s = S /\ U.x = G.x
  BY <1>2
<1> HIDE DEF U
<1>4. Sesion(R) /\ MismaSesion(G, R) /\ Sesion(U) /\ MismaSesion(G, U)
  BY <1>1, <1>2, <1>3, MueveVista
<1>5. QED
  BY <1>1, <1>4, MismaTrans DEF R, U, G

\* Every call but those that end the photo.
LEMMA LlamadaSigue ==
    ASSUME Sesion(Todo), t \in 0..MaxT, Llamada
    PROVE  Sigue \/ SaleDeFoto \/ PonGafas
<1> USE TodoSon
<1>0. s.ready \in BOOLEAN /\ "mode" \in DOMAIN s
  BY CamposSon DEF Sesion, NucleoOK, DePose
<1> DEFINE Mueve(R, F) == DOMAIN R = {"s", "m", "x"} /\ Solo(s, R.s, F) /\ R.x = ext
<1>1. ASSUME NEW R, NEW F, Mueve(R, F), F \subseteq DeTransito, Pon(R) PROVE Sigue
  <2>1. Sesion(R) /\ MismaSesion(Todo, R)
    BY <1>1, MueveVista
  <2>2. QED
    BY <1>1, <2>1, PonSigue
<1>2. DeVista \subseteq DeTransito /\ DeMarcas \subseteq DeTransito /\ DeSolidos \subseteq DeTransito
  BY DEF DeTransito
<1>3. ASSUME NEW d \in Ciudades, PideCiudad(d) PROVE Sigue
  <2> DEFINE A == [Todo EXCEPT !.s = SetCity(@, d)]
  <2>1. Sesion(A) /\ MismaSesion(Todo, A)
    BY SesionPanel
  <2> HIDE DEF A
  <2>2. Sesion(AplicaCiudad(A, d)) /\ MismaSesion(A, AplicaCiudad(A, d))
    BY <2>1, SesionCiudad
  <2>3. MismaSesion(Todo, AplicaCiudad(A, d))
    BY <2>1, <2>2, MismaTrans
  <2>4. Pon(A) \/ Pon(AplicaCiudad(A, d))
    BY <1>3 DEF PideCiudad, A
  <2>5. QED
    BY <2>1, <2>2, <2>3, <2>4, PonSigue
<1>4. ASSUME NEW m \in {"walk", "orbit"}, PideModo(m) PROVE Sigue
  BY <1>4, SesionModo, PonSigue DEF PideModo
<1>5. ASSUME NEW p \in Poses, PidePose(p) PROVE Sigue
  <2> DEFINE A == SetMode(Todo, "walk")
             R == [A EXCEPT !.s = PoseAPie(@, p)]
  <2>1. Sesion(A) /\ MismaSesion(Todo, A)
    BY SesionModo
  <2> HIDE DEF A
  <2>2. DOMAIN R = {"s", "m", "x"} /\ R.s = PoseAPie(A.s, p) /\ R.x = A.x
    BY <2>1 DEF Sesion
  <2>3. Pon(R)
    BY <1>5 DEF PidePose, A
  <2> HIDE DEF R
  <2>4. Solo(A.s, R.s, DeVista)
    BY <2>1, <2>2, SoloPose, CamposSon DEF Sesion, DePose
  <2>5. Sesion(R) /\ MismaSesion(A, R)
    BY <1>2, <2>1, <2>2, <2>4, MueveVista
  <2>6. QED
    BY <2>1, <2>3, <2>5, MismaTrans, PonSigue
<1>6. ASSUME NEW q \in DOMAIN Fraccion, PideCalidad(q) PROVE Sigue
  BY <1>6, SesionPanel, PonSigue DEF PideCalidad
<1>7. ASSUME NEW h \in Horas \cup {Nada}, PideHora(h) PROVE Sigue
  BY <1>7, SesionPanel, PonSigue DEF PideHora
<1>8. ASSUME NEW c, Elige(c) PROVE Sigue
  <2> DEFINE G == ConGesto(Todo, Nada)
             R == [G EXCEPT !.s = DoSelect(s, c, TRUE)]
  <2>1. G.s = s
    BY SesionGesto
  <2>2. Pon(R)
    BY <1>8, <2>1 DEF Elige
  <2>3. Sesion(R) /\ MismaSesion(Todo, R)
    BY <1>2, SoloMarcas, TrasGesto
  <2>4. QED
    BY <2>2, <2>3, PonSigue
<1>9. ASSUME NEW c, Senala(c) PROVE Sigue
  <2> DEFINE R == [Todo EXCEPT !.s = SetHover(@, c)]
  <2>1. Mueve(R, DeMarcas) /\ Pon(R)
    BY <1>9, SoloMarcas DEF Senala
  <2>2. QED
    BY <1>1, <1>2, <2>1
<1>10. ASSUME NEW v \in Vuelos, Pon(Vuela1(Todo, v)) PROVE Sigue
  <2>1. ConDestino(v)
    BY DEF Vuelos, ConDestino
  <2>2. QED
    BY <1>10, <2>1, SesionVuelo, PonSigue
<1>11. ASSUME NEW largo, Ven(largo) PROVE Sigue
  <2> DEFINE G == ConGesto(Todo, Nada)
             M == MarcaSi(G.m, "mirar", largo /\ s.mode = "orbit")
             R == [G EXCEPT !.s = CancelFlight(s), !.m = M]
  <2>1. G.s = s
    BY SesionGesto
  <2>2. Pon(R)
    BY <1>11, <2>1 DEF Ven
  <2>3. Sesion(R) /\ MismaSesion(Todo, R)
    BY <1>0, <1>2, SoloPose, TrasGesto
  <2>4. QED
    BY <2>2, <2>3, PonSigue
<1>12. ASSUME NEW l, Pon([Todo EXCEPT !.s = SetPresence(@, l)]) PROVE Sigue
  <2> DEFINE R == [Todo EXCEPT !.s = SetPresence(@, l)]
  <2>1. Mueve(R, DeMarcas) /\ Pon(R)
    BY <1>12, SoloMarcas
  <2>2. QED
    BY <1>1, <1>2, <2>1
<1>13. ASSUME NEW l, Pon([Todo EXCEPT !.s = SetGhosts(@, l)]) PROVE Sigue
  <2> DEFINE R == [Todo EXCEPT !.s = SetGhosts(@, l)]
  <2>1. Mueve(R, DeMarcas) /\ Pon(R)
    BY <1>13, SoloMarcas
  <2>2. QED
    BY <1>1, <1>2, <2>1
<1> HIDE DEF Mueve
<1>14. ASSUME CamaraLibre PROVE Sigue
  <2> DEFINE A == SetMode(Todo, "walk")
             B == [A EXCEPT !.s = AlturaLibre(@)]
             R == [B EXCEPT !.x = PintaBotones(@)]
  <2>1. Sesion(A) /\ MismaSesion(Todo, A)
    BY SesionModo
  <2>2. [A EXCEPT !.s = AlturaLibre(@), !.x = PintaBotones(@)] = R
    OBVIOUS
  <2>3. Pon(R)
    BY <1>14, <2>2 DEF CamaraLibre
  <2> HIDE DEF A
  <2>4. DOMAIN B = {"s", "m", "x"} /\ B.s = AlturaLibre(A.s) /\ B.x = A.x
    BY <2>1 DEF Sesion
  <2> HIDE DEF B
  <2>5. Solo(A.s, B.s, DeVista)
    BY <2>1, <2>4, SoloPose, CamposSon DEF Sesion, DePose
  <2>6. Sesion(B) /\ MismaSesion(A, B)
    BY <1>2, <2>1, <2>4, <2>5, MueveVista
  <2>7. DOMAIN R = {"s", "m", "x"} /\ R.s = B.s /\ R.x = PintaBotones(B.x)
    BY <2>4
  <2> HIDE DEF R
  <2>8. Solo(B.x, R.x, {"boton"}) /\ SonidoOK(R.x)
    BY <2>6, <2>7, CambiaSonido DEF Sesion
  <2>9. Solo(B.x, R.x, DeSonido)
    BY <2>8, SoloMas DEF DeSonido
  <2>10. Sesion(R) /\ MismaSesion(B, R)
    BY <2>6, <2>7, <2>8, <2>9, MueveSonido
  <2>11. QED
    BY <2>1, <2>3, <2>6, <2>10, MismaTrans, PonSigue
<1>15. ASSUME PideTravelling \/ PideFoto PROVE Sigue
  <2> DEFINE A == [Todo EXCEPT !.x.foto.travelling = ~@]
             B == [Todo EXCEPT !.x.foto.pendiente = TRUE]
  <2>5. Pon(A) \/ Pon(B)
    BY <1>15 DEF PideTravelling, PideFoto
  <2>6. DOMAIN A = {"s", "m", "x"} /\ A.s = s /\ A.x = [ext EXCEPT !.foto.travelling = ~@]
    OBVIOUS
  <2>7. DOMAIN B = {"s", "m", "x"} /\ B.s = s /\ B.x = [ext EXCEPT !.foto.pendiente = TRUE]
    OBVIOUS
  <2> HIDE DEF A, B
  <2>1. PICK R : /\ Pon(R) /\ DOMAIN R = {"s", "m", "x"} /\ R.s = s
                 /\ R.x = [ext EXCEPT !.foto.travelling = ~@] \/ R.x = [ext EXCEPT !.foto.pendiente = TRUE]
    BY <2>5, <2>6, <2>7
  <2>2. /\ Solo(ext, R.x, {"foto"}) /\ DOMAIN R.x.foto = DOMAIN ext.foto
        /\ R.x.foto.activo = ext.foto.activo /\ R.x.foto.guardado = ext.foto.guardado
    BY <2>1 DEF Sesion, Solo, CamposExt, FotoOK, FotoApagada
  <2>3. Sesion(R) /\ MismaSesion(Todo, R)
    BY <2>1, <2>2 DEF Sesion, Solo, CamposExt, FotoOK, SonidoOK, TormentaOK, MismaSesion
  <2>4. QED
    BY <2>1, <2>3, PonSigue
<1>16. ASSUME PulsaTormenta PROVE Sigue
  <2> DEFINE G == ConGesto(Todo, "tormenta")
             R == [G EXCEPT !.x = BotonTormenta(@, t)]
  <2>1. Sesion(G) /\ MismaSesion(Todo, G)
    BY SesionGesto
  <2> HIDE DEF G
  <2>2. DOMAIN R = {"s", "m", "x"} /\ R.s = G.s /\ R.x = BotonTormenta(G.x, t)
    BY <2>1 DEF Sesion
  <2>3. Solo(G.x, R.x, DeTormenta) /\ SonidoOK(R.x) /\ TormentaOK(G.s, R.x)
    BY <2>1, <2>2, CambiaTormenta DEF Sesion
  <2>4. Pon(R)
    BY <1>16 DEF PulsaTormenta, G
  <2> HIDE DEF R
  <2>5. Solo(G.x, R.x, CamposExt \ {"foto"})
    BY <2>3, SoloMas DEF DeTormenta, CamposExt
  <2>6. Sesion(R) /\ MismaSesion(G, R)
    BY <2>1, <2>2, <2>3, <2>5, MueveExtras
  <2>7. QED
    BY <2>1, <2>4, <2>6, MismaTrans, PonSigue
<1>17. ASSUME NEW v, PideTormenta(v) PROVE Sigue
  <2> DEFINE R == [Todo EXCEPT !.x = PonTormenta(@, v)]
  <2>1. DOMAIN R = {"s", "m", "x"} /\ R.s = s /\ R.x = PonTormenta(ext, v) /\ Pon(R)
    BY <1>17 DEF PideTormenta
  <2>2. Solo(ext, R.x, DeTormenta) /\ SonidoOK(R.x) /\ TormentaOK(s, R.x)
    BY <2>1, CambiaTormenta DEF Sesion
  <2> HIDE DEF R
  <2>3. Solo(ext, R.x, CamposExt \ {"foto"})
    BY <2>2, SoloMas DEF DeTormenta, CamposExt
  <2>4. Sesion(R) /\ MismaSesion(Todo, R)
    BY <2>1, <2>2, <2>3, MueveExtras
  <2>5. QED
    BY <2>1, <2>4, PonSigue
<1>18. ASSUME NEW i, PulsaLista(i) PROVE Sigue
  <2> DEFINE G == ConGesto(Todo, "lista")
             tras == ClicLista(mem, s, i)
             R == [G EXCEPT !.s = tras.s, !.m = tras.m]
  <2>1. Pon(R)
    BY <1>18 DEF PulsaLista
  <2>2. \E a, e : tras.s = Vuela(a, s, e)
    BY DEF ClicLista
  <2> HIDE DEF tras
  <2>3. Solo(s, tras.s, DeVista)
    BY <1>0, <2>2, SoloPose
  <2>4. Sesion(R) /\ MismaSesion(Todo, R)
    BY <1>2, <2>3, TrasGesto
  <2>5. QED
    BY <2>1, <2>4, PonSigue
<1>19. ASSUME NEW b, NEW M, Pon([ConGesto(Todo, b) EXCEPT !.m = M]) PROVE Sigue
  <2> DEFINE G == ConGesto(Todo, b)
             R == [G EXCEPT !.m = M]
  <2>1. Sesion(G) /\ MismaSesion(Todo, G)
    BY SesionGesto
  <2> HIDE DEF G
  <2>2. Sesion(R) /\ MismaSesion(G, R)
    BY <2>1 DEF Sesion, MismaSesion
  <2>3. QED
    BY <1>19, <2>1, <2>2, MismaTrans, PonSigue DEF G
<1>20. ASSUME PulsaEncargos \/ PulsaGuia \/ \E id \in Tocados : PulsaPaso(id) PROVE Sigue
  <2>1. \E b, M : Pon([ConGesto(Todo, b) EXCEPT !.m = M])
    BY <1>20 DEF PulsaEncargos, PulsaGuia, PulsaPaso
  <2>2. QED
    BY <1>19, <2>1
<1>21. ASSUME LlegaJugador PROVE Sigue
  <2>1. PICK M : Pon([Todo EXCEPT !.m = M])
    BY <1>21 DEF LlegaJugador
  <2>2. Sesion([Todo EXCEPT !.m = M]) /\ MismaSesion(Todo, [Todo EXCEPT !.m = M])
    BY DEF Sesion, MismaSesion
  <2>3. QED
    BY <2>1, <2>2, PonSigue
<1>22. ASSUME QuitaGafas \/ FallanGafas PROVE Sigue
  BY <1>22, SesionPanel, PonSigue DEF QuitaGafas, FallanGafas
<1>23. ASSUME NEW b, Esconde(b) \/ Muestra(b) PROVE Sigue
  BY <1>23, SesionPanel, PonSigue DEF Esconde, Muestra
<1>24. QED
  BY <1>3, <1>4, <1>5, <1>6, <1>7, <1>8, <1>9, <1>10, <1>11, <1>12, <1>13, <1>14, <1>15, <1>16, <1>17, <1>18, <1>20, <1>21, <1>22, <1>23 DEF Llamada

\* The state the viewer starts in, and starts again in.
LEMMA SesionNueva ==
    ASSUME NEW E, DOMAIN E = {"s", "m", "x"}, E.s = NucleoNuevo, NEW disco, {"sonido", "audio"} \subseteq DOMAIN disco,
           Solo(ExtrasNuevo(disco), E.x, {"pantalla"})
    PROVE  Sesion(E) /\ ~E.s.bench.activo /\ ~E.x.foto.activo /\ E.s.ready = FALSE
<1> DEFINE X == ExtrasNuevo(disco)
<1>1. DOMAIN X = CamposExt /\ X.foto = FotoApagada /\ X.disco = disco /\ X.boton = FALSE
  BY DEF ExtrasNuevo, CamposExt
<1>2. /\ DOMAIN X.snd = {"ac", "activo", "volumen", "callar", "orden", "gesto", "pasoPrev", "paso"} /\ X.snd.activo = FALSE
      /\ X.snd.ac = Nada /\ X.snd.orden = Nada
  BY DEF ExtrasNuevo
<1>3. /\ DOMAIN X.tormenta = {"forzada", "quitadaHasta", "kMano", "k", "base", "aplicada", "arena"}
      /\ X.tormenta.kMano = 0 /\ X.tormenta.base = Nada /\ X.tormenta.aplicada = FALSE /\ X.tormenta.arena = FALSE
  BY DEF ExtrasNuevo
<1> HIDE DEF X
<1>4. DOMAIN E.x = CamposExt /\ E.x.snd = X.snd /\ E.x.foto = X.foto /\ E.x.tormenta = X.tormenta /\ E.x.boton = X.boton /\ E.x.disco = X.disco
  BY <1>1 DEF Solo, X, CamposExt
<1>5. /\ E.s.ready = FALSE /\ E.s.xr = FALSE /\ E.s.mode = "orbit" /\ E.s.luz = SinAtenuar(0) /\ E.s.hour = Nada /\ E.s.pendingFlight = Nada
      /\ E.s.bench = SinMedida /\ E.s.city = Nada /\ E.s.quality = "media" /\ DOMAIN E.s = Campos
  BY DEF NucleoNuevo, Campos
<1>6. E.s.luz \in Luces /\ E.s.luz.k = 0
  <2>1. 0 \in 0..MaxT
    BY VisorAssumption
  <2>2. QED
    BY <1>5, <2>1 DEF SinAtenuar, Luces
<1>7. E.s.bench.activo = FALSE /\ E.s.bench.i = 0 /\ DOMAIN E.s.bench = {"activo", "i", "fase", "guardado"}
  BY <1>5 DEF SinMedida
<1>8. E.s.quality \in DOMAIN Fraccion
  BY <1>5, VisorAssumption
<1>9. NucleoOK(E.s)
  <2>1. E.s.ready \in BOOLEAN /\ E.s.xr \in BOOLEAN /\ (E.s.raf => ~E.s.xr)
    BY <1>5
  <2>2. E.s.bench.activo \in BOOLEAN
    BY <1>7
  <2>7. E.s.bench.i \in Nat
    BY <1>7
  <2>3. E.s.bench.activo => E.s.bench.guardado.mode \in {"walk", "orbit"}
    BY <1>7
  <2>4. E.s.mode \in {"walk", "orbit"} /\ E.s.hour \in Horas \cup {Nada} /\ E.s.city \in Ciudades \cup {Nada}
    BY <1>5
  <2>5. E.s.pendingFlight = Nada
    BY <1>5
  <2>6. QED
    BY <1>6, <1>7, <1>8, <2>1, <2>2, <2>3, <2>4, <2>5, <2>7 DEF NucleoOK
<1>10. SonidoOK(E.x)
  BY <1>1, <1>2, <1>4 DEF SonidoOK
<1>11. FotoOK(E.x) /\ ~E.x.foto.activo
  BY <1>1, <1>4 DEF FotoOK, FotoApagada
<1>12. TormentaOK(E.s, E.x)
  <2>1. E.x.tormenta.aplicada = FALSE /\ E.x.tormenta.arena = FALSE /\ E.x.tormenta.base = Nada
    BY <1>3, <1>4
  <2>2. E.x.tormenta.aplicada \in BOOLEAN /\ ~E.x.tormenta.aplicada
    BY <2>1
  <2>3. E.x.tormenta.kMano \in 0..10
    BY <1>3, <1>4
  <2>4. QED
    BY <1>3, <1>4, <1>6, <2>1, <2>2, <2>3 DEF TormentaOK
<1>13. QED
  BY <1>4, <1>5, <1>7, <1>9, <1>10, <1>11, <1>12 DEF Sesion

LEMMA SesionInit == Init => InvSesion
<1> SUFFICES ASSUME Init PROVE InvSesion
  OBVIOUS
<1> USE TodoSon
<1>1. PICK disco : ext = ExtrasNuevo([sonido |-> disco.sonido, audio |-> disco.audio])
  BY DEF Init
<1>2. Solo(ExtrasNuevo([sonido |-> disco.sonido, audio |-> disco.audio]), Todo.x, {"pantalla"})
  BY <1>1, SoloNada
<1>3. Todo.s = NucleoNuevo
  BY DEF Init
<1>4. Sesion(Todo) /\ ~s.bench.activo /\ ~ext.foto.activo /\ s.ready = FALSE
  <2>1. {"sonido", "audio"} \subseteq DOMAIN [sonido |-> disco.sonido, audio |-> disco.audio]
    OBVIOUS
  <2>2. QED
    BY <1>2, <1>3, <2>1, SesionNueva
<1>5. t \in 0..MaxT /\ paso = [que |-> "otro", n |-> 0]
  BY VisorAssumption DEF Init
<1>6. QED
  BY <1>4, <1>5 DEF InvSesion, PoseGuardada, StormDarkensOnce

\* What a step does to the photo and to the measure, as GivesBackThePose reads
\* it.
Devuelve ==
    s'.ready => /\ SaleDeLaFoto => MismaPose(antes.foto, PoseDe(s'))
                /\ AcabaLaMedida => MismaPose(antes.medida, PoseDe(s'))

LEMMA SigueEs ==
    ASSUME InvSesion, Sigue, antes' = antes
    PROVE  PoseGuardada(s, ext, antes)' /\ Devuelve
BY DEF InvSesion, Sigue, PoseGuardada, Devuelve, SaleDeLaFoto, AcabaLaMedida

\* One step of the viewer, by itself or called.
LEMMA SesionSiguiente ==
    ASSUME InvSesion, Siguiente
    PROVE  Sesion(Todo)' /\ t' \in 0..MaxT /\ PoseGuardada(s, ext, antes)' /\ paso'.que \in {"otro", "sonido"} /\ Devuelve
<1> USE TodoSon
<1>0. Sesion(Todo) /\ t \in 0..MaxT /\ PoseGuardada(s, ext, antes) /\ DOMAIN paso = {"que", "n"}
  BY DEF InvSesion
<1>1. paso'.que \in {"otro", "sonido"}
  BY <1>0 DEF Siguiente, Es
<1>2. t' \in 0..MaxT
  BY <1>0, VisorAssumption DEF Siguiente
<1>3. ASSUME Sigue, antes' = antes PROVE Sesion(Todo)' /\ PoseGuardada(s, ext, antes)' /\ Devuelve
  BY <1>3, SigueEs DEF Sigue
<1>4. ASSUME SaleDeFoto, antes' = antes PROVE Sesion(Todo)' /\ PoseGuardada(s, ext, antes)' /\ Devuelve
  <2> DEFINE R == SaleFoto(Todo)
  <2>1. /\ Sesion(R) /\ R.s.bench = s.bench /\ ~R.x.foto.activo
        /\ ext.foto.activo /\ ~s.xr => MismaPose(ext.foto.guardado, PoseDe(R.s))
    BY <1>0, SesionSaleFoto
  <2>2. ext.foto.activo /\ Pon(R)
    BY <1>4 DEF SaleDeFoto
  <2> HIDE DEF R
  <2>3. Sesion(Todo)' /\ s' = R.s /\ ext' = R.x
    BY <2>1, <2>2, PonSesion
  <2>4. QED
    BY <1>0, <1>4, <2>1, <2>2, <2>3 DEF PoseGuardada, Devuelve, SaleDeLaFoto, AcabaLaMedida
<1>5. ASSUME PonGafas, antes' = antes PROVE Sesion(Todo)' /\ PoseGuardada(s, ext, antes)' /\ Devuelve
  <2> DEFINE R == EntrarVR(Todo)
  <2>1. Sesion(R) /\ R.s.bench = s.bench /\ ~R.x.foto.activo /\ R.s.xr
    BY <1>0, SesionEntrarVR
  <2>2. Pon(R)
    BY <1>5 DEF PonGafas
  <2> HIDE DEF R
  <2>3. Sesion(Todo)' /\ s' = R.s /\ ext' = R.x
    BY <2>1, <2>2, PonSesion
  <2>4. QED
    BY <1>0, <1>5, <2>1, <2>3 DEF PoseGuardada, Devuelve, SaleDeLaFoto, AcabaLaMedida
<1>6. CASE Llamada /\ UNCHANGED <<t, idioma, dentro, antes>>
  BY <1>0, <1>3, <1>4, <1>5, <1>6, <1>1, <1>2, LlamadaSigue
<1>7. ASSUME PulsaSonido PROVE Sigue
  <2> DEFINE G == ConGesto(Todo, "sonido")
             R == [G EXCEPT !.x = AlternaSonido(@)]
  <2>1. Sesion(G) /\ MismaSesion(Todo, G)
    BY <1>0, SesionGesto
  <2> HIDE DEF G
  <2>2. DOMAIN R = {"s", "m", "x"} /\ R.s = G.s /\ R.x = AlternaSonido(G.x)
    BY <2>1 DEF Sesion
  <2>3. Pon(R)
    BY <1>7 DEF PulsaSonido, G
  <2> HIDE DEF R
  <2>4. Sesion(R) /\ MismaSesion(G, R)
    BY <2>1, <2>2, CambiaSonido, MueveSonido DEF Sesion
  <2>5. QED
    BY <2>1, <2>3, <2>4, MismaTrans, PonSigue
<1>8. ASSUME EntraEnFoto PROVE Sesion(Todo)' /\ PoseGuardada(s, ext, antes)' /\ Devuelve
  <2> DEFINE V == [s EXCEPT !.visibles = @ \ MarcasSeleccion]
             A == [ext EXCEPT !.foto.activo = TRUE]
             B == [A EXCEPT !.foto.guardado = PoseDe(s)]
             C == [B EXCEPT !.pantalla = "foto", !.escape = TRUE]
             D(o) == [C EXCEPT !.foto.ocultas = o]
             F(o, p) == [D(o) EXCEPT !.foto.objetos = p]
  <2>1. /\ ~ext.foto.activo /\ s.ready /\ ~s.xr /\ antes' = [antes EXCEPT !.foto = PoseDe(s)]
        /\ mem' = mem /\ s' = EntraFoto(ext, s, Escena(mem)).s /\ ext' = EntraFoto(ext, s, Escena(mem)).x
    BY <1>8 DEF EntraEnFoto, Pon
  <2>2. s' = V /\ \E o, p : ext' = PintaBotones(F(o, p))
    BY <2>1 DEF EntraFoto, OcultaEtiquetas
  <2>3. PICK o, p : ext' = PintaBotones(F(o, p))
    BY <2>2
  <2>4. /\ Solo(ext, A, {"foto", "pantalla", "escape"}) /\ DOMAIN A.foto = DOMAIN ext.foto /\ A.foto.activo = TRUE
    BY <1>0 DEF Sesion, Solo, CamposExt, FotoOK, FotoApagada
  <2> HIDE DEF A
  <2>5. /\ Solo(ext, B, {"foto", "pantalla", "escape"}) /\ DOMAIN B.foto = DOMAIN ext.foto /\ B.foto.activo = TRUE /\ B.foto.guardado = PoseDe(s)
    BY <1>0, <2>4 DEF Sesion, Solo, CamposExt, FotoOK, FotoApagada
  <2> HIDE DEF B
  <2>6. /\ Solo(ext, C, {"foto", "pantalla", "escape"}) /\ C.foto = B.foto
    BY <1>0, <2>5 DEF Sesion, Solo, CamposExt
  <2> HIDE DEF C
  <2> DEFINE X1 == D(o)
             X2 == F(o, p)
  <2>7. /\ Solo(ext, X1, {"foto", "pantalla", "escape"}) /\ DOMAIN X1.foto = DOMAIN ext.foto /\ X1.foto.activo = TRUE /\ X1.foto.guardado = PoseDe(s)
    BY <1>0, <2>5, <2>6 DEF Sesion, Solo, CamposExt, FotoOK, FotoApagada
  <2>11. X2 = [X1 EXCEPT !.foto.objetos = p]
    OBVIOUS
  <2> HIDE DEF X1, D, F
  <2>8. /\ Solo(ext, X2, {"foto", "pantalla", "escape"}) /\ DOMAIN X2.foto = DOMAIN ext.foto /\ X2.foto.activo = TRUE /\ X2.foto.guardado = PoseDe(s)
    BY <1>0, <2>7, <2>11 DEF Sesion, Solo, CamposExt, FotoOK, FotoApagada
  <2>12. ext' = PintaBotones(X2)
    BY <2>3 DEF X2
  <2> HIDE DEF X2
  <2>9. DOMAIN X2 = CamposExt /\ SonidoOK(X2) /\ X2.tormenta = ext.tormenta
    BY <1>0, <2>8 DEF Sesion, Solo, CamposExt, SonidoOK
  <2>10. Solo(X2, ext', {"boton"}) /\ SonidoOK(ext')
    BY <2>12, <2>9, CambiaSonido
  <2>13. ext'.foto = X2.foto /\ ext'.tormenta = ext.tormenta /\ DOMAIN ext' = CamposExt
    BY <2>9, <2>10 DEF Solo, CamposExt
  <2>14. Solo(s, s', {"visibles"})
    BY <2>2 DEF Solo
  <2> DEFINE W == [Todo EXCEPT !.s = V]
  <2>15. DOMAIN W = {"s", "m", "x"} /\ W.s = s' /\ W.x = ext
    BY <2>2
  <2> HIDE DEF W, V
  <2>16. Sesion(W) /\ MismaSesion(Todo, W)
    BY <1>0, <2>14, <2>15, MueveVista DEF DeTransito, DeMarcas
  <2>17. PoseDe(s).mode \in {"walk", "orbit"}
    BY <1>0 DEF PoseDe, Sesion, NucleoOK
  <2>18. FotoOK(ext')
    BY <1>0, <2>8, <2>13, <2>17 DEF FotoOK, Sesion
  <2>19. TormentaOK(s', ext')
    BY <2>13, <2>15, <2>16 DEF Sesion, TormentaOK
  <2>20. Sesion(Todo)'
    BY <2>10, <2>13, <2>15, <2>16, <2>18, <2>19 DEF Sesion, Todo
  <2>21. "foto" \in DOMAIN antes => antes'.foto = PoseDe(s) /\ antes'.medida = antes.medida
    BY <2>1
  <2>22. QED
    BY <1>0, <2>1, <2>8, <2>13, <2>15, <2>16, <2>20, <2>21 DEF PoseGuardada, Devuelve, SaleDeLaFoto, AcabaLaMedida, MismaSesion
<1>9. ASSUME Mide PROVE Sesion(Todo)' /\ PoseGuardada(s, ext, antes)' /\ Devuelve
  <2> DEFINE b == BenchNuevo(s)
             W == [Todo EXCEPT !.s.bench = b]
  <2>1. ~s.bench.activo /\ Pon(W) /\ antes' = [antes EXCEPT !.medida = PoseDe(s)]
    BY <1>9 DEF Mide
  <2>2. b.activo = TRUE /\ b.i = 0 /\ DOMAIN b = {"activo", "i", "fase", "guardado"} /\ b.guardado = PoseDe(s)
    BY DEF BenchNuevo, SinMedida
  <2> HIDE DEF b
  <2>3. DOMAIN W = {"s", "m", "x"} /\ W.s = [s EXCEPT !.bench = b] /\ W.x = ext
    OBVIOUS
  <2> HIDE DEF W
  <2>4. Solo(s, W.s, {"bench"}) /\ W.s.bench = b
    BY <1>0, <2>3, CamposSon DEF Solo, Sesion
  <2>5. \A n \in {"ready", "xr", "raf", "mode", "luz", "hour", "city", "quality", "pendingFlight"} : W.s[n] = s[n]
    BY <1>0, <2>4, CamposSon DEF Sesion, Solo, DePose
  <2>6. /\ W.s.ready = s.ready /\ W.s.xr = s.xr /\ W.s.raf = s.raf /\ W.s.mode = s.mode /\ W.s.luz = s.luz /\ W.s.hour = s.hour
        /\ W.s.city = s.city /\ W.s.quality = s.quality /\ W.s.pendingFlight = s.pendingFlight
    BY <2>5
  <2>7. PoseDe(s).mode \in {"walk", "orbit"}
    BY <1>0 DEF PoseDe, Sesion, NucleoOK
  <2>8. NucleoOK(W.s)
    <3>1. W.s.bench.activo \in BOOLEAN
      BY <2>2, <2>4
    <3>2. W.s.bench.i \in Nat /\ DOMAIN W.s.bench = {"activo", "i", "fase", "guardado"} /\ W.s.bench.guardado.mode \in {"walk", "orbit"}
      BY <2>2, <2>4, <2>7
    <3> HIDE DEF Todo
    <3>3. QED
      BY <1>0, <2>6, <3>1, <3>2 DEF NucleoOK, Sesion
  <2>9. Sesion(W)
    BY <1>0, <2>3, <2>4, <2>6, <2>8 DEF Sesion, TormentaOK, Solo
  <2>10. Sesion(Todo)' /\ s' = W.s /\ ext' = W.x
    BY <2>1, <2>9, PonSesion
  <2>11. DOMAIN antes = {"foto", "medida"} => antes'.medida = PoseDe(s) /\ antes'.foto = antes.foto
    BY <2>1
  <2>12. QED
    BY <1>0, <2>1, <2>2, <2>3, <2>4, <2>10, <2>11 DEF PoseGuardada, Devuelve, SaleDeLaFoto, AcabaLaMedida
<1>10. ASSUME Remonta PROVE Sesion(Todo)' /\ PoseGuardada(s, ext, antes)' /\ Devuelve
  <2> DEFINE W == [s |-> NucleoNuevo, m |-> MemoriaNueva(mem.disco, guion.ancho, idioma), x |-> [ExtrasNuevo(ext.disco) EXCEPT !.pantalla = ext.pantalla]]
  <2>1. Pon(W)
    BY <1>10 DEF Remonta, Pon
  <2>2. DOMAIN W = {"s", "m", "x"} /\ W.s = NucleoNuevo /\ W.x = [ExtrasNuevo(ext.disco) EXCEPT !.pantalla = ext.pantalla]
    OBVIOUS
  <2> HIDE DEF W
  <2>3. Solo(ExtrasNuevo(ext.disco), W.x, {"pantalla"})
    BY <2>2 DEF Solo
  <2>4. {"sonido", "audio"} \subseteq DOMAIN ext.disco
    BY <1>0 DEF Sesion, SonidoOK
  <2>5. Sesion(W) /\ ~W.s.bench.activo /\ ~W.x.foto.activo /\ W.s.ready = FALSE
    BY <2>2, <2>3, <2>4, SesionNueva
  <2>6. Sesion(Todo)' /\ s' = W.s /\ ext' = W.x
    BY <2>1, <2>5, PonSesion
  <2>7. QED
    BY <2>5, <2>6 DEF PoseGuardada, Devuelve
<1>11. ASSUME Carga PROVE Sigue
  BY <1>0, <1>11, SesionMundo, PonSigue DEF Carga
<1>12. ASSUME Navegador PROVE Sigue
  <2>1. PICK R : Pon(R) /\ DOMAIN R = {"s", "m", "x"} /\ R.s = s /\ R.x \in {Calla(ext), CumpleOrden(ext), Vigia(ext)}
    <3> DEFINE A == [Todo EXCEPT !.x = Calla(@)]
               B == [Todo EXCEPT !.x = CumpleOrden(@)]
               C == [Todo EXCEPT !.x = Vigia(@)]
    <3>1. Pon(A) \/ Pon(B) \/ Pon(C)
      BY <1>12 DEF Navegador
    <3>2. /\ DOMAIN A = {"s", "m", "x"} /\ A.s = s /\ A.x = Calla(ext)
          /\ DOMAIN B = {"s", "m", "x"} /\ B.s = s /\ B.x = CumpleOrden(ext)
          /\ DOMAIN C = {"s", "m", "x"} /\ C.s = s /\ C.x = Vigia(ext)
      OBVIOUS
    <3> HIDE DEF A, B, C
    <3>3. QED
      BY <3>1, <3>2
  <2>2. Solo(ext, R.x, DeSonido) /\ SonidoOK(R.x)
    BY <1>0, <2>1, CambiaSonido DEF Sesion
  <2>3. Sesion(R) /\ MismaSesion(Todo, R)
    BY <1>0, <2>1, <2>2, MueveSonido
  <2>4. QED
    BY <2>1, <2>3, PonSigue
<1>13. ASSUME UNCHANGED <<s, mem, ext>> PROVE Sigue
  BY <1>0, <1>13 DEF Sigue, Todo
<1>14. QED
  <2>1. \/ Llamada /\ UNCHANGED <<t, idioma, dentro, antes>>
        \/ PulsaSonido /\ antes' = antes
        \/ EntraEnFoto
        \/ Mide
        \/ Remonta
        \/ UNCHANGED <<s, mem, ext>> /\ antes' = antes
        \/ Carga /\ antes' = antes
        \/ Navegador /\ antes' = antes
    BY DEF Siguiente
  <2>2. QED
    BY <1>1, <1>2, <1>3, <1>6, <1>7, <1>8, <1>9, <1>10, <1>11, <1>12, <1>13, <2>1

\* A frame, on the screen or in the headset.
LEMMA SesionCuadros ==
    ASSUME InvSesion, Cuadros
    PROVE  /\ Sesion(Todo)' /\ t' \in 0..MaxT /\ PoseGuardada(s, ext, antes)' /\ DOMAIN paso' = {"que", "n"} /\ Devuelve
           /\ paso'.que \in {"cuadro", "llega", "gafas"}
           /\ s'.ready /\ paso'.que \in {"cuadro", "llega"} => Atenuada(s', ext')
<1> USE TodoSon
<1>0. Sesion(Todo) /\ t \in 0..MaxT /\ PoseGuardada(s, ext, antes) /\ DOMAIN paso = {"que", "n"}
  BY DEF InvSesion
<1>1. PICK f : (Dibuja(f) \/ DibujaVR(f)) /\ EsCuadro(f) /\ UNCHANGED <<t, idioma, dentro, guion, antes>>
  BY DEF Cuadros
<1>2. DOMAIN paso' = {"que", "n"} /\ paso'.que \in {"cuadro", "llega", "gafas"} /\ t' = t /\ antes' = antes
  BY <1>1 DEF EsCuadro
<1>3. CASE Dibuja(f)
  <2> DEFINE R == Cuadro(Todo, f)
  <2>1. /\ Sesion(R) /\ Medida(Todo, R) /\ R.x.foto.activo = ext.foto.activo /\ R.x.foto.guardado = ext.foto.guardado
        /\ R.s.ready => Atenuada(R.s, R.x)
    BY <1>0, SesionLazo
  <2>2. Pon(R)
    BY <1>3 DEF Dibuja
  <2> HIDE DEF R
  <2>3. Sesion(Todo)' /\ s' = R.s /\ ext' = R.x
    BY <2>1, <2>2, PonSesion
  <2>4. s.bench.activo \in BOOLEAN
    BY <1>0 DEF Sesion, NucleoOK
  <2>5. PoseGuardada(s, ext, antes)' /\ Devuelve
    BY <1>0, <1>2, <2>1, <2>3, <2>4 DEF PoseGuardada, Devuelve, Medida, SaleDeLaFoto, AcabaLaMedida
  <2>6. QED
    BY <1>0, <1>2, <2>1, <2>3, <2>5
<1>4. CASE DibujaVR(f)
  <2> DEFINE R == XrFrame(Todo, f)
  <2>1. Sesion(R) /\ MismaSesion(Todo, R)
    BY <1>0, SesionGafas
  <2>2. Pon(R) /\ s.xr
    BY <1>4 DEF DibujaVR
  <2> HIDE DEF R
  <2>3. Sigue
    BY <2>1, <2>2, PonSigue
  <2>4. paso'.que = "gafas"
    BY <1>1, <2>2 DEF EsCuadro
  <2>5. PoseGuardada(s, ext, antes)' /\ Devuelve
    BY <1>2, <2>3, SigueEs
  <2>6. QED
    BY <1>0, <1>2, <2>3, <2>4, <2>5 DEF Sigue
<1>5. QED
  BY <1>1, <1>3, <1>4

\* Every step keeps the invariant, and gives back the pose.
LEMMA SesionPasa ==
    ASSUME InvSesion, Next
    PROVE  InvSesion' /\ Devuelve
<1>1. CASE Siguiente
  <2>1. DOMAIN paso' = {"que", "n"}
    BY <1>1 DEF InvSesion, Siguiente, Es
  <2>2. paso'.que \in {"otro", "sonido"}
    BY <1>1, SesionSiguiente
  <2>3. StormDarkensOnce'
    BY <2>2 DEF StormDarkensOnce
  <2>4. QED
    BY <1>1, <2>1, <2>3, SesionSiguiente DEF InvSesion
<1>2. CASE Cuadros
  <2>1. StormDarkensOnce'
    BY <1>2, SesionCuadros DEF StormDarkensOnce, Atenuada
  <2>2. QED
    BY <1>2, <2>1, SesionCuadros DEF InvSesion
<1>3. QED
  BY <1>1, <1>2 DEF Next

LEMMA SesionQuieta ==
    ASSUME InvSesion, UNCHANGED vars
    PROVE  InvSesion' /\ Devuelve
<1>1. s' = s /\ mem' = mem /\ ext' = ext /\ t' = t /\ antes' = antes /\ paso' = paso
  BY DEF vars
<1>2. InvSesion'
  BY <1>1 DEF InvSesion, Todo, PoseGuardada, StormDarkensOnce
<1>3. Devuelve
  BY <1>1 DEF Devuelve, SaleDeLaFoto, AcabaLaMedida
<1>4. QED
  BY <1>2, <1>3

THEOREM SpecInvSesion == Spec => []InvSesion
<1>1. InvSesion /\ [Next]_vars => InvSesion'
  BY SesionPasa, SesionQuieta
<1>2. QED
  BY SesionInit, <1>1, PTL DEF Spec

\* A frame on the screen leaves the light of the sun attenuated by the storm
\* once and by the strength of now, and with no storm untouched (extras.js
\* guardaBaseSol, cuadroTormenta, restauraTormenta).
THEOREM SpecStormDarkensOnce == Spec => []StormDarkensOnce
<1>1. InvSesion => StormDarkensOnce
  BY DEF InvSesion
<1>2. QED
  BY SpecInvSesion, <1>1, PTL

\* The photo and the fluency measure give back the pose they were entered with
\* (extras.js entraFoto, saleFoto; city3d.js bench, benchFin).
THEOREM SpecGivesBackThePose == Spec => GivesBackThePose
<1>1. InvSesion /\ [Next]_vars => [Devuelve]_vars
  BY SesionPasa, SesionQuieta
<1>2. QED
  BY SpecInvSesion, <1>1, PTL DEF Spec, GivesBackThePose, Devuelve

\* Every press of the sound button changes what the icon says, and the disk keeps
\* it, also when that press is the first gesture on the page; without audio it
\* changes neither (extras.js:239, 250-255).
THEOREM SpecSoundButtonFlips == Spec => SoundButtonFlips
<1> DEFINE Pulsado == IF ext.disco.audio THEN ext'.boton = ~ext.boton /\ ext'.disco.sonido = ext'.boton
                      ELSE ext'.boton = ext.boton /\ ext'.disco = ext.disco
           Cambia == paso'.que = "sonido" => Pulsado
<1>1. ASSUME InvSesion, PulsaSonido PROVE Pulsado
  <2> DEFINE G == ConGesto(Todo, "sonido")
             R == [G EXCEPT !.x = AlternaSonido(@)]
  <2>1. Sesion(G) /\ G.x.boton = ext.boton /\ G.x.disco = ext.disco
    BY <1>1, SesionGesto, TodoSon DEF InvSesion
  <2>2. Pon(R)
    BY <1>1 DEF PulsaSonido
  <2> HIDE DEF G
  <2>3. ext' = AlternaSonido(G.x)
    BY <2>1, <2>2 DEF Pon, Sesion
  <2>4. /\ G.x.disco.audio => ext'.boton = ~G.x.boton /\ ext'.disco.sonido = ~G.x.boton
        /\ ~G.x.disco.audio => ext' = G.x
    BY <2>1, <2>3, CambiaSonido DEF Sesion
  <2>5. QED
    BY <2>1, <2>4
<1>2. ASSUME InvSesion, Next PROVE Cambia
  <2>1. CASE Cuadros
    BY <1>2, <2>1, SesionCuadros
  <2>2. CASE Siguiente
    <3>1. DOMAIN paso = {"que", "n"}
      BY <1>2 DEF InvSesion
    <3>2. PulsaSonido \/ paso' = [paso EXCEPT !.que = "otro"]
      BY <2>2 DEF Siguiente, Es
    <3>3. paso' = [paso EXCEPT !.que = "otro"] => paso'.que = "otro"
      BY <3>1
    <3>4. QED
      BY <1>1, <1>2, <3>2, <3>3
  <2>3. QED
    BY <1>2, <2>1, <2>2 DEF Next
<1>3. InvSesion /\ [Next]_vars => [Cambia]_vars
  BY <1>2
<1>4. QED
  BY SpecInvSesion, <1>3, PTL DEF Spec, SoundButtonFlips
(***************************************************************************)
(* The memory of the city.  A step either leaves its account alone, or     *)
(* makes it again from the city that is applied.                           *)
(***************************************************************************)
MemIgual(M, R) ==
    /\ DOMAIN R = DOMAIN M
    /\ R.placas = M.placas /\ R.huecos = M.huecos /\ R.lista = M.lista /\ R.firma = M.firma
    /\ "items" \in DOMAIN M.encLabels => "items" \in DOMAIN R.encLabels /\ R.encLabels.items = M.encLabels.items

LEMMA MemIgualTrans ==
    ASSUME NEW L, NEW M, NEW R, MemIgual(L, M), MemIgual(M, R)
    PROVE  MemIgual(L, R)
BY DEF MemIgual

LEMMA MemIgualNada ==
    ASSUME NEW M
    PROVE  MemIgual(M, M)
BY DEF MemIgual

LEMMA MemSolo ==
    ASSUME NEW M, DOMAIN M = CamposMem, NEW R, NEW F, Solo(M, R, F), F \cap {"placas", "huecos", "lista", "firma", "encLabels"} = {}
    PROVE  MemIgual(M, R)
<1>1. \A n \in {"placas", "huecos", "lista", "firma", "encLabels"} : R[n] = M[n]
  BY DEF Solo, CamposMem
<1>2. R.placas = M.placas /\ R.huecos = M.huecos /\ R.lista = M.lista /\ R.firma = M.firma /\ R.encLabels = M.encLabels
  BY <1>1
<1>3. QED
  BY <1>2 DEF MemIgual, Solo

\* The guide, what is shown of the list and of the labels, and the switch of
\* the errands leave the account of the city alone.
LEMMA MemQuieta ==
    ASSUME NEW M, DOMAIN M = CamposMem
    PROVE  /\ \A id, v : MemIgual(M, Marca(M, id, v))
           /\ \A id, v : MemIgual(M, MarcaSi(M, id, v))
           /\ \A p, n : MemIgual(M, Jugador(M, p, n))
           /\ \A v : MemIgual(M, AbreGuia(M, v))
           /\ MemIgual(M, RepintaGuia(M))
           /\ \A S : MemIgual(M, PintaLista(M, S))
           /\ \A S : MemIgual(M, MuestraEtiquetas(M, S))
           /\ \A S, v : MemIgual(M, MostrarEncargos(M, S, v))
           /\ \A S : MemIgual(M, ClicEncargos(M, S))
           /\ \A S : MemIgual(M, MemModo(M, S))
<1> DEFINE Guia == {"progreso", "resaltar", "guiaOn", "guiaPintada", "disco"}
<1>1. \A W, id, v : DOMAIN W = CamposMem => Solo(W, Marca(W, id, v), Guia)
  <2>1. TAKE W, id, v
  <2>2. HAVE DOMAIN W = CamposMem
  <2> DEFINE A == [W EXCEPT !.progreso.h = IF v THEN @ \cup {id} ELSE @ \ {id}]
             B == Guarda(A)
  <2>3. Solo(W, A, Guia)
    BY DEF Solo
  <2> HIDE DEF A
  <2>4. Solo(A, B, Guia)
    BY DEF Solo, Guarda
  <2>5. Solo(W, B, Guia \cup Guia)
    BY <2>3, <2>4, SoloTrans
  <2> HIDE DEF B
  <2>6. Solo(B, PintaGuia(B), Guia)
    BY DEF Solo, PintaGuia
  <2>7. Solo(W, PintaGuia(B), (Guia \cup Guia) \cup Guia)
    BY <2>5, <2>6, SoloTrans
  <2>8. Marca(W, id, v) \in {W, B, PintaGuia(B)}
    BY DEF Marca, A, B
  <2>9. Solo(W, W, Guia) /\ Guia \cup Guia = Guia
    BY SoloNada
  <2>10. QED
    BY <2>5, <2>7, <2>8, <2>9
<1>2. \A W, id, v : DOMAIN W = CamposMem => MemIgual(W, Marca(W, id, v))
  BY <1>1, MemSolo
<1>3. \A W, id, v : DOMAIN W = CamposMem => MemIgual(W, MarcaSi(W, id, v))
  BY <1>2, MemIgualNada DEF MarcaSi
<1>4. \A p, n : MemIgual(M, Jugador(M, p, n))
  <2>1. TAKE p, n
  <2> DEFINE W == MarcaSi(M, "nombre", p)
  <2>2. MemIgual(M, W)
    BY <1>3
  <2>3. DOMAIN W = CamposMem
    BY <2>2 DEF MemIgual
  <2>4. MemIgual(W, MarcaSi(W, "rami", n > 0))
    BY <1>3, <2>3
  <2> HIDE DEF W
  <2>5. MemIgual(M, MarcaSi(W, "rami", n > 0))
    BY <2>2, <2>4, MemIgualTrans
  <2>6. QED
    BY <2>5 DEF Jugador, W
<1>5. \A v : MemIgual(M, AbreGuia(M, v))
  <2>1. \A v : Solo(M, AbreGuia(M, v), Guia)
    BY DEF Solo, AbreGuia, Guarda, PintaGuia
  <2>2. QED
    BY <2>1, MemSolo
<1>6. MemIgual(M, RepintaGuia(M))
  <2>1. Solo(M, RepintaGuia(M), Guia)
    BY DEF Solo, RepintaGuia, PintaGuia
  <2>2. QED
    BY <2>1, MemSolo
<1>7. \A W, S : DOMAIN W = CamposMem => MemIgual(W, PintaLista(W, S))
  <2>1. \A W, S : Solo(W, PintaLista(W, S), {"listaVista"})
    BY DEF Solo, PintaLista
  <2>2. QED
    BY <2>1, MemSolo
<1>8. \A W, S : DOMAIN W = CamposMem => MemIgual(W, MuestraEtiquetas(W, S))
  BY DEF MuestraEtiquetas, MemIgual, CamposMem
<1>9. \A W, S, v : DOMAIN W = CamposMem => MemIgual(W, MostrarEncargos(W, S, v))
  <2>1. TAKE W, S, v
  <2>2. HAVE DOMAIN W = CamposMem
  <2> DEFINE A == [W EXCEPT !.verEncargos = v]
             B == MuestraEtiquetas(A, S)
  <2>3. MemIgual(W, A) /\ DOMAIN A = CamposMem
    BY <2>2, MemSolo DEF MemIgual, CamposMem
  <2> HIDE DEF A
  <2>4. MemIgual(A, B) /\ DOMAIN B = CamposMem
    BY <1>8, <2>3 DEF MemIgual
  <2> HIDE DEF B
  <2>5. MemIgual(B, PintaLista(B, S))
    BY <1>7, <2>4
  <2>6. QED
    BY <2>3, <2>4, <2>5, MemIgualTrans DEF MostrarEncargos, A, B
<1>10. \A S : MemIgual(M, ClicEncargos(M, S))
  <2>1. TAKE S
  <2> DEFINE A == [M EXCEPT !.disco.enc = ~M.verEncargos]
  <2>2. MemIgual(M, A) /\ DOMAIN A = CamposMem
    BY DEF MemIgual, CamposMem
  <2> HIDE DEF A
  <2>3. MemIgual(A, MostrarEncargos(A, S, ~M.verEncargos))
    BY <1>9, <2>2
  <2>4. QED
    BY <2>2, <2>3, MemIgualTrans DEF ClicEncargos, A
<1>11. \A S : MemIgual(M, MemModo(M, S))
  <2>1. TAKE S
  <2> DEFINE A == MarcaSi(M, "a_pie", S.mode = "walk")
             B == MuestraEtiquetas(A, S)
  <2>2. MemIgual(M, A) /\ DOMAIN A = CamposMem
    BY <1>3 DEF MemIgual
  <2> HIDE DEF A
  <2>3. MemIgual(A, B) /\ DOMAIN B = CamposMem
    BY <1>8, <2>2 DEF MemIgual
  <2> HIDE DEF B
  <2>4. MemIgual(B, PintaLista(B, S))
    BY <1>7, <2>3
  <2>5. QED
    BY <2>2, <2>3, <2>4, MemIgualTrans DEF MemModo, A, B
<1>12. QED
  BY <1>2, <1>3, <1>4, <1>5, <1>6, <1>7, <1>8, <1>9, <1>10, <1>11

\* The errands of a city are a list, with at most one of each district.
LEMMA EncargosSon ==
    ASSUME NEW d \in Ciudades
    PROVE  /\ DOMAIN Encargos(d) = 1..Len(Encargos(d))
           /\ Len(Encargos(d)) \in Nat /\ Len(Encargos(d)) <= MaxEtiquetas
<1> DEFINE J == {j \in DOMAIN d.parcels : Necesitan(d, d.parcels[j].distrito) # {}}
           D == {d.parcels[i].distrito : i \in DOMAIN d.parcels}
           F == {d.parcels[i].distrito : i \in J}
           todos == {Encargo(d, di, Necesitan(d, di)) : di \in F}
<1>1. Encargos(d) = IF d.huecos = <<>> THEN <<>> ELSE PorDistrito(todos)
  BY DEF Encargos
<1>2. d.parcels \in Seq(ToSet(d.parcels)) /\ Cardinality(D) <= MaxEtiquetas
  BY VisorAssumption
<1>3. IsFiniteSet(D)
  <2>1. PICK k \in Nat : DOMAIN d.parcels = 1..k
    BY <1>2
  <2> DEFINE f == [i \in 1..k |-> d.parcels[i].distrito]
  <2>2. f \in Surjection(1..k, D)
    BY <2>1 DEF Surjection
  <2>3. IsFiniteSet(1..k)
    BY FS_Interval
  <2> HIDE DEF f, D
  <2>4. QED
    BY <2>2, <2>3, FS_Surjection
<1>4. F \in SUBSET D
  OBVIOUS
<1> HIDE DEF D
<1>5. IsFiniteSet(F) /\ Cardinality(F) <= Cardinality(D)
  BY <1>3, <1>4, FS_Subset
<1>6. Cardinality(D) \in Nat /\ Cardinality(F) \in Nat
  BY <1>3, <1>5, FS_CardinalityType
<1> HIDE DEF F
<1>7. IsFiniteSet(todos) /\ Cardinality(todos) <= Cardinality(F)
  <2> DEFINE f == [di \in F |-> Encargo(d, di, Necesitan(d, di))]
  <2>1. f \in Surjection(F, todos)
    BY DEF Surjection
  <2> HIDE DEF f, todos
  <2>2. QED
    BY <1>5, <2>1, FS_Surjection
<1> HIDE DEF todos
<1>8. Cardinality(todos) \in Nat
  BY <1>7, FS_CardinalityType
<1> DEFINE c == [i \in 1..Cardinality(todos) |->
                  CHOOSE x \in todos : Cardinality({y \in todos : Antes(<<-y.empresas, y.distrito>>, <<-x.empresas, x.distrito>>)}) = i - 1]
<1>9. PorDistrito(todos) = c
  BY DEF PorDistrito, Ordena
<1>10. DOMAIN c = 1..Len(c) /\ Len(c) = Cardinality(todos)
  <2>1. \A i \in 1..Cardinality(todos) : c[i] \in {c[j] : j \in 1..Cardinality(todos)}
    OBVIOUS
  <2>2. c \in [1..Cardinality(todos) -> {c[j] : j \in 1..Cardinality(todos)}]
    BY <2>1
  <2> HIDE DEF c
  <2>3. QED
    BY <1>8, <2>2
<1> HIDE DEF c
<1>11. QED
  <2>1. CASE d.huecos = <<>>
    BY <1>1, <2>1 DEF MaxEtiquetas
  <2>2. CASE d.huecos # <<>>
    <3>1. Encargos(d) = c
      BY <1>1, <1>9, <2>2
    <3>2. Cardinality(todos) \in Nat /\ Cardinality(todos) <= MaxEtiquetas
      <4>1. Cardinality(todos) <= Cardinality(D) /\ Cardinality(D) <= MaxEtiquetas
        BY <1>2, <1>5, <1>6, <1>7, <1>8
      <4>2. QED
        BY <1>6, <1>8, <4>1 DEF MaxEtiquetas
    <3>3. QED
      BY <1>10, <3>1, <3>2
  <2>3. QED
    BY <2>1, <2>2

\* A set of labels of the same priority holds those it is given.
LEMMA EtiquetasPuestas ==
    ASSUME NEW n \in Nat, NEW items, DOMAIN items = 1..n, \A i \in 1..n : items[i].priority = 3
    PROVE  "items" \in DOMAIN LabelSetSet(items) /\ ToSet(LabelSetSet(items).items) = ToSet(items)
<1> DEFINE S == 1..n
           previo(i, j) == items[i].priority < items[j].priority \/ (items[i].priority = items[j].priority /\ i < j)
           R == {p \in S \X S : p[1] < p[2]}
           orden == Ordena(DOMAIN items, previo)
           L == LabelSetSet(items)
<1>1. L.items = [k \in DOMAIN orden |-> items[orden[k]]] /\ "items" \in DOMAIN L
  BY DEF LabelSetSet
<1>2. IsFiniteSet(S)
  BY FS_Interval
<1>3. \A a, b \in S : <<a, b>> \in R <=> a < b
  OBVIOUS
<1>4. TieneOrden(S, R)
  <2> HIDE DEF R
  <2>1. \A a, b, c \in S : <<a, b>> \in R /\ <<b, c>> \in R => <<a, c>> \in R
    BY <1>3
  <2>2. \A a \in S : <<a, a>> \notin R
    BY <1>3
  <2>3. \A a, b \in S : a # b => <<a, b>> \in R \/ <<b, a>> \in R
    BY <1>3
  <2> HIDE DEF S
  <2>4. QED
    BY <1>2, <2>1, <2>2, <2>3, PorOrden
<1>5. \A x \in S : {y \in S : previo(y, x)} = {y \in S : <<y, x>> \in R}
  <2> HIDE DEF R
  <2>1. \A x, y \in S : previo(y, x) <=> y < x
    OBVIOUS
  <2> HIDE DEF previo
  <2>2. QED
    BY <1>3, <2>1
<1> DEFINE c == Cardinality(S)
<1> HIDE DEF R
<1>6. \A i \in 1..c : \E x \in S : Cardinality({y \in S : previo(y, x)}) = i - 1
  <2> HIDE DEF S, previo
  <2>1. QED
    BY <1>4, <1>5 DEF TieneOrden
<1>7. orden = [i \in 1..c |-> CHOOSE x \in S : Cardinality({y \in S : previo(y, x)}) = i - 1]
  BY DEF Ordena
<1> HIDE DEF orden
<1>8. orden \in [1..c -> S] /\ \A i \in 1..c : Cardinality({y \in S : previo(y, orden[i])}) = i - 1
  <2> HIDE DEF S, previo, c
  <2>1. QED
    BY <1>6, <1>7
<1>9. \A i \in 1..c : Cardinality({y \in S : <<y, orden[i]>> \in R}) = i - 1
  <2> HIDE DEF S, previo, c
  <2>1. QED
    BY <1>5, <1>8
<1>10. \A x \in S : \E i \in 1..c : orden[i] = x
  <2> HIDE DEF S, previo
  <2>1. PorSuOrden(orden, S, R)
    BY <1>8, <1>9 DEF PorSuOrden
  <2>2. QED
    BY <1>2, <2>1, EnSuPuesto
<1>11. ToSet(L.items) = ToSet(items)
  <2> HIDE DEF L, previo
  <2>1. DOMAIN orden = 1..c /\ \A i \in 1..c : orden[i] \in S
    BY <1>8
  <2>2. \A x : x \in ToSet(L.items) <=> \E k \in 1..c : x = items[orden[k]]
    BY <1>1, <2>1 DEF ToSet
  <2>3. \A x : x \in ToSet(items) <=> \E i \in S : x = items[i]
    BY DEF ToSet
  <2> HIDE DEF S, c
  <2>4. \A x : x \in ToSet(L.items) <=> x \in ToSet(items)
    BY <1>10, <2>1, <2>2, <2>3
  <2>5. QED
    BY <2>4
<1>12. QED
  BY <1>1, <1>11

\* The labels of the errands are of the districts on the list, all of them.
LEMMA EtiquetasSon ==
    ASSUME NEW M, DOMAIN M = CamposMem, NEW S,
           DOMAIN M.lista = 1..Len(M.lista), Len(M.lista) \in Nat, Len(M.lista) <= MaxEtiquetas
    PROVE  LET R == PonEtiquetas(M, S)
           IN /\ DOMAIN R = CamposMem
              /\ R.placas = M.placas /\ R.huecos = M.huecos /\ R.lista = M.lista /\ R.firma = M.firma
              /\ "items" \in DOMAIN R.encLabels /\ Distritos(R.encLabels.items) = Distritos(M.lista)
<1> DEFINE n == Len(M.lista)
           item(e) == [distrito |-> e.distrito, punto |-> PuntoEtiqueta(M, e), text |-> Head(e.faltan), priority |-> 3]
           items == [i \in 1..Min({n, MaxEtiquetas}) |-> item(M.lista[i])]
           A == [M EXCEPT !.encLabels = LabelSetSet(items)]
           R == MuestraEtiquetas(A, S)
<1>1. PonEtiquetas(M, S) = R
  BY DEF PonEtiquetas
<1>2. Min({n, MaxEtiquetas}) = n
  <2>1. n \in Int /\ n <= 40
    BY DEF MaxEtiquetas
  <2> HIDE DEF n
  <2>2. QED
    BY <2>1, MenorDe DEF MaxEtiquetas
<1>3. /\ DOMAIN items = 1..n
      /\ \A i \in 1..n : items[i].priority = 3 /\ items[i].distrito = M.lista[i].distrito
  BY <1>2
<1> HIDE DEF items
<1>4. "items" \in DOMAIN LabelSetSet(items) /\ ToSet(LabelSetSet(items).items) = ToSet(items)
  BY <1>3, EtiquetasPuestas
<1>5. Distritos(LabelSetSet(items).items) = Distritos(M.lista)
  <2>1. \A x : x \in ToSet(items) <=> \E i \in 1..n : x = items[i]
    BY <1>3 DEF ToSet
  <2>2. \A x : x \in ToSet(M.lista) <=> \E i \in 1..n : x = M.lista[i]
    BY DEF ToSet
  <2>3. Distritos(items) = Distritos(M.lista)
    BY <1>3, <2>1, <2>2 DEF Distritos
  <2>4. QED
    BY <1>4, <2>3 DEF Distritos
<1>6. A.encLabels = LabelSetSet(items) /\ DOMAIN A = CamposMem /\ A.placas = M.placas /\ A.huecos = M.huecos /\ A.lista = M.lista /\ A.firma = M.firma
  BY DEF CamposMem
<1> HIDE DEF A
<1>7. MemIgual(A, R)
  BY <1>6, MemQuieta
<1> HIDE DEF R
<1>8. QED
  BY <1>1, <1>4, <1>5, <1>6, <1>7 DEF MemIgual

\* Two cities of the same signature have the same errands and the same plaques:
\* what it leaves out, the price of the parcels on sale, neither reads.
Iguales(d, e) ==
    /\ d.me = e.me /\ d.huecos = e.huecos /\ DOMAIN d.parcels = DOMAIN e.parcels
    /\ \A i \in DOMAIN d.parcels : LET p == d.parcels[i]
                                       q == e.parcels[i]
                                   IN /\ p.celda = q.celda /\ p.kind = q.kind /\ p.owner = q.owner /\ p.since = q.since
                                      /\ p.name = q.name /\ p.handle = q.handle /\ p.pending = q.pending /\ p.distrito = q.distrito

LEMMA FirmaIguales ==
    ASSUME NEW d \in Ciudades, NEW e \in Ciudades, FirmaCiudad(d) = FirmaCiudad(e)
    PROVE  Iguales(d, e)
<1> DEFINE sin(a) == [i \in DOMAIN a.parcels |-> [a.parcels[i] EXCEPT !.sale = FALSE]]
<1>1. \A a : FirmaCiudad(a).me = a.me /\ FirmaCiudad(a).huecos = a.huecos /\ FirmaCiudad(a).parcels = sin(a)
  BY DEF FirmaCiudad
<1>2. d.me = e.me /\ d.huecos = e.huecos /\ sin(d) = sin(e)
  <2> HIDE DEF sin
  <2>1. QED
    BY <1>1
<1>3. DOMAIN d.parcels = DOMAIN e.parcels
  <2>1. DOMAIN sin(d) = DOMAIN d.parcels /\ DOMAIN sin(e) = DOMAIN e.parcels
    OBVIOUS
  <2> HIDE DEF sin
  <2>2. QED
    BY <1>2, <2>1
<1>4. \A i \in DOMAIN d.parcels : \A n \in CamposParcela \ {"sale"} : d.parcels[i][n] = e.parcels[i][n]
  <2>1. TAKE i \in DOMAIN d.parcels
  <2>2. TAKE n \in CamposParcela \ {"sale"}
  <2>3. DOMAIN d.parcels[i] = CamposParcela /\ DOMAIN e.parcels[i] = CamposParcela
    BY <1>3, VisorAssumption
  <2>4. sin(d)[i] = sin(e)[i]
    BY <1>2
  <2>5. [d.parcels[i] EXCEPT !.sale = FALSE] = [e.parcels[i] EXCEPT !.sale = FALSE]
    BY <1>3, <2>4
  <2>6. [d.parcels[i] EXCEPT !.sale = FALSE][n] = d.parcels[i][n] /\ [e.parcels[i] EXCEPT !.sale = FALSE][n] = e.parcels[i][n]
    BY <2>3
  <2>7. QED
    BY <2>5, <2>6
<1>5. {"celda", "kind", "owner", "since", "name", "handle", "pending", "distrito"} \subseteq CamposParcela \ {"sale"}
  BY DEF CamposParcela
<1>6. QED
  BY <1>2, <1>3, <1>4, <1>5 DEF Iguales

LEMMA FirmaEncargos ==
    ASSUME NEW d, NEW e, Iguales(d, e)
    PROVE  Encargos(d) = Encargos(e)
<1> DEFINE P == DOMAIN d.parcels
<1>1. DOMAIN e.parcels = P /\ d.huecos = e.huecos
  BY DEF Iguales
<1>2. \A i \in P : Faltan(d, d.parcels[i]) = Faltan(e, e.parcels[i])
  BY DEF Iguales, Faltan
<1>3. \A i \in P : /\ d.parcels[i].distrito = e.parcels[i].distrito /\ d.parcels[i].pending = e.parcels[i].pending
                   /\ d.parcels[i].celda = e.parcels[i].celda
  BY DEF Iguales
<1>4. \A di : Necesitan(d, di) = Necesitan(e, di) /\ Necesitan(d, di) \subseteq P
  <2>1. TAKE di
  <2>2. \A i : i \in Necesitan(d, di) <=> i \in P /\ d.parcels[i].distrito = di /\ ~d.parcels[i].pending /\ Faltan(d, d.parcels[i]) # {}
    BY DEF Necesitan
  <2>3. \A i : i \in Necesitan(e, di) <=> i \in P /\ e.parcels[i].distrito = di /\ ~e.parcels[i].pending /\ Faltan(e, e.parcels[i]) # {}
    BY <1>1 DEF Necesitan
  <2>4. QED
    BY <1>2, <1>3, <2>2, <2>3
<1>5. \A Q \in SUBSET P : FaltanEn(d, Q) = FaltanEn(e, Q)
  <2>1. TAKE Q \in SUBSET P
  <2> DEFINE de(h) == [sector |-> h, empresas |-> Cardinality({i \in Q : h \in Faltan(d, d.parcels[i])})]
             ee(h) == [sector |-> h, empresas |-> Cardinality({i \in Q : h \in Faltan(e, e.parcels[i])})]
             A == {f \in {de(h) : h \in ToSet(d.huecos)} : f.empresas > 0}
             B == {f \in {ee(h) : h \in ToSet(e.huecos)} : f.empresas > 0}
  <2>2. FaltanEn(d, Q) = PorSector(A) /\ FaltanEn(e, Q) = PorSector(B)
    BY DEF FaltanEn
  <2>3. \A h : {i \in Q : h \in Faltan(d, d.parcels[i])} = {i \in Q : h \in Faltan(e, e.parcels[i])}
    BY <1>2
  <2>4. \A h : de(h) = ee(h)
    BY <2>3
  <2> HIDE DEF de, ee
  <2>5. A = B
    BY <1>1, <2>4
  <2>6. QED
    BY <2>2, <2>5
<1>6. \A Q \in SUBSET P : Ancla(d, Q) = Ancla(e, Q)
  <2>1. TAKE Q \in SUBSET P
  <2> DEFINE A == [i \in Q |-> d.parcels[i].celda]
             B == [i \in Q |-> e.parcels[i].celda]
  <2>2. A = B
    BY <1>3
  <2>3. /\ Ancla(d, Q) = MasCerca({A[i] : i \in Q}, Cardinality(Q), SumaCeldas(A))
        /\ Ancla(e, Q) = MasCerca({B[i] : i \in Q}, Cardinality(Q), SumaCeldas(B))
    BY DEF Ancla
  <2> HIDE DEF A, B
  <2>4. QED
    BY <2>2, <2>3
<1>7. \A di : Encargo(d, di, Necesitan(d, di)) = Encargo(e, di, Necesitan(e, di))
  BY <1>4, <1>5, <1>6 DEF Encargo
<1> DEFINE U(a) == {j \in DOMAIN a.parcels : Necesitan(a, a.parcels[j].distrito) # {}}
           F(a) == {a.parcels[i].distrito : i \in U(a)}
           V(a) == {Encargo(a, di, Necesitan(a, di)) : di \in F(a)}
<1>8. U(d) = U(e) /\ U(d) \subseteq P
  BY <1>1, <1>3, <1>4
<1>9. F(d) = F(e)
  <2> HIDE DEF U
  <2>1. QED
    BY <1>3, <1>8
<1>10. V(d) = V(e)
  <2> HIDE DEF F
  <2>1. QED
    BY <1>7, <1>9
<1>11. \A a : Encargos(a) = IF a.huecos = <<>> THEN <<>> ELSE PorDistrito(V(a))
  BY DEF Encargos
<1> HIDE DEF V
<1>12. QED
  BY <1>1, <1>10, <1>11

LEMMA FirmaPlacas ==
    ASSUME NEW d \in Ciudades, NEW e \in Ciudades, Iguales(d, e)
    PROVE  Placas(d) = Placas(e)
<1> DEFINE P == DOMAIN d.parcels
           nums == [i \in P |-> i]
           deja(a) == {i \in DOMAIN a.parcels : ~a.parcels[i].pending /\ a.parcels[i].celda \in Celdas}
           con == Kept(nums, deja(d))
<1>1. DOMAIN e.parcels = P
  BY DEF Iguales
<1>2. deja(d) = deja(e)
  BY DEF Iguales
<1>3. Kept([i \in DOMAIN e.parcels |-> i], deja(e)) = con
  BY <1>1, <1>2
<1>4. con \in Seq(P \cap deja(d))
  <2>1. d.parcels \in Seq(ToSet(d.parcels))
    BY VisorAssumption
  <2>2. nums \in Seq(P)
    BY <2>1
  <2> HIDE DEF nums, deja
  <2>3. QED
    BY <2>2, KeptIs
<1>5. Placas(d) = [n \in DOMAIN con |-> PlacaDe(d, d.parcels[con[n]])] /\ Placas(e) = [n \in DOMAIN con |-> PlacaDe(e, e.parcels[con[n]])]
  BY <1>3 DEF Placas
<1> HIDE DEF con
<1>6. \A n \in DOMAIN con : con[n] \in P
  BY <1>4
<1>7. \A i \in P : PlacaDe(d, d.parcels[i]) = PlacaDe(e, e.parcels[i])
  <2>1. TAKE i \in P
  <2>2. Clave(d.parcels[i]) = Clave(e.parcels[i])
    BY DEF Iguales, Clave
  <2>3. /\ d.parcels[i].celda = e.parcels[i].celda /\ d.parcels[i].since = e.parcels[i].since /\ d.parcels[i].owner = e.parcels[i].owner
        /\ d.parcels[i].kind = e.parcels[i].kind /\ d.me = e.me
    BY DEF Iguales
  <2>4. QED
    BY <2>2, <2>3 DEF PlacaDe
<1>8. QED
  BY <1>5, <1>6, <1>7

\* The plaques are a list.
LEMMA PlacasSon ==
    ASSUME NEW d \in Ciudades
    PROVE  Placas(d) \in Seq(ToSet(Placas(d)))
<1> DEFINE nums == [i \in DOMAIN d.parcels |-> i]
           deja == {i \in DOMAIN d.parcels : ~d.parcels[i].pending /\ d.parcels[i].celda \in Celdas}
           con == Kept(nums, deja)
<1>1. nums \in Seq(DOMAIN d.parcels)
  <2>1. d.parcels \in Seq(ToSet(d.parcels))
    BY VisorAssumption
  <2>2. QED
    BY <2>1
<1>2. con \in Seq(DOMAIN d.parcels \cap deja)
  <2> HIDE DEF nums, deja
  <2>1. QED
    BY <1>1, KeptIs
<1>3. Placas(d) = [n \in DOMAIN con |-> PlacaDe(d, d.parcels[con[n]])]
  BY DEF Placas
<1> HIDE DEF con
<1>4. PICK k \in Nat : DOMAIN con = 1..k
  BY <1>2
<1>5. QED
  <2> DEFINE p == Placas(d)
  <2>1. p = [n \in 1..k |-> p[n]]
    BY <1>3, <1>4
  <2>2. \A n \in 1..k : p[n] \in ToSet(p)
    BY <2>1 DEF ToSet
  <2> HIDE DEF p
  <2>3. p \in [1..k -> ToSet(p)]
    BY <2>1, <2>2
  <2>4. p \in Seq(ToSet(p))
    BY <2>3
  <2>5. QED
    BY <2>4 DEF p

\* The plaques nearest to a point are plaques.
LEMMA CercanasSon ==
    ASSUME NEW placas, NEW P, placas \in Seq(P), NEW p
    PROVE  Cercanas(placas, p) \in Seq(ToSet(placas))
<1> DEFINE d2(i) == LET c == placas[i].centro IN (c[1] - p[1]) * (c[1] - p[1]) + (c[2] - p[2]) * (c[2] - p[2]) + p[3] * p[3]
           S == {i \in DOMAIN placas : d2(i) \in 0..PlacaDist * PlacaDist - 1}
           orden == Ordena(S, LAMBDA i, j : Antes(<<d2(i), i>>, <<d2(j), j>>))
           f == [i \in S |-> d2(i)]
           n == Cardinality(S)
<1>1. PICK k \in Nat : DOMAIN placas = 1..k
  OBVIOUS
<1>2. S \in SUBSET (1..k)
  BY <1>1
<1>3. IsFiniteSet(S) /\ n \in Nat
  <2>1. IsFiniteSet(1..k)
    BY FS_Interval
  <2> HIDE DEF S
  <2>2. QED
    BY <1>2, <2>1, FS_Subset, FS_CardinalityType
<1>4. f \in [S -> Int]
  <2>1. \A i \in S : d2(i) \in 0..PlacaDist * PlacaDist - 1
    OBVIOUS
  <2> HIDE DEF d2, S
  <2>2. \A i \in S : d2(i) \in Int
    BY <2>1
  <2>3. QED
    BY <2>2
<1>5. \A x, y \in S : Antes(<<d2(y), y>>, <<d2(x), x>>) <=> f[y] < f[x] \/ (f[y] = f[x] /\ y < x)
  <2>1. \A a, b, c, e \in Int : Antes(<<a, b>>, <<c, e>>) <=> a < c \/ (a = c /\ b < e)
    <3>1. TAKE a \in Int, b \in Int, c \in Int, e \in Int
    <3>2. DOMAIN <<a, b>> = {1, 2} /\ 1..1 - 1 = {} /\ 1..2 - 1 = {1}
      OBVIOUS
    <3>3. QED
      BY <3>2 DEF Antes
  <2>2. \A x \in S : d2(x) \in Int /\ f[x] = d2(x) /\ x \in Int
    BY <1>2, <1>4
  <2> HIDE DEF d2, S, f
  <2>3. QED
    BY <2>1, <2>2
<1>6. HayPuesto(S, f)
  <2>1. S \subseteq Int
    BY <1>2
  <2> HIDE DEF S, f
  <2>2. QED
    BY <1>3, <1>4, <2>1, PorDistancia
<1>7. \A i \in 1..n : orden[i] \in S
  <2>1. \A x \in S : {y \in S : Antes(<<d2(y), y>>, <<d2(x), x>>)} = {y \in S : f[y] < f[x] \/ (f[y] = f[x] /\ y < x)}
    <3> HIDE DEF d2, S, f
    <3>1. QED
      BY <1>5
  <2>2. \A i \in 1..n : \E x \in S : Cardinality({y \in S : Antes(<<d2(y), y>>, <<d2(x), x>>)}) = i - 1
    <3> HIDE DEF d2, S, f
    <3>1. QED
      BY <1>6, <2>1 DEF HayPuesto
  <2>3. orden = [i \in 1..n |-> CHOOSE x \in S : Cardinality({y \in S : Antes(<<d2(y), y>>, <<d2(x), x>>)}) = i - 1]
    BY DEF Ordena
  <2> HIDE DEF d2, S, f, orden, n
  <2>4. QED
    BY <2>2, <2>3
<1>8. DOMAIN orden = 1..n
  BY DEF Ordena
<1> DEFINE m == Min({Huecos, Len(orden)})
<1>9. Cercanas(placas, p) = [i \in 1..m |-> placas[orden[i]]]
  BY DEF Cercanas
<1>10. m \in Nat /\ m <= n
  <2>1. orden \in Seq(S) /\ Len(orden) = n
    <3> DEFINE g == [i \in 1..n |-> CHOOSE x \in S : Cardinality({y \in S : Antes(<<d2(y), y>>, <<d2(x), x>>)}) = i - 1]
    <3>1. orden = g
      BY DEF Ordena
    <3>2. g = [i \in 1..n |-> g[i]]
      <4> DEFINE h(i) == CHOOSE x \in S : Cardinality({y \in S : Antes(<<d2(y), y>>, <<d2(x), x>>)}) = i - 1
      <4>1. g = [i \in 1..n |-> h(i)]
        OBVIOUS
      <4> HIDE DEF h, g, n
      <4>2. QED
        BY <4>1
    <3> HIDE DEF orden, g, S, n
    <3>3. \A i \in 1..n : g[i] \in S
      BY <1>7, <3>1
    <3>4. g \in [1..n -> S]
      BY <3>2, <3>3
    <3>5. QED
      BY <1>3, <3>1, <3>4
  <2> HIDE DEF orden, S, n
  <2>2. Huecos \in Nat /\ n \in Nat
    BY <1>3, VisorAssumption
  <2>3. m = IF Huecos <= n THEN Huecos ELSE n
    BY <2>1, <2>2, MenorDe
  <2>4. QED
    BY <2>2, <2>3
<1> HIDE DEF m, orden
<1>11. \A i \in 1..m : placas[orden[i]] \in ToSet(placas)
  <2>1. \A i \in 1..m : orden[i] \in DOMAIN placas
    BY <1>3, <1>7, <1>10
  <2>2. QED
    BY <2>1 DEF ToSet
<1>12. QED
  BY <1>9, <1>10, <1>11

\* A deal of the places: those that keep their plaque keep it, and the others get
\* one of the plaques, or none.
LEMMA ReparteSon ==
    ASSUME NEW huecos, DOMAIN huecos = 1..Huecos, \A i \in 1..Huecos : DOMAIN huecos[i] = {"placa", "clave"},
           NEW P, NEW cerca \in Seq(P)
    PROVE  LET R == Reparte(huecos, cerca)
           IN /\ DOMAIN R = 1..Huecos
              /\ \A i \in 1..Huecos : /\ DOMAIN R[i] = {"placa", "clave"}
                                      /\ R[i] = huecos[i] \/ R[i].placa \in P \/ R[i].clave = Nada
<1> DEFINE quiero == {cerca[n].clave : n \in DOMAIN cerca}
           quedan == {i \in DOMAIN huecos : huecos[i].clave \in quiero}
           puestas == {huecos[i].clave : i \in quedan}
           vale == {pl \in ToSet(cerca) : pl.clave \notin puestas}
           nuevas == Kept(cerca, vale)
           turno(i) == Cardinality({j \in (DOMAIN huecos) \ quedan : j <= i})
           para(i) == IF turno(i) <= Len(nuevas) THEN [placa |-> nuevas[turno(i)], clave |-> nuevas[turno(i)].clave] ELSE HuecoLibre
           R == [i \in DOMAIN huecos |-> IF i \in quedan THEN huecos[i] ELSE para(i)]
<1>1. Reparte(huecos, cerca) = R
  BY DEF Reparte
<1>2. nuevas \in Seq(P \cap vale)
  <2> HIDE DEF vale
  <2>1. QED
    BY KeptIs
<1> HIDE DEF nuevas, quiero
<1>3. \A i \in (1..Huecos) \ quedan : turno(i) \in Nat /\ turno(i) >= 1
  <2>1. TAKE i \in (1..Huecos) \ quedan
  <2> DEFINE T == {j \in (DOMAIN huecos) \ quedan : j <= i}
  <2>2. T \in SUBSET (1..Huecos) /\ i \in T
    BY VisorAssumption
  <2>3. IsFiniteSet(1..Huecos)
    BY VisorAssumption, FS_Interval
  <2> HIDE DEF T
  <2>4. IsFiniteSet(T)
    BY <2>2, <2>3, FS_Subset
  <2>5. Cardinality(T) \in Nat /\ Cardinality(T) # 0
    BY <2>2, <2>4, FS_CardinalityType, FS_EmptySet
  <2>6. QED
    BY <2>5 DEF T
<1> HIDE DEF turno, quedan
<1>4. \A i \in (1..Huecos) \ quedan : DOMAIN para(i) = {"placa", "clave"} /\ (para(i).placa \in P \/ para(i).clave = Nada)
  <2>1. TAKE i \in (1..Huecos) \ quedan
  <2>2. CASE turno(i) <= Len(nuevas)
    <3>1. nuevas[turno(i)] \in P
      BY <1>2, <1>3, <2>2
    <3>2. para(i) = [placa |-> nuevas[turno(i)], clave |-> nuevas[turno(i)].clave]
      BY <2>2
    <3> HIDE DEF para
    <3>3. QED
      BY <3>1, <3>2
  <2>3. CASE ~(turno(i) <= Len(nuevas))
    <3>1. para(i) = HuecoLibre
      BY <2>3
    <3> HIDE DEF para
    <3>2. QED
      BY <3>1 DEF HuecoLibre
  <2>4. QED
    BY <2>2, <2>3
<1> HIDE DEF para
<1>5. DOMAIN R = 1..Huecos /\ \A i \in 1..Huecos : R[i] = IF i \in quedan THEN huecos[i] ELSE para(i)
  OBVIOUS
<1> HIDE DEF R
<1>6. QED
  BY <1>1, <1>4, <1>5

\* The deal of a frame keeps the places with plaques of the list.
LEMMA PlacasDelCuadro ==
    ASSUME NEW M, DOMAIN M = CamposMem, HuecosOK(M), NEW S, NEW dt
    PROVE  LET R == ActualizaPlacas(M, S, dt)
           IN HuecosOK(R) /\ Solo(M, R, {"placaT", "huecos"})
<1> DEFINE R == ActualizaPlacas(M, S, dt)
           cerca == Cercanas(M.placas, Camara(S))
           H == Reparte(M.huecos, cerca)
<1>1. cerca \in Seq(ToSet(M.placas))
  BY CercanasSon DEF HuecosOK
<1> HIDE DEF cerca
<1>2. /\ DOMAIN H = 1..Huecos
      /\ \A i \in 1..Huecos : /\ DOMAIN H[i] = {"placa", "clave"}
                              /\ H[i] = M.huecos[i] \/ H[i].placa \in ToSet(M.placas) \/ H[i].clave = Nada
  BY <1>1, ReparteSon DEF HuecosOK
<1> HIDE DEF H
<1>3. CASE M.placaT + dt < PlacaCada
  <2>1. R = [M EXCEPT !.placaT = M.placaT + dt]
    BY <1>3 DEF ActualizaPlacas
  <2> HIDE DEF R
  <2>2. Solo(M, R, {"placaT", "huecos"}) /\ R.huecos = M.huecos /\ R.placas = M.placas
    BY <2>1 DEF Solo, CamposMem
  <2>3. QED
    BY <2>2 DEF HuecosOK, R
<1>4. CASE ~(M.placaT + dt < PlacaCada)
  <2>1. R = [M EXCEPT !.placaT = 0, !.huecos = H]
    BY <1>4 DEF ActualizaPlacas, H, cerca
  <2> HIDE DEF R
  <2>2. Solo(M, R, {"placaT", "huecos"}) /\ R.huecos = H /\ R.placas = M.placas
    BY <2>1 DEF Solo, CamposMem
  <2>3. HuecosOK(R)
    BY <1>2, <2>2 DEF HuecosOK
  <2>4. QED
    BY <2>2, <2>3 DEF R
<1>5. QED
  BY <1>3, <1>4


\* The plaques of the city are put with the places marked to be dealt again.
LEMMA RehazSon ==
    ASSUME NEW M, DOMAIN M = CamposMem, HuecosOK(M), NEW S, NEW d \in Ciudades
    PROVE  LET R == RehazCiudad(M, S, d) IN DOMAIN R = CamposMem /\ HuecosOK(R) /\ DeLaCiudad(R, d)
<1> DEFINE A == [M EXCEPT !.firma = FirmaCiudad(d)]
           B == CalculaPlacas(A, d)
           C == [B EXCEPT !.lista = Encargos(d), !.listaSel = 0, !.foco = IF FALSE THEN @ ELSE SinFoco]
           D == PonEtiquetas(C, S)
           R == PintaLista(D, S)
<1>1. RehazCiudad(M, S, d) = R
  BY DEF RehazCiudad, PonEncargos
<1>2. DOMAIN A = CamposMem /\ A.firma = FirmaCiudad(d) /\ A.huecos = M.huecos
  BY DEF CamposMem
<1> HIDE DEF A
<1>3. DOMAIN B = CamposMem /\ B.firma = FirmaCiudad(d) /\ B.placas = Placas(d) /\ B.huecos = SinClaves(M.huecos)
  BY <1>2 DEF CamposMem, CalculaPlacas
<1> HIDE DEF B
<1>4. DOMAIN C = CamposMem /\ C.firma = FirmaCiudad(d) /\ C.placas = Placas(d) /\ C.huecos = SinClaves(M.huecos) /\ C.lista = Encargos(d)
  BY <1>3 DEF CamposMem
<1> HIDE DEF C
<1>5. /\ DOMAIN D = CamposMem
      /\ D.placas = C.placas /\ D.huecos = C.huecos /\ D.lista = C.lista /\ D.firma = C.firma
      /\ "items" \in DOMAIN D.encLabels /\ Distritos(D.encLabels.items) = Distritos(C.lista)
  BY <1>4, EncargosSon, EtiquetasSon
<1> HIDE DEF D
<1>6. MemIgual(D, R)
  BY <1>5, MemQuieta
<1> HIDE DEF R
<1>7. /\ DOMAIN R = CamposMem /\ R.firma = FirmaCiudad(d) /\ R.placas = Placas(d) /\ R.huecos = SinClaves(M.huecos) /\ R.lista = Encargos(d)
      /\ "items" \in DOMAIN R.encLabels /\ Distritos(R.encLabels.items) = Distritos(R.lista)
  BY <1>4, <1>5, <1>6 DEF MemIgual
<1>8. HuecosOK(R)
  BY <1>7, PlacasSon DEF HuecosOK, SinClaves
<1>9. QED
  BY <1>1, <1>7, <1>8 DEF DeLaCiudad

\* The city applied is remembered also when its signature is the one of the city
\* before, and nothing is made again.
LEMMA MemCiudadSon ==
    ASSUME NEW M, DOMAIN M = CamposMem, HuecosOK(M), NEW S, NEW d \in Ciudades,
           M.firma = Nada \/ \E e \in Ciudades : DeLaCiudad(M, e)
    PROVE  LET R == MemCiudad(M, S, d) IN DOMAIN R = CamposMem /\ HuecosOK(R) /\ DeLaCiudad(R, d)
<1>1. CASE FirmaCiudad(d) = M.firma
  <2>1. PICK e \in Ciudades : DeLaCiudad(M, e)
    BY <1>1, VisorAssumption
  <2>2. FirmaCiudad(d) = FirmaCiudad(e)
    BY <1>1, <2>1 DEF DeLaCiudad
  <2>3. Encargos(d) = Encargos(e) /\ Placas(d) = Placas(e)
    BY <2>2, FirmaIguales, FirmaEncargos, FirmaPlacas
  <2>4. DeLaCiudad(M, d)
    BY <2>1, <2>2, <2>3 DEF DeLaCiudad
  <2>5. MemCiudad(M, S, d) = M
    BY <1>1 DEF MemCiudad
  <2>6. QED
    BY <2>4, <2>5
<1>2. CASE FirmaCiudad(d) # M.firma
  <2>1. MemCiudad(M, S, d) = RehazCiudad(M, S, d)
    BY <1>2 DEF MemCiudad
  <2>2. QED
    BY <2>1, RehazSon
<1>3. QED
  BY <1>1, <1>2

\* What the memory keeps of a state of the viewer: its city, and whether the map
\* has loaded.
Recuerda(S, M, T, R) == MemIgual(M, R) /\ T.ready = S.ready /\ T.city = S.city /\ T.pending = S.pending

LEMMA RecuerdaSigue ==
    ASSUME NEW S, NEW M, MemOK(S, M), NEW T, NEW R, Recuerda(S, M, T, R)
    PROVE  MemOK(T, R)
<1>1. DOMAIN R = CamposMem /\ HuecosOK(R)
  BY DEF Recuerda, MemIgual, MemOK, HuecosOK
<1>2. \A d : DeLaCiudad(M, d) => DeLaCiudad(R, d)
  BY DEF Recuerda, MemIgual, DeLaCiudad
<1>3. QED
  BY <1>1, <1>2 DEF Recuerda, MemIgual, MemOK

\* The labels put again, for what the memory lists.
LEMMA EtiquetasSigue ==
    ASSUME NEW S, NEW M, MemOK(S, M), S.city \in Ciudades \cup {Nada}, NEW T
    PROVE  MemOK(S, PonEtiquetas(M, T))
<1> DEFINE n == Min({Len(M.lista), MaxEtiquetas})
           item(e) == [distrito |-> e.distrito, punto |-> PuntoEtiqueta(M, e), text |-> Head(e.faltan), priority |-> 3]
           items == [i \in 1..n |-> item(M.lista[i])]
           A == [M EXCEPT !.encLabels = LabelSetSet(items)]
           R == PonEtiquetas(M, T)
<1>1. R = MuestraEtiquetas(A, T)
  BY DEF PonEtiquetas
<1> HIDE DEF items
<1>2. Solo(M, A, {"encLabels"}) /\ DOMAIN A = CamposMem
  BY DEF Solo, MemOK, CamposMem
<1> HIDE DEF A
<1>3. MemIgual(A, R)
  BY <1>1, <1>2, MemQuieta
<1>4. DOMAIN R = CamposMem /\ R.placas = M.placas /\ R.huecos = M.huecos /\ R.lista = M.lista /\ R.firma = M.firma
  BY <1>2, <1>3 DEF MemIgual, Solo, CamposMem
<1>5. HuecosOK(R)
  BY <1>4 DEF MemOK, HuecosOK
<1>6. ASSUME S.ready, S.city # Nada PROVE DeLaCiudad(R, S.city)
  <2>1. S.city \in Ciudades /\ DeLaCiudad(M, S.city)
    BY <1>6 DEF MemOK
  <2>2. M.lista = Encargos(S.city)
    BY <2>1 DEF DeLaCiudad
  <2>3. "items" \in DOMAIN R.encLabels /\ Distritos(R.encLabels.items) = Distritos(M.lista)
    BY <2>1, <2>2, EncargosSon, EtiquetasSon DEF MemOK
  <2> HIDE DEF R
  <2>4. QED
    BY <1>4, <2>1, <2>3 DEF DeLaCiudad
<1> HIDE DEF R
<1>7. QED
  BY <1>4, <1>5, <1>6 DEF MemOK, R

\* A frame of the search for a height keeps the account of the city.
LEMMA BuscaSigue ==
    ASSUME NEW S, NEW M, MemOK(S, M), S.city \in Ciudades \cup {Nada}
    PROVE  MemOK(S, BuscaHueco(M, S).m)
<1> DEFINE R == BuscaHueco(M, S).m
           A == [M EXCEPT !.foco.k = @ + 1, !.foco.cuadros = 0]
<1>1. \/ R = M
      \/ R = [M EXCEPT !.foco.cuadros = @ + 1]
      \/ R = [M EXCEPT !.foco = SinFoco]
      \/ R = [M EXCEPT !.foco.cuadros = @ + 1, !.foco.visto = TRUE]
      \/ R = [M EXCEPT !.foco.cuadros = @ + 1, !.foco.visto = TRUE, !.foco.sinHueco = TRUE]
      \/ R = PonEtiquetas(A, S)
  BY DEF BuscaHueco
<1>2. ASSUME NEW W, Solo(M, W, {"foco"}) PROVE MemOK(S, W)
  <2>1. MemIgual(M, W)
    BY <1>2, MemSolo DEF MemOK
  <2>2. QED
    BY <2>1, RecuerdaSigue DEF Recuerda
<1>3. \/ Solo(M, R, {"foco"})
      \/ R = PonEtiquetas(A, S)
  BY <1>1 DEF Solo
<1>4. Solo(M, A, {"foco"})
  BY DEF Solo
<1> HIDE DEF A, R
<1>5. MemOK(S, PonEtiquetas(A, S))
  BY <1>2, <1>4, EtiquetasSigue
<1>6. QED
  BY <1>2, <1>3, <1>5 DEF R

\* A frame of the memory, with its deal of the plaques.
LEMMA MemCuadroSigue ==
    ASSUME NEW S, NEW M, MemOK(S, M), S.city \in Ciudades \cup {Nada}
    PROVE  MemOK(S, MemCuadro(M, S, 1).m)
<1> DEFINE A == ActualizaPlacas(M, S, 1)
<1>1. HuecosOK(A) /\ Solo(M, A, {"placaT", "huecos"})
  BY PlacasDelCuadro DEF MemOK
<1>2. MemCuadro(M, S, 1) = BuscaHueco(A, S)
  BY DEF MemCuadro
<1> HIDE DEF A
<1>3. DOMAIN A = CamposMem /\ A.firma = M.firma /\ A.lista = M.lista /\ A.placas = M.placas /\ A.encLabels = M.encLabels
  BY <1>1 DEF Solo, MemOK, CamposMem
<1>4. MemOK(S, A)
  BY <1>1, <1>3 DEF MemOK, DeLaCiudad
<1>5. QED
  BY <1>2, <1>4, BuscaSigue

\* A change of the language repaints what is of the city.
LEMMA IdiomaSigue ==
    ASSUME NEW S, NEW M, MemOK(S, M), S.city \in Ciudades \cup {Nada}
    PROVE  MemOK(S, RepintaIdioma(M, S))
<1> DEFINE A == [M EXCEPT !.huecos = SinClaves(@), !.placaT = PlacaCada]
           C == [A EXCEPT !.lista = Encargos(S.city), !.listaSel = 0, !.foco = IF TRUE THEN @ ELSE SinFoco]
           D == PonEtiquetas(C, S)
           B == IF S.city = Nada THEN PintaLista(A, S) ELSE PintaLista(D, S)
<1>1. RepintaIdioma(M, S) = RepintaGuia(B)
  BY DEF RepintaIdioma, PonEncargos
<1>2. /\ DOMAIN A = CamposMem /\ A.firma = M.firma /\ A.lista = M.lista /\ A.placas = M.placas /\ A.encLabels = M.encLabels
      /\ A.huecos = SinClaves(M.huecos)
  BY DEF MemOK, CamposMem
<1> HIDE DEF A
<1>3. HuecosOK(A)
  BY <1>2 DEF HuecosOK, MemOK, SinClaves
<1>4. MemOK(S, A)
  BY <1>2, <1>3 DEF MemOK, DeLaCiudad
<1>5. S.city # Nada => MemOK(S, D)
  <2>1. SUFFICES ASSUME S.city \in Ciudades PROVE MemOK(S, D)
    OBVIOUS
  <2>2. Solo(A, C, {"lista", "listaSel", "foco"}) /\ C.lista = Encargos(S.city)
    BY <1>2 DEF Solo, CamposMem
  <2> HIDE DEF C
  <2>3. DOMAIN C = CamposMem /\ C.firma = A.firma /\ C.placas = A.placas /\ C.encLabels = A.encLabels /\ C.huecos = A.huecos
    BY <1>2, <2>2 DEF Solo, CamposMem
  <2>4. S.ready /\ S.city # Nada => C.lista = A.lista
    BY <1>4, <2>2 DEF MemOK, DeLaCiudad
  <2>5. MemOK(S, C)
    BY <1>3, <1>4, <2>3, <2>4 DEF MemOK, DeLaCiudad, HuecosOK
  <2>6. QED
    BY <2>5, EtiquetasSigue
<1> HIDE DEF D
<1>6. MemOK(S, B)
  <2>1. \A W : MemOK(S, W) => MemOK(S, PintaLista(W, S))
    <3>1. TAKE W
    <3>2. HAVE MemOK(S, W)
    <3>3. MemIgual(W, PintaLista(W, S))
      BY <3>2, MemQuieta DEF MemOK
    <3>4. QED
      BY <3>2, <3>3, RecuerdaSigue DEF Recuerda
  <2>2. QED
    BY <1>4, <1>5, <2>1
<1> HIDE DEF B
<1>7. MemIgual(B, RepintaGuia(B))
  BY <1>6, MemQuieta DEF MemOK
<1>8. QED
  BY <1>1, <1>6, <1>7, RecuerdaSigue DEF Recuerda

\* What is done once a second.
LEMMA SegundoSigue ==
    ASSUME NEW S, NEW M, MemOK(S, M), S.city \in Ciudades \cup {Nada}, NEW i, NEW v
    PROVE  MemOK(S, CadaSegundo(M, S, i, v))
<1> DEFINE A == [M EXCEPT !.idioma = i]
           B == IF i # M.idioma THEN RepintaIdioma(A, S) ELSE M
<1>1. Solo(M, A, {"idioma"})
  BY DEF Solo
<1> HIDE DEF A
<1>2. MemIgual(M, A)
  BY <1>1, MemSolo DEF MemOK
<1>3. MemOK(S, A)
  BY <1>2, RecuerdaSigue DEF Recuerda
<1>4. MemOK(S, B)
  BY <1>3, IdiomaSigue
<1>5. CadaSegundo(M, S, i, v) = MarcaSi(B, "entrar", v)
  BY DEF CadaSegundo, A
<1> HIDE DEF B
<1>6. MemIgual(B, MarcaSi(B, "entrar", v))
  BY <1>4, MemQuieta DEF MemOK
<1>7. QED
  BY <1>4, <1>5, <1>6, RecuerdaSigue DEF Recuerda

\* The calls of the core that go through the hooks of the mode and of the sun
\* leave the account of the city alone.
ConMemoria(E) == DOMAIN E = {"s", "m", "x"} /\ DOMAIN E.m = CamposMem

LEMMA MemModoSigue ==
    ASSUME NEW E, ConMemoria(E), NEW m
    PROVE  LET R == SetMode(E, m) IN ConMemoria(R) /\ MemIgual(E.m, R.m)
<1> DEFINE A == [E EXCEPT !.s = PonModo(@, m)]
           B == [A EXCEPT !.x = PintaBotones(@), !.m = MemModo(@, A.s)]
<1>1. SetMode(E, m) = IF E.s.mode = m THEN E ELSE B
  BY DEF SetMode, EmitirModo
<1>2. DOMAIN A = {"s", "m", "x"} /\ A.m = E.m
  BY DEF ConMemoria
<1> HIDE DEF A
<1>3. DOMAIN B = {"s", "m", "x"} /\ B.m = MemModo(E.m, A.s)
  BY <1>2
<1> HIDE DEF B
<1>4. MemIgual(E.m, B.m)
  BY <1>3, MemQuieta DEF ConMemoria
<1>5. QED
  BY <1>1, <1>3, <1>4, MemIgualNada DEF ConMemoria, MemIgual

\* A step of the core, or of the extras, does not touch the memory.
LEMMA MemResto ==
    ASSUME NEW E, ConMemoria(E), NEW S, NEW X
    PROVE  /\ LET R == [E EXCEPT !.s = S] IN ConMemoria(R) /\ R.m = E.m
           /\ LET R == [E EXCEPT !.x = X] IN ConMemoria(R) /\ R.m = E.m
           /\ LET R == [E EXCEPT !.s = S, !.x = X] IN ConMemoria(R) /\ R.m = E.m
BY DEF ConMemoria

LEMMA MemNucleo ==
    ASSUME NEW E, ConMemoria(E)
    PROVE  /\ LET R == UpdateSun(E) IN ConMemoria(R) /\ R.m = E.m
           /\ \A v : ConDestino(v) => LET R == Vuela1(E, v) IN ConMemoria(R) /\ MemIgual(E.m, R.m)
           /\ LET R == SaleFoto(E) IN ConMemoria(R) /\ MemIgual(E.m, R.m)
           /\ LET R == EntrarVR(E) IN ConMemoria(R) /\ MemIgual(E.m, R.m)
           /\ \A p : LET R == BenchFrame(E, p) IN ConMemoria(R) /\ MemIgual(E.m, R.m)
<1>1. LET R == UpdateSun(E) IN ConMemoria(R) /\ R.m = E.m
  BY DEF UpdateSun, EmitirSol, ConMemoria
<1>2. ASSUME NEW v, ConDestino(v) PROVE LET R == Vuela1(E, v) IN ConMemoria(R) /\ MemIgual(E.m, R.m)
  <2> DEFINE R == Vuela1(E, v)
             A == SetMode(E, "orbit")
  <2>1. \/ R = E
        \/ R = [E EXCEPT !.s.pendingFlight = v]
        \/ R = [E EXCEPT !.s = FlyTo(@, v.arg)]
        \/ R = [E EXCEPT !.s = FlyToLandmark(@, Hitos[1])]
        \/ R = [A EXCEPT !.s = Fly(@, IF v.fn = "city" THEN CityView ELSE SkylineView)]
    <3>1. CASE ~E.s.ready
      BY <3>1 DEF Vuela1
    <3>2. CASE E.s.ready /\ v.fn = "celda"
      BY <3>2 DEF Vuela1
    <3>3. CASE E.s.ready /\ v.fn = "hito"
      BY <3>3 DEF Vuela1
    <3>4. CASE E.s.ready /\ v.fn \in {"skyline", "city"}
      BY <3>4 DEF Vuela1
    <3>5. QED
      BY <1>2, <3>1, <3>2, <3>3, <3>4 DEF ConDestino
  <2>2. ConMemoria(A) /\ MemIgual(E.m, A.m)
    BY MemModoSigue
  <2> HIDE DEF A, R
  <2>3. ConMemoria(R) /\ (R.m = E.m \/ R.m = A.m)
    BY <2>1, <2>2 DEF ConMemoria
  <2>4. QED
    BY <2>2, <2>3, MemIgualNada DEF R
<1>3. ASSUME NEW W, ConMemoria(W) PROVE LET R == SaleFoto(W) IN ConMemoria(R) /\ MemIgual(W.m, R.m)
  <2> DEFINE R == SaleFoto(W)
             g == W.x.foto.guardado
             m == IF W.s.xr THEN W.s.mode ELSE g.mode
             A == [W EXCEPT !.x.foto.activo = FALSE]
             B == SetMode(A, m)
             S == MuestraMarcas(W.x, DevuelvePose(B.s, g))
             X == CierraFoto(B.x)
  <2>1. R = W \/ R = [B EXCEPT !.s = S, !.x = X]
    BY DEF SaleFoto
  <2>2. ConMemoria(A) /\ A.m = W.m
    BY <1>3 DEF ConMemoria
  <2>3. ConMemoria(B) /\ MemIgual(A.m, B.m)
    BY <2>2, MemModoSigue
  <2> HIDE DEF A, B, R, S, X, m
  <2>4. ConMemoria(R) /\ (R.m = W.m \/ R.m = B.m)
    BY <1>3, <2>1, <2>3 DEF ConMemoria
  <2>5. QED
    BY <2>2, <2>3, <2>4, MemIgualNada DEF R
<1>4. LET R == EntrarVR(E) IN ConMemoria(R) /\ MemIgual(E.m, R.m)
  <2> DEFINE A == [E EXCEPT !.s = EnterVR(@)]
  <2>1. ConMemoria(A) /\ A.m = E.m
    BY DEF ConMemoria
  <2>2. EntrarVR(E) = SaleFoto(A)
    BY DEF EntrarVR
  <2> HIDE DEF A
  <2>3. QED
    BY <1>3, <2>1, <2>2
<1>5. ASSUME NEW p PROVE LET R == BenchFrame(E, p) IN ConMemoria(R) /\ MemIgual(E.m, R.m)
  <2> DEFINE R == BenchFrame(E, p)
             i == E.s.bench.i + 1
             modo == IF VistasBench[i] = "a_pie" THEN "walk" ELSE "orbit"
             A == [E EXCEPT !.s.bench = SinMedida]
             B == SetMode(A, E.s.bench.guardado.mode)
             C == SetMode(E, modo)
  <2>1. \/ R = E
        \/ R = [B EXCEPT !.s = BenchDevuelve(@, E.s.bench.guardado)]
        \/ R = [C EXCEPT !.s = [PonBench(@, VistasBench[i]) EXCEPT !.bench.i = i, !.bench.fase = 0]]
        \/ R = [E EXCEPT !.s.bench.fase = @ + 1]
    BY DEF BenchFrame, BenchFin
  <2>2. ConMemoria(A) /\ A.m = E.m
    BY DEF ConMemoria
  <2>3. LET U == [E EXCEPT !.s.bench.fase = @ + 1] IN ConMemoria(U) /\ U.m = E.m
    BY DEF ConMemoria
  <2>4. ConMemoria(B) /\ MemIgual(A.m, B.m) /\ ConMemoria(C) /\ MemIgual(E.m, C.m)
    BY <2>2, MemModoSigue
  <2> HIDE DEF A, B, C, R, modo, i
  <2>5. ConMemoria(R) /\ (R.m = E.m \/ R.m = B.m \/ R.m = C.m)
    BY <2>1, <2>3, <2>4 DEF ConMemoria
  <2>6. QED
    BY <2>2, <2>4, <2>5, MemIgualNada DEF R
<1>6. QED
  BY <1>1, <1>2, <1>3, <1>4, <1>5

(***************************************************************************)
(* The memory through the frames.                                          *)
(***************************************************************************)
\* A viewer whose memory is of its city.
Recordada(E) == ConMemoria(E) /\ E.s.city \in Ciudades \cup {Nada} /\ MemOK(E.s, E.m)

LEMMA RecordadaSigue ==
    ASSUME NEW E, Recordada(E), NEW R, ConMemoria(R), MemIgual(E.m, R.m),
           NEW F, Solo(E.s, R.s, F), F \cap {"ready", "city", "pending"} = {}, DOMAIN E.s = Campos
    PROVE  Recordada(R)
<1>1. R.s.ready = E.s.ready /\ R.s.city = E.s.city /\ R.s.pending = E.s.pending
  BY CamposSon DEF Solo
<1>2. QED
  BY <1>1, RecuerdaSigue DEF Recordada, Recuerda

\* A frame of the modules.
LEMMA MemEmitir ==
    ASSUME NEW E, Sesion(E), Recordada(E), NEW f, t \in 0..MaxT
    PROVE  Recordada(EmitirCuadro(E, f))
<1> DEFINE r == CuadroTormenta(E.x, E.s, t)
           A == Deja(E, r)
           q == CuadroFoto(A.x, A.s, Escena(A.m), f.decimosexto)
           B == Deja(A, q)
           C == Sonido(B)
           p == MemCuadro(C.m, C.s, 1)
           D == Deja(C, p)
           R == Segundo(D, f)
<1>1. EmitirCuadro(E, f) = R
  BY DEF EmitirCuadro, CuadroMemoria, CuadroExtras, Foto
<1>2. DOMAIN r = {"s", "x"} /\ Solo(E.s, r.s, {"luz", "niebla"})
  <2>1. DOMAIN E.x = CamposExt /\ DOMAIN E.s = Campos /\ SonidoOK(E.x) /\ TormentaOK(E.s, E.x) /\ E.s.luz \in Luces
    BY DEF Sesion, NucleoOK
  <2> HIDE DEF r
  <2>2. QED
    BY <2>1, CuadroTormentaIs DEF r
<1> HIDE DEF r
<1>3. DOMAIN A = {"s", "m", "x"} /\ A.s = r.s /\ A.m = E.m
  BY <1>2 DEF Deja, Sesion
<1> HIDE DEF A
<1>4. "mode" \in DOMAIN A.s
  BY <1>2, <1>3, CamposSon DEF Solo, Sesion, DePose
<1>5. DOMAIN q = {"x", "s"} /\ Solo(A.s, q.s, DeVista \cup {"visibles"})
  BY <1>4, FotoMueve
<1> HIDE DEF q
<1>6. DOMAIN B = {"s", "m", "x"} /\ B.s = q.s /\ B.m = E.m
  BY <1>3, <1>5 DEF Deja
<1> HIDE DEF B
<1>7. DOMAIN C = {"s", "m", "x"} /\ C.s = B.s /\ C.m = E.m
  BY <1>6 DEF Sonido
<1> HIDE DEF C
<1>8. Solo(E.s, C.s, {"luz", "niebla"} \cup (DeVista \cup {"visibles"}))
  BY <1>2, <1>3, <1>5, <1>6, <1>7, SoloTrans
<1>9. Recordada(C)
  <2>1. ConMemoria(C) /\ MemIgual(E.m, C.m)
    BY <1>7, MemIgualNada DEF Recordada, ConMemoria
  <2>2. QED
    BY <1>8, <2>1, RecordadaSigue DEF Sesion, DeVista
<1>10. DOMAIN p = {"m", "s"} /\ Solo(C.s, p.s, DeVista)
  BY <1>8, CamposSon, MemoriaMueve DEF Solo, Sesion, DePose
<1>11. MemOK(C.s, p.m)
  BY <1>9, MemCuadroSigue DEF Recordada
<1> HIDE DEF p
<1>12. DOMAIN D = {"s", "m", "x"} /\ D.s = p.s /\ D.m = p.m
  BY <1>7, <1>10 DEF Deja
<1> HIDE DEF D
<1>13. D.s.ready = C.s.ready /\ D.s.city = C.s.city /\ D.s.pending = C.s.pending
  BY <1>8, <1>10, <1>12, CamposSon DEF Solo, Sesion, DeVista
<1>14. Recordada(D)
  BY <1>9, <1>11, <1>12, <1>13 DEF Recordada, ConMemoria, MemOK
<1>15. DOMAIN R = {"s", "m", "x"} /\ R.s = D.s /\ (R.m = D.m \/ R.m = CadaSegundo(D.m, D.s, idioma, dentro))
  BY <1>12 DEF Segundo
<1> HIDE DEF R
<1>16. MemOK(D.s, CadaSegundo(D.m, D.s, idioma, dentro))
  BY <1>14, SegundoSigue DEF Recordada
<1>17. Recordada(R)
  BY <1>14, <1>15, <1>16 DEF Recordada, ConMemoria, MemOK
<1>18. QED
  BY <1>1, <1>17

\* The sun of a frame.
LEMMA MemSol ==
    ASSUME NEW E, Sesion(E), Recordada(E), NEW f, t \in 0..MaxT
    PROVE  Sesion(Sol(E, f)) /\ Recordada(Sol(E, f))
<1> DEFINE R == UpdateSun(E)
<1>1. Sesion(R) /\ Solo(E.s, R.s, {"luz"})
  BY SesionSol
<1>2. ConMemoria(R) /\ R.m = E.m
  BY MemNucleo DEF Recordada
<1> HIDE DEF R
<1>3. Recordada(R)
  BY <1>1, <1>2, MemIgualNada, RecordadaSigue DEF Sesion
<1>4. Sol(E, f) \in {E, R}
  BY DEF Sol, R
<1>5. QED
  BY <1>1, <1>3, <1>4

\* The cull lets some labels through and keeps what they are of.
LEMMA MemPinta ==
    ASSUME NEW E, Sesion(E), Recordada(E), NEW f, t \in 0..MaxT
    PROVE  Recordada(Pinta(E, f))
<1> DEFINE A == Mira(E, f)
           B == Sol(A, f)
           C == EmitirCuadro(B, f)
           D == CullLabels(C, f)
           R == [D EXCEPT !.x = TrasPintar(@)]
<1>1. Pinta(E, f) = R
  BY DEF Pinta
<1>2. DOMAIN A = {"s", "m", "x"} /\ A.x = E.x /\ A.m = E.m /\ A.s = [UpdateCamera(E.s, f.llega, f.mov) EXCEPT !.niebla = FALSE]
  BY DEF Mira, Sesion
<1> HIDE DEF A
<1>3. Solo(E.s, A.s, DeVista \cup {"niebla"})
  <2> DEFINE T == UpdateCamera(E.s, f.llega, f.mov)
  <2>1. Solo(E.s, T, DeVista)
    BY SoloCamara
  <2> HIDE DEF T
  <2>2. Solo(T, A.s, {"niebla"})
    BY <1>2 DEF Solo, T
  <2>3. QED
    BY <2>1, <2>2, SoloTrans
<1>4. Sesion(A)
  BY <1>2, <1>3, MueveVista DEF DeTransito
<1>5. Recordada(A)
  <2>1. ConMemoria(A) /\ MemIgual(E.m, A.m)
    BY <1>2, MemIgualNada DEF Recordada, ConMemoria
  <2>2. QED
    BY <1>3, <2>1, RecordadaSigue DEF Sesion, DeVista
<1>6. Sesion(B) /\ Recordada(B)
  BY <1>4, <1>5, MemSol
<1> HIDE DEF B
<1>7. Sesion(C) /\ Recordada(C)
  BY <1>6, MemEmitir, SesionCuadro
<1> HIDE DEF C
<1>8. ConMemoria(D) /\ D.s = C.s /\ MemIgual(C.m, D.m)
  <2>1. CASE C.m.encLabels = Nada
    <3>1. D = C
      BY <2>1 DEF CullLabels
    <3>2. QED
      BY <1>7, <3>1, MemIgualNada DEF Recordada
  <2>2. CASE C.m.encLabels # Nada
    <3> DEFINE L == C.m.encLabels
               K == Cull(L, IF f.choca THEN DOMAIN L.items ELSE {})
               W == [C.m EXCEPT !.encLabels = K]
    <3>1. D = [C EXCEPT !.m = W]
      BY <2>2 DEF CullLabels
    <3>2. "items" \in DOMAIN L => "items" \in DOMAIN K /\ K.items = L.items
      BY DEF Cull
    <3> HIDE DEF K, D
    <3>3. MemIgual(C.m, W) /\ DOMAIN W = CamposMem
      BY <1>7, <3>2 DEF MemIgual, Recordada, ConMemoria, CamposMem
    <3> HIDE DEF W
    <3>4. QED
      BY <1>7, <3>1, <3>3 DEF Recordada, ConMemoria
  <2>3. QED
    BY <2>1, <2>2
<1> HIDE DEF D
<1>9. ConMemoria(R) /\ R.s = C.s /\ R.m = D.m
  BY <1>8 DEF ConMemoria
<1> HIDE DEF R
<1>10. Recordada(R)
  BY <1>7, <1>8, <1>9, SoloNada, RecordadaSigue DEF Sesion
<1>11. QED
  BY <1>1, <1>10

LEMMA MemFotograma ==
    ASSUME NEW E, Sesion(E), Recordada(E), NEW f, t \in 0..MaxT
    PROVE  Recordada(Cuadro(E, f)) /\ Recordada(XrFrame(E, f))
<1>1. Recordada(Cuadro(E, f))
  <2> DEFINE A == IF E.s.ready THEN Pinta(E, f) ELSE E
             R == BenchFrame(A, f.pasa)
  <2>1. Sesion(A) /\ Recordada(A)
    BY SesionPinta, MemPinta
  <2>2. Cuadro(E, f) = R
    BY DEF Cuadro
  <2> HIDE DEF A
  <2>3. Solo(A.s, R.s, DePose \cup {"bench"})
    BY <2>1, SesionBench
  <2>4. ConMemoria(R) /\ MemIgual(A.m, R.m)
    BY <2>1, MemNucleo DEF Recordada
  <2> HIDE DEF R
  <2>5. QED
    BY <2>1, <2>2, <2>3, <2>4, RecordadaSigue DEF Sesion, DePose, DeVista
<1>2. Recordada(XrFrame(E, f))
  <2> DEFINE pos == <<E.s.rig.pos[1] + f.mov[1], E.s.rig.pos[2] + f.mov[2]>>
             S == XrInput(E.s, pos, 0)
             A == [E EXCEPT !.s = S]
             B == EmitirCuadro(A, f)
  <2>1. XrFrame(E, f) = Sol(B, f)
    BY DEF XrFrame
  <2>2. Solo(E.s, S, DeMarcas)
    BY SoloMarcas
  <2> HIDE DEF S
  <2>3. DOMAIN A = {"s", "m", "x"} /\ A.s = S /\ A.x = E.x /\ A.m = E.m
    BY DEF Sesion
  <2> HIDE DEF A
  <2>4. Sesion(A)
    BY <2>2, <2>3, MueveVista DEF DeTransito
  <2>5. Recordada(A)
    <3>1. ConMemoria(A) /\ MemIgual(E.m, A.m)
      BY <2>3, MemIgualNada DEF Recordada, ConMemoria
    <3>2. QED
      BY <2>2, <2>3, <3>1, RecordadaSigue DEF Sesion, DeMarcas
  <2>6. Sesion(B) /\ Recordada(B)
    BY <2>4, <2>5, MemEmitir, SesionCuadro
  <2> HIDE DEF B
  <2>7. QED
    BY <2>1, <2>6, MemSol
<1>3. QED
  BY <1>1, <1>2

(***************************************************************************)
(* The register of solids.                                                 *)
(***************************************************************************)
\* A register in which every solid is found in every square it touches, and
\* the squares hold no number of nobody.
Indexado(cat) ==
    /\ cat \in Registro
    /\ \A i \in DOMAIN cat.items : \A k \in Toca(cat.items[i]) : i \in ToSet(cat.bins[k])
    /\ \A k \in Cuadricula : ToSet(cat.bins[k]) \subseteq DOMAIN cat.items

\* What one entry does to it.
LEMMA AltaEs ==
    ASSUME NEW cat \in Registro, NEW so \in Solido
    PROVE  LET R == CatastroAlta(cat, so)
               n == Len(cat.items)
           IN /\ R \in Registro /\ R.items = Append(cat.items, so) /\ n \in Nat
              /\ \A k \in Cuadricula : ToSet(R.bins[k]) = IF k \in Toca(so) THEN ToSet(cat.bins[k]) \cup {n + 1} ELSE ToSet(cat.bins[k])
<1> DEFINE n == Len(cat.items)
           u == Append(cat.items, so)
           b == [k \in Cuadricula |-> IF k \in Toca(so) THEN Append(cat.bins[k], n + 1) ELSE cat.bins[k]]
<1>1. cat.items \in Seq(Solido) /\ n \in Nat /\ \A k \in Cuadricula : cat.bins[k] \in Seq(Nat)
  BY DEF Registro
<1>2. CatastroAlta(cat, so) = [items |-> u, bins |-> b]
  BY DEF CatastroAlta
<1>3. u \in Seq(Solido)
  BY <1>1, AppendProperties
<1> HIDE DEF n, u
<1>4. \A k \in Cuadricula : /\ Append(cat.bins[k], n + 1) \in Seq(Nat)
                            /\ ToSet(Append(cat.bins[k], n + 1)) = ToSet(cat.bins[k]) \cup {n + 1}
  <2>1. n + 1 \in Nat
    BY <1>1
  <2>2. QED
    BY <1>1, <2>1, AppendProperties, NoRepeatsMore
<1>5. \A k \in Cuadricula : b[k] = IF k \in Toca(so) THEN Append(cat.bins[k], n + 1) ELSE cat.bins[k]
  OBVIOUS
<1>6. b \in [Cuadricula -> Seq(Nat)]
  BY <1>1, <1>4
<1> HIDE DEF b
<1>7. [items |-> u, bins |-> b] \in Registro
  BY <1>3, <1>6 DEF Registro
<1>8. \A k \in Cuadricula : ToSet(b[k]) = IF k \in Toca(so) THEN ToSet(cat.bins[k]) \cup {n + 1} ELSE ToSet(cat.bins[k])
  BY <1>4, <1>5
<1> DEFINE R == CatastroAlta(cat, so)
<1>9. R.items = u /\ R.bins = b
  BY <1>2
<1> HIDE DEF R
<1>10. R \in Registro
  BY <1>2, <1>7 DEF R
<1>11. QED
  BY <1>1, <1>8, <1>9, <1>10 DEF n, u, R

LEMMA AltaIndexa ==
    ASSUME NEW cat, Indexado(cat), NEW so \in Solido
    PROVE  Indexado(CatastroAlta(cat, so))
<1> DEFINE R == CatastroAlta(cat, so)
           n == Len(cat.items)
<1>1. cat \in Registro /\ cat.items \in Seq(Solido)
  BY DEF Indexado, Registro
<1>2. /\ R \in Registro /\ R.items = Append(cat.items, so) /\ n \in Nat
      /\ \A k \in Cuadricula : ToSet(R.bins[k]) = IF k \in Toca(so) THEN ToSet(cat.bins[k]) \cup {n + 1} ELSE ToSet(cat.bins[k])
  BY <1>1, AltaEs
<1>3. DOMAIN cat.items = 1..n /\ DOMAIN R.items = 1..n + 1 /\ R.items[n + 1] = so /\ \A i \in 1..n : R.items[i] = cat.items[i]
  BY <1>1, <1>2, AppendProperties
<1> HIDE DEF R, n
<1>4. \A i : i \in 1..n + 1 <=> i \in 1..n \/ i = n + 1
  BY <1>2
<1>5. \A x : Toca(x) \subseteq Cuadricula
  BY DEF Toca
<1>6. ASSUME NEW i \in 1..n + 1, NEW k \in Toca(R.items[i]) PROVE i \in ToSet(R.bins[k])
  BY <1>2, <1>3, <1>4, <1>5, <1>6 DEF Indexado
<1>7. ASSUME NEW k \in Cuadricula PROVE ToSet(R.bins[k]) \subseteq 1..n + 1
  <2>1. ToSet(cat.bins[k]) \subseteq 1..n
    BY <1>3 DEF Indexado
  <2>2. QED
    BY <1>2, <1>4, <2>1
<1>8. QED
  BY <1>2, <1>3, <1>6, <1>7 DEF Indexado, R

\* f goes from cat to CatastroAltas entry by entry, within A.
Altas(f, A, cat, sos) ==
    /\ f \in [0..Len(sos) -> A] /\ f[0] = cat
    /\ \A i \in 1..Len(sos) : f[i] = CatastroAlta(f[i - 1], sos[i])
    /\ CatastroAltas(cat, sos) = f[Len(sos)]

LEMMA AltasSon ==
    ASSUME NEW A, NEW cat \in A, NEW sos \in Seq(Solido), \A c \in A, so \in Solido : CatastroAlta(c, so) \in A
    PROVE  \E f : Altas(f, A, cat, sos)
<1> DEFINE n == Len(sos)
           Body(f) == [i \in 0..n |-> IF i = 0 THEN cat ELSE CatastroAlta(f[i - 1], sos[i])]
           step == [i \in 1..n |-> [c \in A |-> CatastroAlta(c, sos[i])]]
           F == CHOOSE f : f = Body(f)
<1>1. n \in Nat /\ \A i \in 1..n : sos[i] \in Solido
  OBVIOUS
<1>2. CatastroAltas(cat, sos) = F[n]
  BY DEF CatastroAltas, Pliega
<1>3. /\ \A i \in 1..n, c \in A : step[i][c] = CatastroAlta(c, sos[i])
      /\ step \in [1..n -> [A -> A]]
  BY <1>1
<1> HIDE DEF n, step
<1>4. PICK f : IsRecursion(f, n, A, cat, step)
  BY <1>1, <1>3, RecursionOverNat
<1>5. /\ f \in [0..n -> A] /\ f[0] = cat
      /\ \A i \in 1..n : i - 1 \in 0..n /\ f[i] = step[i][f[i - 1]]
  BY <1>1, <1>4 DEF IsRecursion
<1>6. \A i \in 1..n : f[i] = CatastroAlta(f[i - 1], sos[i])
  BY <1>3, <1>5
<1>7. f = Body(f)
  <2>1. \A i \in 0..n : i # 0 => i \in 1..n
    BY <1>1
  <2>2. f = [i \in 0..n |-> f[i]]
    BY <1>5
  <2>3. QED
    BY <1>5, <1>6, <2>1, <2>2
<1>8. F = Body(F)
  <2> HIDE DEF Body
  <2>1. QED
    BY <1>7
<1> HIDE DEF F
<1>9. GoAlike(F, f, n)
  <2>1. 0 \in 0..n /\ \A i \in 1..n : i \in 0..n /\ i # 0
    BY <1>1
  <2>2. \A i \in 0..n : F[i] = IF i = 0 THEN cat ELSE CatastroAlta(F[i - 1], sos[i])
    BY <1>8
  <2>3. QED
    BY <1>5, <1>6, <2>1, <2>2 DEF GoAlike
<1>10. F[n] = f[n]
  BY <1>1, <1>9, SameRecursion
<1>11. QED
  BY <1>2, <1>5, <1>6, <1>10 DEF Altas, n

\* Entering a list leaves it behind what there was.
LEMMA AltasIndexan ==
    ASSUME NEW cat, Indexado(cat), NEW sos \in Seq(Solido)
    PROVE  Indexado(CatastroAltas(cat, sos)) /\ CatastroAltas(cat, sos).items = cat.items \o sos
<1> DEFINE A == {c \in Registro : Indexado(c)}
           n == Len(sos)
           m == Len(cat.items)
           c == cat.items \o sos
<1>1. /\ cat \in A /\ n \in Nat /\ m \in Nat /\ cat.items \in Seq(Solido)
      /\ \A i \in 1..n : sos[i] \in Solido
  BY DEF Indexado, Registro
<1>2. \A x \in A, so \in Solido : CatastroAlta(x, so) \in A
  <2>1. TAKE x \in A, so \in Solido
  <2>2. Indexado(CatastroAlta(x, so))
    BY AltaIndexa
  <2>3. QED
    BY <2>2 DEF Indexado
<1>3. PICK f : Altas(f, A, cat, sos)
  <2> HIDE DEF A
  <2>1. QED
    BY <1>1, <1>2, AltasSon
<1>4. /\ f \in [0..n -> A] /\ f[0] = cat /\ CatastroAltas(cat, sos) = f[n]
      /\ \A i \in 1..n : i - 1 \in 0..n /\ f[i] = CatastroAlta(f[i - 1], sos[i])
  BY <1>1, <1>3 DEF Altas
<1>5. \A i \in 0..n : f[i] \in Registro /\ Indexado(f[i]) /\ f[i].items \in Seq(Solido)
  BY <1>4 DEF Registro
<1>6. /\ c \in Seq(Solido) /\ Len(c) = m + n
      /\ \A i \in 1..m + n : c[i] = IF i <= m THEN cat.items[i] ELSE sos[i - m]
  BY <1>1, ConcatProperties
<1> HIDE DEF A, n, m, c
<1> DEFINE Va(i) == Len(f[i].items) = m + i /\ \A j \in 1..m + i : f[i].items[j] = c[j]
           T == {i \in Nat : i <= n => Va(i)}
<1>7. 0 \in T
  <2>1. Len(f[0].items) = m + 0 /\ f[0].items = cat.items
    BY <1>1, <1>4 DEF m
  <2>2. \A j \in 1..m + 0 : cat.items[j] = c[j]
    BY <1>1, <1>6
  <2>3. QED
    BY <2>1, <2>2
<1>8. ASSUME NEW i \in Nat, i \in T PROVE i + 1 \in T
  <2>1. SUFFICES ASSUME i + 1 <= n PROVE Va(i + 1)
    OBVIOUS
  <2>2. i + 1 \in 1..n /\ (i + 1) - 1 = i /\ i \in 0..n /\ Va(i)
    BY <1>1, <1>8, <2>1
  <2>3. f[i] \in Registro /\ f[i].items \in Seq(Solido) /\ sos[i + 1] \in Solido
    BY <1>1, <1>5, <2>2
  <2>4. f[i + 1].items = Append(f[i].items, sos[i + 1])
    <3> DEFINE x == f[i]
    <3>1. f[i + 1] = CatastroAlta(x, sos[i + 1]) /\ x \in Registro
      BY <1>4, <2>2, <2>3
    <3> HIDE DEF x
    <3>2. CatastroAlta(x, sos[i + 1]).items = Append(x.items, sos[i + 1])
      BY <2>3, <3>1, AltaEs
    <3>3. QED
      BY <3>1, <3>2 DEF x
  <2> DEFINE x == f[i].items
             e == sos[i + 1]
             u == Append(x, e)
  <2>5. Len(u) = Len(x) + 1 /\ u[Len(x) + 1] = e /\ \A j \in 1..Len(x) : u[j] = x[j]
    BY <2>3, AppendProperties
  <2>6. Len(x) = m + i /\ \A j \in 1..m + i : x[j] = c[j]
    BY <2>2
  <2>7. c[m + i + 1] = e
    <3>1. m + i + 1 \in 1..m + n /\ ~(m + i + 1 <= m) /\ (m + i + 1) - m = i + 1
      BY <1>1, <2>1, <2>2
    <3>2. QED
      BY <1>6, <3>1
  <2>8. f[i + 1].items = u
    BY <2>4
  <2> HIDE DEF u, x, e
  <2>9. Len(u) = m + (i + 1) /\ \A j \in 1..m + (i + 1) : u[j] = c[j]
    <3>1. \A j \in 1..m + (i + 1) : j \in 1..m + i \/ j = m + i + 1
      BY <1>1
    <3>2. Len(u) = m + (i + 1) /\ u[m + i + 1] = e /\ \A j \in 1..m + i : u[j] = x[j]
      BY <1>1, <2>5, <2>6
    <3>3. QED
      BY <2>6, <2>7, <3>1, <3>2
  <2>10. QED
    BY <2>8, <2>9
<1>9. Nat \subseteq T
  <2> HIDE DEF T
  <2>1. QED
    BY <1>7, <1>8, InductionOverNat
<1>10. Va(n)
  BY <1>1, <1>9
<1>11. f[n].items = c
  BY <1>1, <1>5, <1>6, <1>10, SeqEqual
<1>12. QED
  BY <1>1, <1>4, <1>5, <1>11 DEF c

\* The empty one.
LEMMA NuevoIndexado == Indexado(CatastroNuevo) /\ CatastroNuevo.items = <<>>
<1> DEFINE b == [k \in Cuadricula |-> <<>>]
<1>1. CatastroNuevo = [items |-> <<>>, bins |-> b]
  BY DEF CatastroNuevo
<1>2. \A k \in Cuadricula : b[k] = <<>>
  OBVIOUS
<1>3. b \in [Cuadricula -> Seq(Nat)]
  OBVIOUS
<1>4. <<>> \in Seq(Solido) /\ DOMAIN (<<>>) = {} /\ ToSet(<<>>) = {}
  BY DEF ToSet
<1> HIDE DEF b
<1>5. QED
  BY <1>1, <1>2, <1>3, <1>4 DEF Indexado, Registro

\* The register built from a list has it, in order.
LEMMA ReconstruyeSon ==
    ASSUME NEW sos \in Seq(Solido)
    PROVE  Indexado(CatastroReconstruye(sos)) /\ CatastroReconstruye(sos).items = sos
<1>1. <<>> \o sos = sos
  BY ConcatEmptySeq
<1>2. QED
  BY <1>1, NuevoIndexado, AltasIndexan DEF CatastroReconstruye

\* Those of some kinds taken out, and a list of those kinds put in.
LEMMA Recambio ==
    ASSUME NEW cat, Indexado(cat), NoRepeats(cat.items), NEW tipos,
           NEW sos \in Seq(Solido), NoRepeats(sos), \A so \in ToSet(sos) : so.tipo \in tipos
    PROVE  LET R == CatastroAltas(CatastroQuita(cat, tipos), sos)
           IN /\ Indexado(R) /\ NoRepeats(R.items)
              /\ ToSet(R.items) = {so \in ToSet(cat.items) : so.tipo \notin tipos} \cup ToSet(sos)
<1> DEFINE keep == {so \in ToSet(cat.items) : so.tipo \notin tipos}
           K == Kept(cat.items, keep)
           Q == CatastroQuita(cat, tipos)
           R == CatastroAltas(Q, sos)
<1>1. cat.items \in Seq(Solido)
  BY DEF Indexado, Registro
<1>2. K \in Seq(Solido \cap keep) /\ ToSet(K) = ToSet(cat.items) \cap keep
  BY <1>1, KeptIs
<1>3. NoRepeats(K)
  BY <1>1, NoRepeatsKept
<1>4. Q = CatastroReconstruye(K)
  BY DEF CatastroQuita
<1>5. ToSet(K) = keep
  BY <1>2
<1> HIDE DEF K, keep
<1>6. K \in Seq(Solido)
  <2>1. Solido \cap keep \subseteq Solido
    OBVIOUS
  <2>2. QED
    BY <1>2, <2>1, SeqMonotonic
<1>7. Indexado(Q) /\ Q.items = K
  BY <1>4, <1>6, ReconstruyeSon
<1> HIDE DEF Q
<1>8. Indexado(R) /\ R.items = K \o sos
  BY <1>7, AltasIndexan
<1> HIDE DEF R
<1>9. ToSet(K) \cap ToSet(sos) = {}
  BY <1>5 DEF keep
<1>10. NoRepeats(R.items) /\ ToSet(R.items) = ToSet(K) \cup ToSet(sos)
  BY <1>3, <1>6, <1>8, <1>9, NoRepeatsConcat, ToSetConcat
<1>11. QED
  BY <1>5, <1>8, <1>10 DEF keep, R, Q

(***************************************************************************)
(* The plan of the quarters.                                               *)
(***************************************************************************)
\* What the planner works on.
Obra == [cat : Registro, fan : Registro, lista : Seq(Solido), sv : Nat, edificios : Seq(Seq(Solido))]

\* Buildings of the quarter i, none twice, and numbered below n.
DelBarrio(lista, i) ==
    /\ lista \in Seq(Solido) /\ NoRepeats(lista)
    /\ \A so \in ToSet(lista) : so.tipo \in TiposBarrio /\ so.id[2] = i
Numerados(lista, n) == \A so \in ToSet(lista) : so.id[3] \in Nat /\ so.id[3] < n

\* The attempts of a quarter are places.
Lugar == [x : Int, z : Int, w : Int, d : Int, agua : BOOLEAN, calle : BOOLEAN, via : BOOLEAN, kind : TiposBarrio]

LEMMA LugaresSon ==
    ASSUME NEW i \in DOMAIN Intentos
    PROVE  i \in Nat /\ Intentos[i].lugares \in Seq(Lugar)
<1>1. Intentos \in Seq([cuenta : Nat, lugares : Seq(Lugar)])
  BY NucleoAssumption DEF Lugar
<1>2. i \in Nat /\ Intentos[i] \in [cuenta : Nat, lugares : Seq(Lugar)]
  <2>1. \A S : \A u \in Seq(S) : \A j \in DOMAIN u : j \in Nat /\ u[j] \in S
    OBVIOUS
  <2>2. QED
    BY <1>1, <2>1
<1> DEFINE y == Intentos[i]
<1>3. y \in [cuenta : Nat, lugares : Seq(Lugar)]
  BY <1>2
<1> HIDE DEF y
<1>4. y.lugares \in Seq(Lugar)
  BY <1>3
<1>5. QED
  BY <1>2, <1>4 DEF y

LEMMA CeldaDe ==
    ASSUME NEW x \in Int, NEW z \in Int
    PROVE  CellOf(x, z) \in (Int \X Int) \cup {Nada}
<1>1. Celda \in Nat /\ Celda > 0
  BY NucleoAssumption
<1>2. \A v \in Int, c \in Nat : c > 0 => v \div c \in Int
  OBVIOUS
<1>3. x \div Celda \in Int /\ z \div Celda \in Int
  BY <1>1, <1>2
<1>4. QED
  BY <1>3 DEF CellOf

\* Whatever ground is free, the quarter gets at most one building more, with the
\* next number.
LEMMA PlantaUno ==
    ASSUME NEW i \in DOMAIN Intentos, NEW a \in ToSet(Intentos[i].lugares), NEW e \in Obra,
           DelBarrio(e.lista, i), Numerados(e.lista, Len(e.lista) + e.sv)
    PROVE  LET R == Planta(e, i, a)
           IN /\ R \in Obra /\ R.edificios = e.edificios
              /\ DelBarrio(R.lista, i) /\ Numerados(R.lista, Len(R.lista) + R.sv)
<1> DEFINE tipos == TiposBarrio \cup {"hito", "parcela"}
           n == Len(e.lista) + e.sv
           so == SolidoDe(i, n, a)
           A == [e EXCEPT !.sv = @ + 1, !.fan = CatastroAlta(@, so)]
           B == [e EXCEPT !.cat = CatastroAlta(@, so), !.lista = Append(@, so)]
           R == Planta(e, i, a)
<1>1. R \in {e, A, B}
  BY DEF Planta
<1>2. e.lista \in Seq(Solido) /\ Len(e.lista) \in Nat /\ e.sv \in Nat /\ n \in Nat /\ e.cat \in Registro /\ e.fan \in Registro
  BY DEF Obra
<1>3. i \in Nat /\ a.x \in Int /\ a.z \in Int /\ a.w \in Int /\ a.d \in Int /\ a.kind \in TiposBarrio
  <2>1. i \in Nat /\ Intentos[i].lugares \in Seq(Lugar)
    BY LugaresSon
  <2>2. PICK j \in DOMAIN Intentos[i].lugares : a = Intentos[i].lugares[j]
    BY DEF ToSet
  <2>3. a \in Lugar
    BY <2>1, <2>2
  <2>4. QED
    BY <2>1, <2>3 DEF Lugar
<1>4. CellOf(a.x, a.z) \in (Int \X Int) \cup {Nada}
  BY <1>3, CeldaDe
<1>5. so = [id |-> <<a.kind, i, n>>, tipo |-> a.kind, x |-> a.x, z |-> a.z, hw |-> a.w \div 2, hd |-> a.d \div 2, celda |-> CellOf(a.x, a.z)]
  BY DEF SolidoDe
<1> HIDE DEF n, so
<1>6. so \in Solido /\ so.tipo \in TiposBarrio /\ so.id[2] = i /\ so.id[3] = n
  <2>1. a.kind \in tipos
    BY <1>3
  <2>2. <<a.kind, i, n>> \in tipos \X Nat \X Nat
    BY <1>2, <1>3, <2>1
  <2>3. a.w \div 2 \in Int /\ a.d \div 2 \in Int
    BY <1>3
  <2>4. QED
    BY <1>3, <1>4, <1>5, <2>1, <2>2, <2>3 DEF Solido
<1>7. CASE R = e
  BY <1>7
<1>8. CASE R = A
  <2>1. CatastroAlta(e.fan, so) \in Registro
    BY <1>2, <1>6, AltaEs
  <2>2. A \in Obra /\ A.edificios = e.edificios /\ A.lista = e.lista /\ A.sv = e.sv + 1
    <3> DEFINE u == [e EXCEPT !.sv = @ + 1]
               g == CatastroAlta(e.fan, so)
    <3>1. u \in Obra /\ u.edificios = e.edificios /\ u.lista = e.lista /\ u.sv = e.sv + 1 /\ u.fan = e.fan
      <4> DEFINE w == e.sv + 1
      <4>1. w \in Nat /\ u = [e EXCEPT !.sv = w]
        BY <1>2
      <4> HIDE DEF u, w
      <4>2. u \in Obra /\ u.edificios = e.edificios /\ u.lista = e.lista /\ u.sv = w /\ u.fan = e.fan
        BY <4>1 DEF Obra
      <4>3. QED
        BY <4>2 DEF w
    <3>2. A = [u EXCEPT !.fan = g]
      BY <3>1
    <3>3. g \in Registro
      BY <2>1
    <3> HIDE DEF A, u, g
    <3>4. QED
      BY <3>1, <3>2, <3>3 DEF Obra
  <2>3. \A k \in Nat : k < n => k < Len(e.lista) + (e.sv + 1)
    BY <1>2 DEF n
  <2>4. Numerados(A.lista, Len(A.lista) + A.sv)
    BY <2>2, <2>3 DEF Numerados, n
  <2>5. QED
    BY <1>8, <2>2, <2>4
<1>9. CASE R = B
  <2>1. CatastroAlta(e.cat, so) \in Registro
    BY <1>2, <1>6, AltaEs
  <2>2. Append(e.lista, so) \in Seq(Solido) /\ Len(Append(e.lista, so)) = Len(e.lista) + 1
    BY <1>2, <1>6, AppendProperties
  <2>3. B \in Obra /\ B.edificios = e.edificios /\ B.lista = Append(e.lista, so) /\ B.sv = e.sv
    BY <1>2, <2>1, <2>2 DEF Obra
  <2>4. so \notin ToSet(e.lista)
    <3>1. \A k \in ToSet(e.lista) : k.id[3] \in Nat /\ k.id[3] < n
      BY DEF Numerados, n
    <3>2. ~(n < n)
      BY <1>2
    <3>3. QED
      BY <1>6, <3>1, <3>2
  <2>5. ToSet(B.lista) = ToSet(e.lista) \cup {so} /\ NoRepeats(B.lista)
    BY <1>2, <1>6, <2>3, <2>4, NoRepeatsMore DEF DelBarrio
  <2>6. DelBarrio(B.lista, i)
    BY <1>6, <2>2, <2>3, <2>5 DEF DelBarrio
  <2>7. \A k \in Nat : k < n \/ k = n => k < (Len(e.lista) + 1) + e.sv
    BY <1>2 DEF n
  <2>8. Numerados(B.lista, Len(B.lista) + B.sv)
    <3>1. \A k \in ToSet(B.lista) : k.id[3] \in Nat /\ (k.id[3] < n \/ k.id[3] = n)
      BY <1>2, <1>6, <2>5 DEF Numerados, n
    <3>2. Len(B.lista) + B.sv = (Len(e.lista) + 1) + e.sv
      BY <2>2, <2>3
    <3>3. QED
      BY <2>7, <3>1, <3>2 DEF Numerados
  <2>9. QED
    BY <1>9, <2>3, <2>6, <2>8
<1>10. QED
  BY <1>1, <1>7, <1>8, <1>9

\* A quarter is planned place by place, and what the plan had stays.
LEMMA PlantaBarrioSon ==
    ASSUME NEW i \in DOMAIN Intentos, NEW p \in Obra
    PROVE  \E lista : DelBarrio(lista, i) /\ PlantaBarrio(p, i) \in Obra /\ PlantaBarrio(p, i).edificios = Append(p.edificios, lista)
<1> DEFINE nuevo == [p EXCEPT !.lista = <<>>, !.sv = 0]
           sec == Intentos[i].lugares
           n == Len(sec)
           A == {e \in Obra : e.edificios = p.edificios /\ DelBarrio(e.lista, i) /\ Numerados(e.lista, Len(e.lista) + e.sv)}
           Body(f) == [j \in 0..n |-> IF j = 0 THEN nuevo ELSE Planta(f[j - 1], i, sec[j])]
           step == [j \in 1..n |-> [e \in A |-> Planta(e, i, sec[j])]]
           F == CHOOSE f : f = Body(f)
<1>1. n \in Nat /\ \A j \in 1..n : sec[j] \in ToSet(sec)
  <2> HIDE DEF sec
  <2>1. sec \in Seq(Lugar)
    BY LugaresSon DEF sec
  <2>2. QED
    BY <2>1 DEF ToSet
<1>2. nuevo \in A
  <2>1. <<>> \in Seq(Solido) /\ NoRepeats(<<>>) /\ ToSet(<<>>) = {}
    BY DEF NoRepeats, ToSet
  <2>2. nuevo \in Obra /\ nuevo.edificios = p.edificios /\ nuevo.lista = <<>>
    BY <2>1 DEF Obra
  <2> HIDE DEF nuevo
  <2>3. QED
    BY <2>1, <2>2 DEF DelBarrio, Numerados
<1>3. PlantaBarrio(p, i) = [F[n] EXCEPT !.edificios = Append(@, F[n].lista)]
  BY DEF PlantaBarrio, Pliega
<1> HIDE DEF nuevo, n
<1>4. /\ \A j \in 1..n, e \in A : step[j][e] = Planta(e, i, sec[j])
      /\ step \in [1..n -> [A -> A]]
  <2>1. \A j \in 1..n, e \in A : Planta(e, i, sec[j]) \in A
    BY <1>1, PlantaUno
  <2> HIDE DEF A
  <2>2. QED
    BY <2>1
<1> HIDE DEF step, A, sec
<1>5. PICK f : IsRecursion(f, n, A, nuevo, step)
  BY <1>1, <1>2, <1>4, RecursionOverNat
<1>6. /\ f \in [0..n -> A] /\ f[0] = nuevo
      /\ \A j \in 1..n : j - 1 \in 0..n /\ f[j] = step[j][f[j - 1]]
  BY <1>1, <1>5 DEF IsRecursion
<1>7. \A j \in 1..n : f[j] = Planta(f[j - 1], i, sec[j])
  BY <1>4, <1>6
<1>8. f = Body(f)
  <2>1. \A j \in 0..n : j # 0 => j \in 1..n
    BY <1>1
  <2>2. f = [j \in 0..n |-> f[j]]
    BY <1>6
  <2>3. QED
    BY <1>6, <1>7, <2>1, <2>2
<1>9. F = Body(F)
  <2> HIDE DEF Body
  <2>1. QED
    BY <1>8
<1> HIDE DEF F
<1>10. GoAlike(F, f, n)
  <2>1. 0 \in 0..n /\ \A j \in 1..n : j \in 0..n /\ j # 0
    BY <1>1
  <2>2. \A j \in 0..n : F[j] = IF j = 0 THEN nuevo ELSE Planta(F[j - 1], i, sec[j])
    BY <1>9
  <2>3. QED
    BY <1>6, <1>7, <2>1, <2>2 DEF GoAlike
<1>11. F[n] = f[n] /\ f[n] \in A
  <2>1. n \in 0..n
    BY <1>1
  <2>2. \A j \in 0..n : F[j] = f[j]
    BY <1>1, <1>10, SameRecursion
  <2>3. QED
    BY <1>6, <2>1, <2>2
<1>12. PICK e \in Obra : e = F[n] /\ e.edificios = p.edificios /\ DelBarrio(e.lista, i)
  BY <1>11 DEF A
<1>13. e.lista \in Seq(Solido) /\ e.edificios \in Seq(Seq(Solido))
  BY DEF Obra
<1>14. Append(e.edificios, e.lista) \in Seq(Seq(Solido))
  BY <1>13, AppendProperties
<1>15. [e EXCEPT !.edificios = Append(@, e.lista)] \in Obra
  BY <1>14 DEF Obra
<1>16. [e EXCEPT !.edificios = Append(@, e.lista)].edificios = Append(p.edificios, e.lista)
  BY <1>12 DEF Obra
<1>17. QED
  BY <1>3, <1>12, <1>15, <1>16

\* A plan is a list of quarters, with its own buildings each.
Plano(edificios) == edificios \in Seq(Seq(Solido)) /\ \A i \in DOMAIN edificios : DelBarrio(edificios[i], i)

LEMMA PlanoEs == Plano(PlanificarBarrios)
<1> DEFINE solar == [cat |-> CatastroReconstruye(Hitos), fan |-> CatastroNuevo, lista |-> <<>>, sv |-> 0, edificios |-> <<>>]
           sec == [i \in DOMAIN Intentos |-> i]
           n == Len(sec)
           Body(f) == [j \in 0..n |-> IF j = 0 THEN solar ELSE PlantaBarrio(f[j - 1], sec[j])]
           step == [j \in 1..n |-> [e \in Obra |-> PlantaBarrio(e, sec[j])]]
           F == CHOOSE f : f = Body(f)
<1>1. n \in Nat /\ \A j \in 1..n : sec[j] \in DOMAIN Intentos /\ sec[j] = j
  <2>1. PICK k \in Nat : DOMAIN Intentos = 1..k
    BY NucleoAssumption
  <2>2. sec \in Seq(Nat) /\ Len(sec) = k
    BY <2>1
  <2>3. QED
    BY <2>1, <2>2
<1>2. solar \in Obra
  <2>1. CatastroReconstruye(Hitos) \in Registro
    BY NucleoAssumption, ReconstruyeSon DEF Indexado
  <2>2. CatastroNuevo \in Registro
    BY NuevoIndexado DEF Indexado
  <2>3. <<>> \in Seq(Solido) /\ <<>> \in Seq(Seq(Solido))
    OBVIOUS
  <2>4. QED
    BY <2>1, <2>2, <2>3 DEF Obra
<1>3. PlanificarBarrios = F[n].edificios
  BY DEF PlanificarBarrios, Pliega
<1> HIDE DEF solar, sec, n
<1>4. /\ \A j \in 1..n, e \in Obra : step[j][e] = PlantaBarrio(e, sec[j])
      /\ step \in [1..n -> [Obra -> Obra]]
  <2>1. \A j \in 1..n, e \in Obra : PlantaBarrio(e, sec[j]) \in Obra
    BY <1>1, PlantaBarrioSon
  <2>2. QED
    BY <2>1
<1> HIDE DEF step
<1>5. PICK f : IsRecursion(f, n, Obra, solar, step)
  BY <1>1, <1>2, <1>4, RecursionOverNat
<1>6. /\ f \in [0..n -> Obra] /\ f[0] = solar
      /\ \A j \in 1..n : j - 1 \in 0..n /\ f[j] = step[j][f[j - 1]]
  BY <1>1, <1>5 DEF IsRecursion
<1>7. \A j \in 1..n : f[j] = PlantaBarrio(f[j - 1], sec[j])
  BY <1>4, <1>6
<1>8. f = Body(f)
  <2>1. \A j \in 0..n : j # 0 => j \in 1..n
    BY <1>1
  <2>2. f = [j \in 0..n |-> f[j]]
    BY <1>6
  <2>3. QED
    BY <1>6, <1>7, <2>1, <2>2
<1>9. F = Body(F)
  <2> HIDE DEF Body
  <2>1. QED
    BY <1>8
<1> HIDE DEF F
<1>10. GoAlike(F, f, n)
  <2>1. 0 \in 0..n /\ \A j \in 1..n : j \in 0..n /\ j # 0
    BY <1>1
  <2>2. \A j \in 0..n : F[j] = IF j = 0 THEN solar ELSE PlantaBarrio(F[j - 1], sec[j])
    BY <1>9
  <2>3. QED
    BY <1>6, <1>7, <2>1, <2>2 DEF GoAlike
<1>11. F[n] = f[n]
  BY <1>1, <1>10, SameRecursion
<1> DEFINE T == {i \in Nat : i <= n => Plano(f[i].edificios) /\ Len(f[i].edificios) = i}
<1>12. 0 \in T
  <2>1. f[0].edificios = <<>>
    BY <1>6 DEF solar
  <2>2. <<>> \in Seq(Seq(Solido)) /\ Len(<<>>) = 0 /\ DOMAIN (<<>>) = {}
    OBVIOUS
  <2>3. QED
    BY <2>1, <2>2 DEF Plano
<1>13. ASSUME NEW i \in Nat, i \in T PROVE i + 1 \in T
  <2>1. SUFFICES ASSUME i + 1 <= n PROVE Plano(f[i + 1].edificios) /\ Len(f[i + 1].edificios) = i + 1
    OBVIOUS
  <2>2. i + 1 \in 1..n /\ (i + 1) - 1 = i /\ i \in 0..n /\ Plano(f[i].edificios) /\ Len(f[i].edificios) = i
    BY <1>1, <1>13, <2>1
  <2>3. f[i + 1] = PlantaBarrio(f[i], i + 1) /\ f[i] \in Obra /\ i + 1 \in DOMAIN Intentos
    BY <1>1, <1>6, <1>7, <2>2
  <2>4. PICK lista : DelBarrio(lista, i + 1) /\ f[i + 1].edificios = Append(f[i].edificios, lista)
    BY <2>3, PlantaBarrioSon
  <2> DEFINE x == f[i].edificios
             u == Append(x, lista)
  <2>5. x \in Seq(Seq(Solido)) /\ Len(x) = i /\ \A k \in 1..i : DelBarrio(x[k], k)
    BY <2>2 DEF Plano
  <2>6. f[i + 1].edificios = u
    BY <2>4
  <2> HIDE DEF x
  <2>7. u \in Seq(Seq(Solido)) /\ Len(u) = i + 1 /\ u[i + 1] = lista /\ \A k \in 1..i : u[k] = x[k]
    BY <2>4, <2>5, AppendProperties DEF DelBarrio
  <2> HIDE DEF u
  <2>8. \A k \in 1..i + 1 : k \in 1..i \/ k = i + 1
    OBVIOUS
  <2>9. DOMAIN u = 1..i + 1 /\ \A k \in 1..i + 1 : DelBarrio(u[k], k)
    BY <2>4, <2>5, <2>7, <2>8
  <2>10. QED
    BY <2>6, <2>7, <2>9 DEF Plano
<1>14. Nat \subseteq T
  <2> HIDE DEF T
  <2>1. QED
    BY <1>12, <1>13, InductionOverNat
<1>15. QED
  BY <1>1, <1>3, <1>11, <1>14

(***************************************************************************)
(* What is drawn of a plan, and the parcels of a city.                     *)
(***************************************************************************)
\* What the quality and the parcels leave of a quarter is of the quarter.
LEMMA VisiblesSon ==
    ASSUME NEW i, NEW lista, DelBarrio(lista, i), NEW q \in DOMAIN Fraccion, NEW oculto
    PROVE  DelBarrio(Visibles(lista, q, oculto), i)
<1> DEFINE n == Len(lista)
           m == (n * Fraccion[q] + 5) \div 10
           p == SubSeq(lista, 1, m)
           keep == {so \in ToSet(p) : so.id \notin oculto}
<1>1. n \in Nat /\ lista \in Seq(Solido) /\ lista \in [1..n -> Solido]
  BY DEF DelBarrio
<1> HIDE DEF n
<1>2. m \in Nat /\ m <= n
  <2> DEFINE k == Fraccion[q]
  <2>1. k \in 0..10
    BY NucleoAssumption
  <2>2. k \in {0, 1, 2, 3, 4, 5, 6, 7, 8, 9, 10}
    BY <2>1
  <2> HIDE DEF k
  <2>3. \A j \in {0, 1, 2, 3, 4, 5, 6, 7, 8, 9, 10} : (n * j + 5) \div 10 \in Nat /\ (n * j + 5) \div 10 <= n
    BY <1>1
  <2>4. QED
    BY <2>2, <2>3 DEF k
<1>3. Visibles(lista, q, oculto) = Kept(p, keep)
  BY DEF Visibles, n
<1> HIDE DEF m
<1>4. p \in Seq(Solido) /\ DOMAIN p = 1..m /\ \A j \in 1..m : p[j] = lista[j] /\ j \in DOMAIN lista
  BY <1>1, <1>2
<1> HIDE DEF p
<1>5. NoRepeats(p) /\ ToSet(p) \subseteq ToSet(lista)
  BY <1>4 DEF NoRepeats, ToSet, DelBarrio
<1> HIDE DEF keep
<1>6. /\ Kept(p, keep) \in Seq(Solido \cap keep) /\ ToSet(Kept(p, keep)) = ToSet(p) \cap keep
      /\ NoRepeats(Kept(p, keep))
  BY <1>4, <1>5, KeptIs, NoRepeatsKept
<1>7. Kept(p, keep) \in Seq(Solido)
  <2>1. Solido \cap keep \subseteq Solido
    OBVIOUS
  <2>2. QED
    BY <1>6, <2>1, SeqMonotonic
<1>8. QED
  BY <1>3, <1>5, <1>6, <1>7 DEF DelBarrio

\* Buildings of the quarters, none twice.
DeBarrios(sec) == sec \in Seq(Solido) /\ NoRepeats(sec) /\ \A so \in ToSet(sec) : so.tipo \in TiposBarrio

LEMMA DibujadosSon ==
    ASSUME NEW edificios, Plano(edificios), NEW q \in DOMAIN Fraccion, NEW oculto
    PROVE  DeBarrios(Dibujados(edificios, q, oculto))
<1> DEFINE sec == [i \in DOMAIN edificios |-> i]
           n == Len(sec)
           A == Seq(Solido)
           v(i) == Visibles(edificios[i], q, oculto)
           Body(f) == [j \in 0..n |-> IF j = 0 THEN <<>> ELSE f[j - 1] \o v(sec[j])]
           step == [j \in 1..n |-> [x \in A |-> x \o v(sec[j])]]
           F == CHOOSE f : f = Body(f)
<1>1. n \in Nat /\ \A j \in 1..n : j \in DOMAIN edificios /\ sec[j] = j
  <2>1. PICK k \in Nat : DOMAIN edificios = 1..k
    BY DEF Plano
  <2>2. sec \in Seq(Nat) /\ Len(sec) = k
    BY <2>1
  <2>3. QED
    BY <2>1, <2>2
<1>2. Dibujados(edificios, q, oculto) = F[n]
  BY DEF Dibujados, Pliega
<1>3. \A j \in 1..n : DelBarrio(v(sec[j]), j)
  BY <1>1, VisiblesSon DEF Plano
<1> HIDE DEF sec, n, v
<1>4. /\ \A j \in 1..n, x \in A : step[j][x] = x \o v(sec[j])
      /\ step \in [1..n -> [A -> A]]
  <2>1. \A j \in 1..n, x \in A : x \o v(sec[j]) \in A
    BY <1>3 DEF DelBarrio
  <2> HIDE DEF A
  <2>2. QED
    BY <2>1
<1> HIDE DEF step
<1>5. PICK f : IsRecursion(f, n, A, <<>>, step)
  <2>1. <<>> \in A
    OBVIOUS
  <2> HIDE DEF A
  <2>2. QED
    BY <1>1, <1>4, <2>1, RecursionOverNat
<1>6. /\ f \in [0..n -> A] /\ f[0] = <<>>
      /\ \A j \in 1..n : j - 1 \in 0..n /\ f[j] = step[j][f[j - 1]]
  BY <1>1, <1>5 DEF IsRecursion
<1>7. \A j \in 1..n : f[j] = f[j - 1] \o v(sec[j])
  BY <1>4, <1>6
<1>8. f = Body(f)
  <2>1. \A j \in 0..n : j # 0 => j \in 1..n
    BY <1>1
  <2>2. f = [j \in 0..n |-> f[j]]
    BY <1>6
  <2>3. QED
    BY <1>6, <1>7, <2>1, <2>2
<1>9. F = Body(F)
  <2> HIDE DEF Body
  <2>1. QED
    BY <1>8
<1> HIDE DEF F
<1>10. GoAlike(F, f, n)
  <2>1. 0 \in 0..n /\ \A j \in 1..n : j \in 0..n /\ j # 0
    BY <1>1
  <2>2. \A j \in 0..n : F[j] = IF j = 0 THEN <<>> ELSE F[j - 1] \o v(sec[j])
    BY <1>9
  <2>3. QED
    BY <1>6, <1>7, <2>1, <2>2 DEF GoAlike
<1>11. F[n] = f[n]
  BY <1>1, <1>10, SameRecursion
<1> DEFINE Va(i) == DeBarrios(f[i]) /\ \A so \in ToSet(f[i]) : so.id[2] \in 1..i
           T == {i \in Nat : i <= n => Va(i)}
<1>12. 0 \in T
  <2>1. <<>> \in Seq(Solido) /\ NoRepeats(<<>>) /\ ToSet(<<>>) = {}
    BY DEF NoRepeats, ToSet
  <2>2. QED
    BY <1>6, <2>1 DEF DeBarrios
<1>13. ASSUME NEW i \in Nat, i \in T PROVE i + 1 \in T
  <2>1. SUFFICES ASSUME i + 1 <= n PROVE Va(i + 1)
    OBVIOUS
  <2>2. i + 1 \in 1..n /\ (i + 1) - 1 = i /\ Va(i)
    BY <1>1, <1>13, <2>1
  <2> DEFINE x == f[i]
             y == v(sec[i + 1])
  <2>3. f[i + 1] = x \o y
    BY <1>7, <2>2
  <2>4. DelBarrio(y, i + 1)
    BY <1>3, <2>2
  <2>5. DeBarrios(x) /\ \A so \in ToSet(x) : so.id[2] \in 1..i
    BY <2>2
  <2> HIDE DEF x, y
  <2>6. i + 1 \notin 1..i /\ i + 1 \in 1..i + 1 /\ 1..i \subseteq 1..i + 1
    OBVIOUS
  <2>7. ToSet(x) \cap ToSet(y) = {}
    BY <2>4, <2>5, <2>6 DEF DelBarrio
  <2>8. x \o y \in Seq(Solido) /\ NoRepeats(x \o y) /\ ToSet(x \o y) = ToSet(x) \cup ToSet(y)
    BY <2>4, <2>5, <2>7, NoRepeatsConcat, ToSetConcat DEF DelBarrio, DeBarrios
  <2>9. QED
    BY <2>3, <2>4, <2>5, <2>6, <2>8 DEF DelBarrio, DeBarrios
<1>14. Nat \subseteq T
  <2> HIDE DEF T
  <2>1. QED
    BY <1>12, <1>13, InductionOverNat
<1>15. QED
  BY <1>1, <1>2, <1>11, <1>14

\* The cells in order, each once.
LEMMA CeldasSon == CeldasEnOrden \in Seq(Celdas) /\ NoRepeats(CeldasEnOrden)
<1> DEFINE previo(a, b) == a[2] < b[2] \/ (a[2] = b[2] /\ a[1] < b[1])
           R == {p \in Celdas \X Celdas : previo(p[1], p[2])}
           n == Cardinality(Celdas)
<1>1. IsFiniteSet(Celdas)
  <2>1. N - 1 \in Int
    BY NucleoAssumption
  <2>2. IsFiniteSet(0..N - 1)
    BY <2>1, FS_Interval
  <2>3. QED
    BY <2>2, FS_Product DEF Celdas
<1>2. n \in Nat
  BY <1>1, FS_CardinalityType
<1>3. \A a, b \in Celdas : <<a, b>> \in R <=> previo(a, b)
  OBVIOUS
<1>4. \A a \in Celdas : a = <<a[1], a[2]>> /\ a[1] \in Int /\ a[2] \in Int
  BY NucleoAssumption DEF Celdas
<1>5. TieneOrden(Celdas, R)
  <2>1. \A a, b \in Celdas : <<a, b>> \in R <=> a[2] < b[2] \/ (a[2] = b[2] /\ a[1] < b[1])
    BY <1>3
  <2> HIDE DEF R
  <2>2. \A a, b, c \in Celdas : <<a, b>> \in R /\ <<b, c>> \in R => <<a, c>> \in R
    BY <1>4, <2>1
  <2>3. \A a \in Celdas : <<a, a>> \notin R
    BY <1>4, <2>1
  <2>4. \A a, b \in Celdas : a # b => <<a, b>> \in R \/ <<b, a>> \in R
    <3>1. TAKE a \in Celdas, b \in Celdas
    <3>2. a[1] = b[1] /\ a[2] = b[2] => a = b
      BY <1>4
    <3>3. (a[1] < b[1] \/ b[1] < a[1] \/ a[1] = b[1]) /\ (a[2] < b[2] \/ b[2] < a[2] \/ a[2] = b[2])
      BY <1>4
    <3>4. QED
      BY <2>1, <3>2, <3>3
  <2>5. QED
    BY <1>1, <2>2, <2>3, <2>4, PorOrden
<1>6. \A x \in Celdas : {y \in Celdas : previo(y, x)} = {y \in Celdas : <<y, x>> \in R}
  BY <1>3
<1>7. CeldasEnOrden = [i \in 1..n |-> CHOOSE x \in Celdas : Cardinality({y \in Celdas : previo(y, x)}) = i - 1]
  BY DEF CeldasEnOrden, Ordena
<1> HIDE DEF R, previo
<1>8. \A i \in 1..n : \E x \in Celdas : Cardinality({y \in Celdas : previo(y, x)}) = i - 1
  BY <1>5, <1>6 DEF TieneOrden
<1>9. /\ CeldasEnOrden \in [1..n -> Celdas]
      /\ \A i \in 1..n : Cardinality({y \in Celdas : previo(y, CeldasEnOrden[i])}) = i - 1
  BY <1>7, <1>8
<1>10. PorSuOrden(CeldasEnOrden, Celdas, R)
  BY <1>6, <1>9 DEF PorSuOrden
<1>11. \A i, j \in 1..n : CeldasEnOrden[i] = CeldasEnOrden[j] => i = j
  BY <1>1, <1>10, EnSuPuesto
<1> HIDE DEF n
<1>12. CeldasEnOrden \in Seq(Celdas)
  BY <1>2, <1>9
<1>13. QED
  BY <1>9, <1>11, <1>12 DEF NoRepeats

\* Parcels of a city, none twice.
DeParcelas(sec) == sec \in Seq(Solido) /\ NoRepeats(sec) /\ \A so \in ToSet(sec) : so.tipo = "parcela"

LEMMA ParcelasSon ==
    ASSUME NEW d \in Ciudades
    PROVE  DeParcelas(ParcelasSolidas(d))
<1> DEFINE keep == {c \in Celdas : ParcelAt(d)[c] # 0}
           con == ConParcela(d)
           P == ParcelasSolidas(d)
<1>1. con = Kept(CeldasEnOrden, keep)
  BY DEF ConParcela
<1> HIDE DEF keep
<1>2. con \in Seq(Celdas \cap keep) /\ NoRepeats(con)
  BY <1>1, CeldasSon, KeptIs, NoRepeatsKept
<1>3. PICK n \in Nat : DOMAIN con = 1..n
  BY <1>2
<1>4. \A i \in 1..n : con[i] \in Celdas /\ ParcelAt(d)[con[i]] # 0
  BY <1>2, <1>3 DEF keep
<1> HIDE DEF con
<1>5. P = [i \in 1..n |-> ParcelaSolida(d, con[i])]
  BY <1>3 DEF ParcelasSolidas, con
<1>6. ASSUME NEW c \in Celdas, ParcelAt(d)[c] # 0 PROVE ParcelaSolida(d, c) \in Solido /\ ParcelaSolida(d, c).tipo = "parcela" /\ ParcelaSolida(d, c).celda = c
  <2> DEFINE tipos == TiposBarrio \cup {"hito", "parcela"}
             S == {i \in DOMAIN d.parcels : d.parcels[i].celda = c}
             k == ParcelAt(d)[c]
             w == CellWorld(c)
             m == MediaPlanta[ParcelaDe(d, c).kind]
  <2>1. k = IF S = {} THEN 0 ELSE Max(S)
    BY DEF ParcelAt
  <2>2. S # {} /\ k = Max(S)
    BY <1>6, <2>1
  <2>3. PICK b \in Nat : DOMAIN d.parcels = 1..b
    BY VisorAssumption
  <2>4. S \subseteq Nat /\ \A x \in S : x <= b
    BY <2>3
  <2> HIDE DEF S
  <2>5. \E x \in S : \A y \in S : y <= x
    BY <2>2, <2>3, <2>4, GreatestOfNaturals
  <2>6. k \in S
    <3>1. Max(S) = CHOOSE x \in S : \A y \in S : x >= y
      BY DEF Max
    <3>2. \E x \in S : \A y \in S : x >= y
      BY <2>4, <2>5
    <3>3. QED
      BY <2>2, <3>1, <3>2
  <2>7. k \in DOMAIN d.parcels
    BY <2>6 DEF S
  <2> HIDE DEF k
  <2>8. ParcelaDe(d, c).kind \in DOMAIN MediaPlanta
    BY <2>7, VisorAssumption DEF ParcelaDe, k
  <2>9. m \in Int \X Int
    BY <2>8, NucleoAssumption
  <2>10. c[1] \in Int /\ c[2] \in Int /\ c \in Nat \X Nat /\ c \in Int \X Int
    BY <1>6, NucleoAssumption DEF Celdas
  <2>11. w[1] \in Int /\ w[2] \in Int
    <3>1. Celda \in Nat
      BY NucleoAssumption
    <3>2. Celda \div 2 \in Int /\ c[1] * Celda \in Int /\ c[2] * Celda \in Int
      BY <2>10, <3>1
    <3>3. QED
      BY <3>2 DEF CellWorld
  <2>12. ParcelaSolida(d, c) = [id |-> <<"parcela", c>>, tipo |-> "parcela", x |-> w[1], z |-> w[2], hw |-> m[1], hd |-> m[2], celda |-> c]
    BY DEF ParcelaSolida
  <2> HIDE DEF w, m
  <2>13. <<"parcela", c>> \in tipos \X (Nat \X Nat) /\ "parcela" \in tipos /\ m[1] \in Int /\ m[2] \in Int
    BY <2>9, <2>10
  <2>14. QED
    BY <2>10, <2>11, <2>12, <2>13 DEF Solido
<1>7. P \in Seq(Solido) /\ DOMAIN P = 1..n
  BY <1>4, <1>5, <1>6
<1>8. \A i \in 1..n : P[i].celda = con[i] /\ P[i].tipo = "parcela"
  BY <1>4, <1>5, <1>6
<1> HIDE DEF P
<1>9. NoRepeats(P)
  BY <1>2, <1>3, <1>7, <1>8 DEF NoRepeats
<1>10. \A so \in ToSet(P) : so.tipo = "parcela"
  BY <1>7, <1>8 DEF ToSet
<1>11. QED
  BY <1>7, <1>9, <1>10 DEF DeParcelas, P

(***************************************************************************)
(* What is drawn, the register and the city that is applied.               *)
(***************************************************************************)
\* The register has the landmarks, the buildings sec and the parcels of S, and
\* nothing twice.
Registrado(S, sec) ==
    /\ S.edificios = PlanificarBarrios
    /\ Indexado(S.catastro) /\ NoRepeats(S.catastro.items)
    /\ DeBarrios(sec) /\ DeParcelas(S.parcelas)
    /\ ToSet(S.catastro.items) = ToSet(Hitos) \cup ToSet(sec) \cup ToSet(S.parcelas)

\* The buildings are drawn at the quality of now, but for those hidden.
Dibujado(S) ==
    /\ Registrado(S, S.barrios)
    /\ S.barrios = Dibujados(S.edificios, S.quality, S.oculto)

\* What the city of now has to do with what is drawn.
CiudadSolida(city) == IF city = Nada THEN <<>> ELSE ParcelasSolidas(city)
CiudadOculta(city) == IF city = Nada THEN {} ELSE Ocultos(PlanificarBarrios, city)
SolOK(S) ==
    /\ S.ready => Dibujado(S) /\ S.parcelas = CiudadSolida(S.city) /\ S.oculto = CiudadOculta(S.city)
    /\ ~S.ready => S.parcelas = <<>> /\ S.oculto = {}

\* The fields that it reads, but for the city.
DelRegistro == {"quality", "oculto", "edificios", "barrios", "catastro", "parcelas"}
MismoRegistro(S, T) == \A n \in DelRegistro : T[n] = S[n]

LEMMA MismoIs ==
    ASSUME NEW S, NEW T, MismoRegistro(S, T)
    PROVE  /\ T.quality = S.quality /\ T.oculto = S.oculto /\ T.edificios = S.edificios
           /\ T.barrios = S.barrios /\ T.catastro = S.catastro /\ T.parcelas = S.parcelas
BY DEF MismoRegistro, DelRegistro

LEMMA MismoDibujado ==
    ASSUME NEW S, NEW T, MismoRegistro(S, T), Dibujado(S)
    PROVE  Dibujado(T)
BY MismoIs DEF Dibujado, Registrado

LEMMA MismoSol ==
    ASSUME NEW S, NEW T, MismoRegistro(S, T), T.ready = S.ready, T.city = S.city, SolOK(S)
    PROVE  SolOK(T)
BY MismoIs, MismoDibujado DEF SolOK

LEMMA SoloRegistro ==
    ASSUME NEW S, DOMAIN S = Campos, NEW T, NEW F, Solo(S, T, F), F \cap DelRegistro = {}
    PROVE  MismoRegistro(S, T)
BY CamposSon DEF Solo, MismoRegistro, DelRegistro

\* The landmarks are neither buildings of a quarter nor parcels.
LEMMA TiposDistintos ==
    /\ Hitos \in Seq(Solido) /\ NoRepeats(Hitos) /\ \A so \in ToSet(Hitos) : so.tipo = "hito"
    /\ "hito" \notin TiposBarrio /\ "parcela" \notin TiposBarrio
BY NucleoAssumption DEF NoRepeats, ToSet, TiposBarrio

\* The quarters drawn again: the register has what they draw now.
LEMMA LevantaDibuja ==
    ASSUME NEW S, DOMAIN S = Campos, NEW sec, Registrado(S, sec), S.quality \in DOMAIN Fraccion
    PROVE  Dibujado(BuildClusters(S))
<1> DEFINE v == Dibujados(S.edificios, S.quality, S.oculto)
           C == CatastroAltas(CatastroQuita(S.catastro, TiposBarrio), v)
           R == BuildClusters(S)
<1>1. DeBarrios(v)
  BY PlanoEs, DibujadosSon DEF Registrado
<1>2. R = [S EXCEPT !.barrios = v, !.catastro = C]
  BY DEF BuildClusters, Levanta
<1>3. Indexado(C) /\ NoRepeats(C.items) /\ ToSet(C.items) = {so \in ToSet(S.catastro.items) : so.tipo \notin TiposBarrio} \cup ToSet(v)
  <2> HIDE DEF v
  <2>1. QED
    BY <1>1, Recambio DEF DeBarrios, Registrado
<1>4. R.barrios = v /\ R.catastro = C /\ R.edificios = S.edificios /\ R.quality = S.quality /\ R.oculto = S.oculto /\ R.parcelas = S.parcelas
  BY <1>2, CamposSon
<1>5. R.barrios = Dibujados(R.edificios, R.quality, R.oculto)
  BY <1>4
<1> HIDE DEF v, C, R
<1>6. {so \in ToSet(S.catastro.items) : so.tipo \notin TiposBarrio} = ToSet(Hitos) \cup ToSet(S.parcelas)
  BY TiposDistintos DEF Registrado, DeBarrios, DeParcelas
<1>7. Registrado(R, v)
  BY <1>1, <1>3, <1>4, <1>6 DEF Registrado
<1>8. QED
  BY <1>4, <1>5, <1>7 DEF Dibujado, R

\* A quality chosen.
LEMMA CalidadDibuja ==
    ASSUME NEW S, DOMAIN S = Campos, S.ready \in BOOLEAN, SolOK(S), NEW q \in DOMAIN Fraccion
    PROVE  SolOK(SetQuality(S, q))
<1> DEFINE T == [S EXCEPT !.quality = q]
           R == SetQuality(S, q)
<1>1. /\ DOMAIN T = Campos /\ T.quality = q /\ T.ready = S.ready /\ T.city = S.city
      /\ T.oculto = S.oculto /\ T.edificios = S.edificios /\ T.catastro = S.catastro /\ T.parcelas = S.parcelas
  BY CamposSon
<1>2. R = IF S.ready THEN BuildClusters(T) ELSE T
  BY DEF SetQuality
<1> HIDE DEF T, R
<1>3. CASE ~S.ready
  BY <1>1, <1>2, <1>3 DEF SolOK, R
<1>4. CASE S.ready
  <2>1. Registrado(T, S.barrios)
    BY <1>1, <1>4 DEF SolOK, Dibujado, Registrado
  <2>2. Dibujado(R)
    BY <1>1, <1>2, <1>4, <2>1, LevantaDibuja
  <2>3. Solo(T, R, {"barrios", "catastro"})
    BY <1>2, <1>4 DEF BuildClusters, Levanta, Solo
  <2>4. R.ready = S.ready /\ R.city = S.city /\ R.parcelas = S.parcelas /\ R.oculto = S.oculto
    BY <1>1, <2>3, CamposSon DEF Solo
  <2>5. QED
    BY <1>4, <2>2, <2>4 DEF SolOK, R
<1>5. QED
  BY <1>3, <1>4

\* A city applied to what is drawn, whatever city it was drawn for.
LEMMA CiudadDibuja ==
    ASSUME NEW S, DOMAIN S = Campos, Dibujado(S), S.quality \in DOMAIN Fraccion, NEW d \in Ciudades
    PROVE  LET R == ApplyCity(S, d)
           IN Dibujado(R) /\ R.parcelas = CiudadSolida(d) /\ R.oculto = CiudadOculta(d)
<1> DEFINE oc == Ocultos(S.edificios, d)
           T == [S EXCEPT !.oculto = oc]
           B == Oculta(S, oc)
           ps == ParcelasSolidas(d)
           P == PonParcelas(B, ps)
           R == ApplyCity(S, d)
<1>0. d # Nada /\ S.edificios = PlanificarBarrios
  BY VisorAssumption DEF Dibujado, Registrado
<1>1. oc = CiudadOculta(d) /\ ps = CiudadSolida(d) /\ DeParcelas(ps)
  BY <1>0, ParcelasSon DEF CiudadOculta, CiudadSolida
<1>2. B = IF oc # S.oculto /\ S.barrios # Nada THEN BuildClusters(T) ELSE T
  BY DEF Oculta
<1>3. S.barrios # Nada
  BY NucleoAssumption DEF Dibujado, Registrado, DeBarrios
<1>4. /\ DOMAIN T = Campos /\ T.oculto = oc /\ T.quality = S.quality /\ T.edificios = S.edificios
      /\ T.barrios = S.barrios /\ T.catastro = S.catastro /\ T.parcelas = S.parcelas
  BY CamposSon
<1> HIDE DEF oc, ps
<1>5. Registrado(T, S.barrios)
  BY <1>4 DEF Dibujado, Registrado
<1> HIDE DEF T
<1>6. Dibujado(B) /\ B.oculto = oc /\ DOMAIN B = Campos
  <2>1. CASE oc = S.oculto
    BY <1>2, <1>4, <1>5, <2>1 DEF Dibujado
  <2>2. CASE oc # S.oculto
    <3>1. B = BuildClusters(T)
      BY <1>2, <1>3, <2>2
    <3>2. Dibujado(B)
      BY <1>4, <1>5, <3>1, LevantaDibuja
    <3>3. Solo(T, B, {"barrios", "catastro"})
      BY <3>1 DEF BuildClusters, Levanta, Solo
    <3>4. QED
      BY <1>4, <3>2, <3>3, CamposSon DEF Solo
  <2>3. QED
    BY <2>1, <2>2
<1> HIDE DEF B
<1>7. B.catastro # Nada
  BY <1>6, NucleoAssumption DEF Dibujado, Registrado, Indexado
<1> DEFINE C == CatastroAltas(CatastroQuita(B.catastro, {"parcela"}), ps)
<1>8. Indexado(C) /\ NoRepeats(C.items) /\ ToSet(C.items) = {so \in ToSet(B.catastro.items) : so.tipo \notin {"parcela"}} \cup ToSet(ps)
  BY <1>1, <1>6, Recambio DEF Dibujado, Registrado, DeParcelas
<1>9. {so \in ToSet(B.catastro.items) : so.tipo \notin {"parcela"}} = ToSet(Hitos) \cup ToSet(B.barrios)
  BY <1>6, TiposDistintos DEF Dibujado, Registrado, DeBarrios, DeParcelas
<1>10. P = [B EXCEPT !.parcelas = ps, !.catastro = C]
  BY <1>7 DEF PonParcelas
<1> HIDE DEF C
<1>11. P.catastro = C /\ P.parcelas = ps /\ P.edificios = B.edificios /\ P.quality = B.quality /\ P.oculto = B.oculto /\ P.barrios = B.barrios /\ DOMAIN P = Campos
  BY <1>6, <1>10, CamposSon
<1> HIDE DEF P
<1>12. Dibujado(P)
  BY <1>1, <1>6, <1>8, <1>9, <1>11 DEF Dibujado, Registrado
<1>13. Solo(P, R, DeMarcas)
  <2>1. PICK a, b, c, v, o : R = RefreshSelection([P EXCEPT !.parcelAt = a, !.cellState = b, !.saleRings = c, !.aplicada = d, !.saleLabels = v, !.ownerLabels = o])
    BY DEF ApplyCity, P, B, oc, ps
  <2> DEFINE U == [P EXCEPT !.parcelAt = a, !.cellState = b, !.saleRings = c, !.aplicada = d, !.saleLabels = v, !.ownerLabels = o]
  <2>2. Solo(P, U, DeMarcas)
    BY DEF Solo, DeMarcas
  <2> HIDE DEF U, R
  <2>3. Solo(U, RefreshSelection(U), DeMarcas)
    BY SoloMarcas
  <2>4. R = RefreshSelection(U)
    BY <2>1 DEF U
  <2>5. Solo(P, R, DeMarcas \cup DeMarcas)
    BY <2>2, <2>3, <2>4, SoloTrans
  <2>6. QED
    BY <2>5
<1> HIDE DEF R
<1>14. DeMarcas \cap DelRegistro = {}
  BY DEF DeMarcas, DelRegistro
<1>15. MismoRegistro(P, R)
  BY <1>11, <1>13, <1>14, SoloRegistro
<1>16. QED
  BY <1>1, <1>6, <1>11, <1>12, <1>15, MismoDibujado, MismoIs DEF R

\* The world as it is raised, before any city.
LEMMA MundoDibuja ==
    ASSUME NEW S, DOMAIN S = Campos, S.quality \in DOMAIN Fraccion, S.parcelas = <<>>
    PROVE  LET R == Mundo(S) IN Dibujado(R) /\ R.parcelas = <<>> /\ R.oculto = S.oculto /\ R.quality = S.quality
<1> DEFINE C == CatastroReconstruye(Hitos)
           T == [S EXCEPT !.edificios = PlanificarBarrios, !.catastro = C, !.cur = SkylineView, !.goal = SkylineView]
           R == Mundo(S)
<1>1. R = BuildClusters(T)
  BY DEF Mundo
<1>2. Indexado(C) /\ C.items = Hitos
  BY TiposDistintos, ReconstruyeSon
<1> HIDE DEF C
<1>3. DOMAIN T = Campos /\ T.edificios = PlanificarBarrios /\ T.catastro = C /\ T.parcelas = <<>> /\ T.quality = S.quality /\ T.oculto = S.oculto
  BY CamposSon
<1> HIDE DEF T, R
<1>4. Registrado(T, <<>>)
  <2>1. <<>> \in Seq(Solido) /\ NoRepeats(<<>>) /\ ToSet(<<>>) = {}
    BY DEF NoRepeats, ToSet
  <2>2. QED
    BY <1>2, <1>3, <2>1, TiposDistintos DEF Registrado, DeBarrios, DeParcelas
<1>5. Dibujado(R)
  BY <1>1, <1>3, <1>4, LevantaDibuja
<1>6. Solo(T, R, {"barrios", "catastro"})
  BY <1>1 DEF BuildClusters, Levanta, Solo
<1>7. QED
  BY <1>3, <1>5, <1>6, CamposSon DEF Solo, R

\* What a step leaves of all that: the call of a city, that of a quality and the
\* loading of the map are the only ones that touch it.
Quieto(S, T) == MismoRegistro(S, T) /\ T.ready = S.ready /\ T.city = S.city /\ T.pending = S.pending
DelQuieto == DelRegistro \cup {"ready", "city", "pending"}

LEMMA SoloQuieto ==
    ASSUME NEW S, DOMAIN S = Campos, NEW T, NEW F, Solo(S, T, F), F \cap DelQuieto = {}
    PROVE  Quieto(S, T)
<1>1. F \cap DelRegistro = {} /\ F \cap {"ready", "city", "pending"} = {}
  BY DEF DelQuieto
<1>2. MismoRegistro(S, T)
  BY <1>1, SoloRegistro
<1>3. T.ready = S.ready /\ T.city = S.city /\ T.pending = S.pending
  BY <1>1, CamposSon DEF Solo
<1>4. QED
  BY <1>2, <1>3 DEF Quieto

LEMMA QuietoSol ==
    ASSUME NEW S, NEW T, Quieto(S, T), SolOK(S)
    PROVE  SolOK(T)
BY MismoSol DEF Quieto

LEMMA QuietoNada ==
    ASSUME NEW S
    PROVE  Quieto(S, S)
BY DEF Quieto, MismoRegistro

(***************************************************************************)
(* The memory through the calls.                                           *)
(***************************************************************************)
\* A click on the list, which may lower the label it had raised.
LEMMA ListaSigue ==
    ASSUME NEW S, NEW M, MemOK(S, M), S.city \in Ciudades \cup {Nada}, "mode" \in DOMAIN S, NEW i
    PROVE  MemOK(S, ClicLista(M, S, i).m) /\ Solo(S, ClicLista(M, S, i).s, DeVista)
<1> DEFINE A == [M EXCEPT !.listaSel = i]
           F == [A EXCEPT !.foco = SinFoco]
           B == IF M.foco # Nada /\ M.foco.k > 0 THEN PonEtiquetas(F, S) ELSE A
           foco == [distrito |-> M.lista[i].distrito, k |-> 0, cuadros |-> 0, visto |-> FALSE, sinHueco |-> FALSE]
           C == [B EXCEPT !.foco = foco]
<1>1. /\ ClicLista(M, S, i).m = PintaLista(C, S)
      /\ ClicLista(M, S, i).s = Vuela(B, S, M.lista[i])
  BY DEF ClicLista
<1>2. ASSUME NEW W, MemOK(S, W), NEW R, Solo(W, R, {"listaSel", "foco"}) PROVE MemOK(S, R)
  <2>1. MemIgual(W, R)
    BY <1>2, MemSolo DEF MemOK
  <2>2. QED
    BY <1>2, <2>1, RecuerdaSigue DEF Recuerda
<1>3. Solo(M, A, {"listaSel", "foco"}) /\ Solo(A, F, {"listaSel", "foco"})
  BY DEF Solo
<1> HIDE DEF A, F
<1>4. MemOK(S, B)
  BY <1>2, <1>3, EtiquetasSigue
<1>5. Solo(B, C, {"listaSel", "foco"})
  BY DEF Solo
<1> HIDE DEF B, C
<1>6. MemOK(S, C)
  BY <1>2, <1>4, <1>5
<1>7. MemIgual(C, PintaLista(C, S))
  BY <1>6, MemQuieta DEF MemOK
<1>8. MemOK(S, PintaLista(C, S))
  BY <1>6, <1>7, RecuerdaSigue DEF Recuerda
<1>9. QED
  BY <1>1, <1>8, SoloPose

\* A city applied.
LEMMA CiudadSigue ==
    ASSUME NEW E, ConMemoria(E), HuecosOK(E.m), NEW d \in Ciudades, E.m.firma = Nada \/ \E e \in Ciudades : DeLaCiudad(E.m, e)
    PROVE  LET R == AplicaCiudad(E, d) IN ConMemoria(R) /\ HuecosOK(R.m) /\ DeLaCiudad(R.m, d)
<1> DEFINE S == ApplyCity(E.s, d)
           R == AplicaCiudad(E, d)
<1>1. DOMAIN R = {"s", "m", "x"} /\ R.m = MemCiudad(E.m, S, d)
  BY DEF AplicaCiudad, EmitirCiudad, ConMemoria
<1> HIDE DEF R, S
<1>2. DOMAIN R.m = CamposMem /\ HuecosOK(R.m) /\ DeLaCiudad(R.m, d)
  BY <1>1, MemCiudadSon DEF ConMemoria
<1>3. QED
  BY <1>1, <1>2 DEF ConMemoria, R

\* The session that asks for a city: before the map has loaded it waits.
LEMMA MemPideCiudad ==
    ASSUME Sesion(Todo), MemOK(s, mem), t \in 0..MaxT, NEW d \in Ciudades, PideCiudad(d)
    PROVE  MemOK(s', mem')
<1> USE TodoSon
<1> DEFINE A == [Todo EXCEPT !.s = SetCity(@, d)]
           R == AplicaCiudad(A, d)
<1>1. DOMAIN A = {"s", "m", "x"} /\ A.s = SetCity(s, d) /\ A.m = mem
  OBVIOUS
<1>2. Pon(IF d = s.city \/ ~s.ready THEN A ELSE R)
  BY DEF PideCiudad
<1> HIDE DEF A
<1>3. CASE d = s.city
  BY <1>1, <1>2, <1>3 DEF Pon, SetCity
<1>4. CASE d # s.city
  <2>1. A.s.city = d /\ A.s.ready = s.ready /\ A.s.pending = (IF s.ready THEN s.pending ELSE d)
    BY <1>1, <1>4, CamposSon DEF SetCity, Sesion
  <2>2. CASE ~s.ready
    <3>1. s' = A.s /\ mem' = mem
      BY <1>1, <1>2, <2>2 DEF Pon
    <3>2. QED
      BY <2>1, <2>2, <3>1 DEF MemOK
  <2>3. CASE s.ready
    <3>1. Sesion(A)
      BY SesionPanel DEF A
    <3>2. Solo(A.s, R.s, DeSolidos \cup DeMarcas)
      BY <3>1, SesionCiudad
    <3>3. mem.firma = Nada \/ \E e \in Ciudades : DeLaCiudad(mem, e)
      BY <2>3 DEF MemOK, Sesion, NucleoOK
    <3>4. ConMemoria(R) /\ HuecosOK(R.m) /\ DeLaCiudad(R.m, d)
      BY <1>1, <3>3, CiudadSigue DEF ConMemoria, MemOK
    <3> HIDE DEF R
    <3>5. R.s.city = d /\ R.s.ready = s.ready
      BY <2>1, <3>1, <3>2, CamposSon DEF Solo, Sesion, DeSolidos, DeMarcas
    <3>6. s' = R.s /\ mem' = R.m
      BY <1>2, <1>4, <2>3 DEF Pon
    <3>7. s'.city # Nada
      BY <3>5, <3>6, VisorAssumption
    <3>8. QED
      BY <2>3, <3>4, <3>5, <3>6, <3>7 DEF ConMemoria, MemOK
  <2>4. QED
    BY <2>2, <2>3 DEF Sesion, NucleoOK
<1>5. QED
  BY <1>3, <1>4

\* A quality: the memory does not know it.
LEMMA MemPideCalidad ==
    ASSUME Sesion(Todo), MemOK(s, mem), NEW q \in DOMAIN Fraccion, PideCalidad(q)
    PROVE  MemOK(s', mem')
<1>1. s' = SetQuality(s, q) /\ mem' = mem
  BY DEF PideCalidad, Pon, Todo
<1>2. Solo(s, s', DeSolidos \cup {"quality"})
  BY <1>1, SoloCiudad
<1>3. s'.ready = s.ready /\ s'.city = s.city /\ s'.pending = s.pending
  BY <1>2, TodoSon, CamposSon DEF Solo, Sesion, DeSolidos
<1>4. QED
  BY <1>1, <1>3 DEF MemOK

\* When the map loads, the city that waited is applied and remembered.
LEMMA MemMundo ==
    ASSUME NEW E, Sesion(E), Recordada(E), ~E.s.ready, t \in 0..MaxT
    PROVE  Recordada(BuildWorld(E))
<1> DEFINE A == Levantado(E)
           D == CiudadPendiente(A)
           B == Repuesto(A)
           C == VueloPendiente(B)
<1>1. BuildWorld(E) = C
  BY DEF BuildWorld, Levantado, Repuesto
<1>2. Sesion(A) /\ A.m = E.m /\ A.s.ready = TRUE /\ Solo(E.s, A.s, DeSolidos \cup {"edificios", "cur", "goal", "luz", "ready"})
  BY SesionLevantado
<1> HIDE DEF A
<1>3. /\ Sesion(D)
      /\ Solo(A.s, D.s, DeSolidos \cup DeMarcas \cup {"pending"})
      /\ Sesion(B) /\ Solo(D.s, B.s, DeMarcas) /\ Solo(A.s, B.s, DeSolidos \cup DeMarcas \cup {"pending"})
      /\ B.m = MemListo(D.m, B.s)
  BY <1>2, SesionRepuesto
<1>4. A.s.city = E.s.city /\ A.s.pending = E.s.pending
  BY <1>2, CamposSon DEF Solo, Sesion, DeSolidos
<1>5. ConMemoria(A) /\ HuecosOK(A.m) /\ A.m.firma = Nada /\ A.s.pending = A.s.city
  BY <1>2, <1>4 DEF Recordada, MemOK, ConMemoria, Sesion
<1>6. A.s.city \in Ciudades => DOMAIN D.m = CamposMem /\ HuecosOK(D.m)
  <2>1. SUFFICES ASSUME A.s.city \in Ciudades PROVE DOMAIN D.m = CamposMem /\ HuecosOK(D.m)
    OBVIOUS
  <2> DEFINE W == AplicaCiudad(A, A.s.city)
  <2>2. ConMemoria(W) /\ HuecosOK(W.m)
    BY <1>5, <2>1, CiudadSigue
  <2>3. A.s.city # Nada
    BY <2>1, VisorAssumption
  <2>4. D = [W EXCEPT !.s.pending = Nada]
    BY <1>5, <2>3 DEF CiudadPendiente
  <2> HIDE DEF W, D
  <2>5. QED
    BY <2>2, <2>4 DEF ConMemoria
<1>7. A.s.city = Nada => D = A
  BY <1>5 DEF CiudadPendiente
<1> HIDE DEF D
<1>8. A.s.city \in Ciudades \cup {Nada} /\ B.s.city = A.s.city /\ B.s.ready = TRUE
  BY <1>2, <1>3, CamposSon DEF Solo, Sesion, NucleoOK, DeSolidos, DeMarcas
<1>9. Recordada(B)
  <2>1. CASE A.s.city = Nada
    <3>1. B.m = A.m
      BY <1>3, <1>7, <1>8, <2>1 DEF MemListo
    <3>2. QED
      BY <1>3, <1>5, <1>8, <2>1, <3>1 DEF Recordada, MemOK, ConMemoria, Sesion
  <2>2. CASE A.s.city \in Ciudades
    <3>1. A.s.city # Nada
      BY <2>2, VisorAssumption
    <3>2. B.m = RehazCiudad(D.m, B.s, A.s.city)
      BY <1>3, <1>8, <3>1 DEF MemListo
    <3>3. DOMAIN B.m = CamposMem /\ HuecosOK(B.m) /\ DeLaCiudad(B.m, A.s.city)
      BY <1>6, <2>2, <3>2, RehazSon
    <3> HIDE DEF B
    <3>4. QED
      BY <1>3, <1>8, <3>1, <3>3 DEF Recordada, MemOK, ConMemoria, Sesion
  <2>3. QED
    BY <1>8, <2>1, <2>2
<1> HIDE DEF B
<1>10. Solo(B.s, C.s, DePose \cup {"pendingFlight"})
  BY <1>3, SesionPendiente
<1>11. ConMemoria(C) /\ MemIgual(B.m, C.m)
  <2> DEFINE v == B.s.pendingFlight
             U == [B EXCEPT !.s.pendingFlight = Nada]
  <2>1. CASE v = Nada
    BY <1>9, <2>1, MemIgualNada DEF VueloPendiente, Recordada
  <2>2. CASE v # Nada
    <3>1. C = Vuela1(U, v)
      BY <2>2 DEF VueloPendiente
    <3>2. ConMemoria(U) /\ U.m = B.m
      BY <1>9 DEF Recordada, ConMemoria
    <3>3. ConDestino(v)
      BY <1>3, <2>2 DEF Sesion, NucleoOK, ConDestino
    <3> HIDE DEF U, C
    <3>4. QED
      BY <3>1, <3>2, <3>3, MemNucleo
  <2>3. QED
    BY <2>1, <2>2
<1>12. Recordada(C)
  BY <1>3, <1>9, <1>10, <1>11, RecordadaSigue DEF Sesion, DePose, DeVista
<1>13. QED
  BY <1>1, <1>12

\* A step that leaves the city, what is drawn, and what the memory keeps of the
\* city as they were.
Prosigue == MemOK(s', mem') /\ Quieto(s, s')

LEMMA MemPaso ==
    ASSUME Sesion(Todo), MemOK(s, mem), MemIgual(mem, mem'), NEW F, Solo(s, s', F), F \cap DelQuieto = {}
    PROVE  Prosigue
<1>1. Quieto(s, s')
  BY TodoSon, SoloQuieto DEF Sesion
<1>2. MemOK(s', mem')
  BY <1>1, RecuerdaSigue DEF Recuerda, Quieto
<1>3. QED
  BY <1>1, <1>2 DEF Prosigue

LEMMA MemPon ==
    ASSUME Sesion(Todo), MemOK(s, mem), NEW R, Pon(R), MemIgual(mem, R.m), NEW F, Solo(s, R.s, F), F \cap DelQuieto = {}
    PROVE  Prosigue
BY MemPaso DEF Pon

LEMMA LlamadaProsigue ==
    ASSUME Sesion(Todo), MemOK(s, mem), t \in 0..MaxT, Llamada
    PROVE  Prosigue \/ (\E d \in Ciudades : PideCiudad(d)) \/ (\E q \in DOMAIN Fraccion : PideCalidad(q))
<1> USE TodoSon
<1>0. /\ DOMAIN s = Campos /\ "mode" \in DOMAIN s /\ s.city \in Ciudades \cup {Nada} /\ MemIgual(mem, mem)
      /\ DOMAIN mem = CamposMem /\ ConMemoria(Todo) /\ Quieto(s, s)
  BY CamposSon, MemIgualNada, QuietoNada DEF Sesion, NucleoOK, DePose, MemOK, ConMemoria
<1> DEFINE Otros == Campos \ DelQuieto
<1>1. ASSUME NEW F, Solo(s, s', F), F \subseteq Otros, mem' = mem PROVE Prosigue
  BY <1>0, <1>1, MemPaso
<1>2. ASSUME s' = s, MemIgual(mem, mem') PROVE Prosigue
  <2>1. Solo(s, s', {})
    BY <1>2, SoloNada
  <2>2. QED
    BY <1>2, <2>1, MemPaso
<1>3. DePose \subseteq Otros /\ DeVista \subseteq Otros
  BY CamposSon DEF DePose, DeVista, DelQuieto, DelRegistro
<1>4. DeMarcas \subseteq Otros
  BY DEF DeMarcas, Campos, NucleoNuevo, DelQuieto, DelRegistro
<1> HIDE DEF Otros
<1>5. ASSUME NEW m \in {"walk", "orbit"}, PideModo(m) PROVE Prosigue
  <2> DEFINE R == SetMode(Todo, m)
  <2>1. MemIgual(mem, R.m)
    BY <1>0, MemModoSigue
  <2>2. Solo(s, R.s, DePose)
    BY SesionModo
  <2>3. Pon(R)
    BY <1>5 DEF PideModo
  <2> HIDE DEF R
  <2>4. QED
    BY <2>1, <2>2, <2>3, MemPon DEF DePose, DeVista, DelQuieto, DelRegistro
<1>6. ASSUME NEW p \in Poses, PidePose(p) PROVE Prosigue
  <2> DEFINE A == SetMode(Todo, "walk")
             R == [A EXCEPT !.s = PoseAPie(@, p)]
  <2>1. ConMemoria(A) /\ MemIgual(mem, A.m)
    BY <1>0, MemModoSigue
  <2>2. Solo(s, A.s, DePose)
    BY SesionModo
  <2>3. Pon(R)
    BY <1>6 DEF PidePose
  <2> HIDE DEF A
  <2>4. R.s = PoseAPie(A.s, p) /\ R.m = A.m
    BY <2>1 DEF ConMemoria
  <2> HIDE DEF R
  <2>5. "mode" \in DOMAIN A.s
    BY <1>0, <2>2 DEF Solo
  <2>6. Solo(A.s, R.s, DeVista)
    BY <2>4, <2>5, SoloPose
  <2>7. Solo(s, R.s, DePose \cup DeVista)
    BY <2>2, <2>6, SoloTrans
  <2>8. QED
    BY <2>1, <2>3, <2>4, <2>7, MemPon DEF DePose, DeVista, DelQuieto, DelRegistro
<1>7. ASSUME NEW h \in Horas \cup {Nada}, PideHora(h) PROVE Prosigue
  <2> DEFINE A == [Todo EXCEPT !.s.hour = h]
             R == UpdateSun(A)
  <2>1. DOMAIN A = {"s", "m", "x"} /\ A.s = [s EXCEPT !.hour = h] /\ A.m = mem
    OBVIOUS
  <2>2. Pon(R)
    BY <1>7 DEF PideHora
  <2> HIDE DEF A
  <2>3. R.s = PonLuz(A.s, t) /\ R.m = mem
    BY <2>1 DEF UpdateSun, EmitirSol
  <2> HIDE DEF R
  <2>4. Solo(s, A.s, {"hour"})
    BY <2>1 DEF Solo
  <2>5. Solo(A.s, R.s, {"luz"})
    BY <2>3, SoloLazo
  <2>6. Solo(s, R.s, {"hour"} \cup {"luz"})
    BY <2>4, <2>5, SoloTrans
  <2>7. QED
    BY <1>0, <2>2, <2>3, <2>6, MemPon DEF DelQuieto, DelRegistro
<1>8. ASSUME NEW c, Elige(c) PROVE Prosigue
  <2>1. s' = DoSelect(s, c, TRUE) /\ mem' = mem
    BY <1>8 DEF Elige, ConGesto, Pon, Todo
  <2>2. QED
    BY <1>1, <1>4, <2>1, SoloMarcas
<1>9. ASSUME NEW c, Senala(c) PROVE Prosigue
  <2>1. s' = SetHover(s, c) /\ mem' = mem
    BY <1>9 DEF Senala, Pon, Todo
  <2>2. QED
    BY <1>1, <1>4, <2>1, SoloMarcas
<1>10. ASSUME NEW v \in Vuelos, Pon(Vuela1(Todo, v)) PROVE Prosigue
  <2> DEFINE R == Vuela1(Todo, v)
  <2>1. ConDestino(v)
    BY DEF Vuelos, ConDestino
  <2>2. Solo(s, R.s, DePose \cup {"pendingFlight"})
    BY <2>1, SesionVuelo
  <2>3. MemIgual(mem, R.m)
    BY <1>0, <2>1, MemNucleo
  <2> HIDE DEF R
  <2>4. QED
    BY <1>10, <2>2, <2>3, MemPon DEF DePose, DeVista, R, DelQuieto, DelRegistro
<1>11. ASSUME NEW largo, Ven(largo) PROVE Prosigue
  <2>1. s' = CancelFlight(s) /\ (mem' = mem \/ mem' = Marca(mem, "mirar", TRUE))
    BY <1>11 DEF Ven, ConGesto, Pon, Todo, MarcaSi
  <2>2. MemIgual(mem, mem')
    BY <1>0, <2>1, MemQuieta
  <2>3. Solo(s, s', DeVista)
    BY <1>0, <2>1, SoloPose DEF Sesion, Campos, NucleoNuevo
  <2>4. QED
    BY <1>0, <2>2, <2>3, MemPaso DEF DeVista, DelQuieto, DelRegistro
<1>12. ASSUME NEW l, Pon([Todo EXCEPT !.s = SetPresence(@, l)]) PROVE Prosigue
  <2>1. s' = SetPresence(s, l) /\ mem' = mem
    BY <1>12 DEF Pon, Todo
  <2>2. QED
    BY <1>1, <1>4, <2>1, SoloMarcas
<1>13. ASSUME NEW l, Pon([Todo EXCEPT !.s = SetGhosts(@, l)]) PROVE Prosigue
  <2>1. s' = SetGhosts(s, l) /\ mem' = mem
    BY <1>13 DEF Pon, Todo
  <2>2. QED
    BY <1>1, <1>4, <2>1, SoloMarcas
<1>14. ASSUME SaleDeFoto PROVE Prosigue
  <2> DEFINE R == SaleFoto(Todo)
  <2>1. Solo(s, R.s, DePose \cup {"visibles"}) /\ MemIgual(mem, R.m)
    BY <1>0, SesionSaleFoto, MemNucleo
  <2>2. Pon(R)
    BY <1>14 DEF SaleDeFoto
  <2> HIDE DEF R
  <2>3. QED
    BY <2>1, <2>2, MemPon DEF DePose, DeVista, DelQuieto, DelRegistro
<1>15. ASSUME CamaraLibre PROVE Prosigue
  <2> DEFINE A == SetMode(Todo, "walk")
  <2>1. ConMemoria(A) /\ MemIgual(mem, A.m)
    BY <1>0, MemModoSigue
  <2>2. Solo(s, A.s, DePose)
    BY SesionModo
  <2>3. Pon([A EXCEPT !.s = AlturaLibre(@), !.x = PintaBotones(@)])
    BY <1>15 DEF CamaraLibre
  <2> HIDE DEF A
  <2>4. s' = AlturaLibre(A.s) /\ mem' = A.m
    BY <2>1, <2>3 DEF ConMemoria, Pon
  <2>5. "mode" \in DOMAIN A.s
    BY <1>0, <2>2 DEF Solo
  <2>6. Solo(A.s, s', DeVista)
    BY <2>4, <2>5, SoloPose
  <2>7. Solo(s, s', DePose \cup DeVista)
    BY <2>2, <2>6, SoloTrans
  <2>8. QED
    BY <2>1, <2>4, <2>7, MemPaso DEF DePose, DeVista, DelQuieto, DelRegistro
<1>16. ASSUME PideTravelling \/ PideFoto \/ PulsaTormenta \/ (\E v \in {TRUE, FALSE, Nada} : PideTormenta(v)) PROVE Prosigue
  <2>1. s' = s /\ mem' = mem
    BY <1>16 DEF PideTravelling, PideFoto, PulsaTormenta, PideTormenta, ConGesto, Pon, Todo
  <2>2. QED
    BY <1>0, <2>1 DEF Prosigue
<1>17. ASSUME NEW i, PulsaLista(i) PROVE Prosigue
  <2>1. s' = ClicLista(mem, s, i).s /\ mem' = ClicLista(mem, s, i).m
    BY <1>17 DEF PulsaLista, ConGesto, Pon, Todo
  <2>2. MemOK(s, mem') /\ Solo(s, s', DeVista)
    BY <1>0, <2>1, ListaSigue
  <2>3. Quieto(s, s')
    BY <1>0, <2>2, SoloQuieto DEF DeVista, DelQuieto, DelRegistro
  <2>4. QED
    BY <2>2, <2>3 DEF MemOK, Prosigue, Quieto
<1>18. ASSUME PulsaEncargos PROVE Prosigue
  <2>1. s' = s /\ mem' = ClicEncargos(mem, s)
    BY <1>18 DEF PulsaEncargos, ConGesto, Pon, Todo
  <2>2. QED
    BY <1>0, <1>2, <2>1, MemQuieta
<1>19. ASSUME PulsaGuia \/ (\E id \in Tocados : PulsaPaso(id)) \/ LlegaJugador PROVE Prosigue
  <2>1. PulsaGuia => s' = s /\ \E v : mem' = AbreGuia(mem, v)
    BY DEF PulsaGuia, ConGesto, Pon, Todo
  <2>2. \A id : PulsaPaso(id) => s' = s /\ \E v : mem' = Marca(mem, id, v)
    BY DEF PulsaPaso, ConGesto, Pon, Todo
  <2>3. LlegaJugador => s' = s /\ \E p, n : mem' = Jugador(mem, p, n)
    BY DEF LlegaJugador, Pon, Todo
  <2>4. s' = s /\ MemIgual(mem, mem')
    BY <1>0, <1>19, <2>1, <2>2, <2>3, MemQuieta
  <2>5. QED
    BY <1>2, <2>4
<1>20. ASSUME PonGafas PROVE Prosigue
  <2> DEFINE R == EntrarVR(Todo)
  <2>1. Solo(s, R.s, DePose \cup {"visibles", "xr", "rig", "raf"}) /\ MemIgual(mem, R.m)
    BY <1>0, SesionEntrarVR, MemNucleo
  <2>2. Pon(R)
    BY <1>20 DEF PonGafas
  <2> HIDE DEF R
  <2>3. QED
    BY <2>1, <2>2, MemPon DEF DePose, DeVista, DelQuieto, DelRegistro
<1>21. ASSUME QuitaGafas \/ FallanGafas PROVE Prosigue
  <2>1. s' = RestoreDesktop(s) /\ mem' = mem
    BY <1>21 DEF QuitaGafas, FallanGafas, Pon, Todo
  <2>2. Solo(s, s', DePose \cup {"xr", "rig", "raf"})
    BY <2>1, SoloLazo
  <2>3. QED
    BY <1>0, <2>1, <2>2, MemPaso DEF DePose, DeVista, DelQuieto, DelRegistro
<1>22. ASSUME NEW b, Esconde(b) PROVE Prosigue
  <2>1. s' = Visibility(s, b) /\ mem' = mem
    BY <1>22 DEF Esconde, Pon, Todo
  <2>2. QED
    BY <1>0, <2>1, SoloLazo, MemPaso DEF DelQuieto, DelRegistro
<1>23. ASSUME NEW b, Muestra(b) PROVE Prosigue
  <2>1. s' = SetVisible(s, b) /\ mem' = mem
    BY <1>23 DEF Muestra, Pon, Todo
  <2>2. QED
    BY <1>0, <2>1, SoloLazo, MemPaso DEF DelQuieto, DelRegistro
<1>24. QED
  BY <1>5, <1>6, <1>7, <1>8, <1>9, <1>10, <1>11, <1>12, <1>13, <1>14, <1>15, <1>16, <1>17, <1>18,
     <1>19, <1>20, <1>21, <1>22, <1>23 DEF Llamada

\* The memory as it starts.
LEMMA MemNueva ==
    ASSUME NEW disco, NEW ancho, NEW i
    PROVE  LET R == MemoriaNueva(disco, ancho, i) IN DOMAIN R = CamposMem /\ HuecosOK(R) /\ R.firma = Nada
<1> DEFINE A == [placas |-> <<>>, huecos |-> [n \in 1..Huecos |-> HuecoLibre], placaT |-> 0, lista |-> <<>>, listaSel |-> 0,
                 listaVista |-> Nada, encLabels |-> Nada, verEncargos |-> disco.enc, foco |-> SinFoco,
                 progreso |-> LeeProgreso(disco.guia), resaltar |-> FALSE, guiaOn |-> FALSE, guiaPintada |-> {},
                 firma |-> Nada, idioma |-> i, disco |-> disco]
           R == MontaUI(A, ancho)
<1>1. DOMAIN A = CamposMem /\ A.huecos = [n \in 1..Huecos |-> HuecoLibre] /\ A.placas = <<>> /\ A.firma = Nada
  BY DEF CamposMem
<1>2. MemoriaNueva(disco, ancho, i) = R
  BY DEF MemoriaNueva
<1> HIDE DEF A
<1>3. Solo(A, R, {"progreso", "resaltar", "guiaOn", "guiaPintada", "disco"})
  BY DEF Solo, MontaUI, PintaGuia, Guarda
<1> HIDE DEF R
<1>4. DOMAIN R = CamposMem /\ R.huecos = [n \in 1..Huecos |-> HuecoLibre] /\ R.placas = <<>> /\ R.firma = Nada
  BY <1>1, <1>3 DEF Solo, CamposMem
<1>5. HuecosOK(R)
  BY <1>4 DEF HuecosOK, HuecoLibre
<1>6. QED
  BY <1>2, <1>4, <1>5

LEMMA MemInit == Init => MemOK(s, mem)
<1> SUFFICES ASSUME Init PROVE MemOK(s, mem)
  OBVIOUS
<1>1. PICK disco, ancho : mem = MemoriaNueva(disco, ancho, "es")
  BY DEF Init
<1>2. s.ready = FALSE /\ s.city = Nada /\ s.pending = Nada
  BY DEF Init, NucleoNuevo
<1>3. QED
  BY <1>1, <1>2, MemNueva DEF MemOK

\* Every step keeps the memory of the city.
LEMMA MemPasa ==
    ASSUME InvSesion, MemOK(s, mem), [Next]_vars
    PROVE  MemOK(s, mem)'
<1> USE TodoSon
<1>0. Sesion(Todo) /\ t \in 0..MaxT /\ Recordada(Todo) /\ MemIgual(mem, mem)
  BY MemIgualNada DEF InvSesion, Recordada, ConMemoria, MemOK, Sesion, NucleoOK
<1>1. ASSUME UNCHANGED <<s, mem>> PROVE MemOK(s', mem')
  BY <1>1
<1>2. ASSUME Remonta PROVE MemOK(s', mem')
  <2>1. s'.ready = FALSE /\ s'.city = Nada /\ s'.pending = Nada /\ mem' = MemoriaNueva(mem.disco, guion.ancho, idioma)
    BY <1>2 DEF Remonta, NucleoNuevo
  <2>2. QED
    BY <2>1, MemNueva DEF MemOK
<1>3. ASSUME Carga PROVE MemOK(s', mem')
  <2> DEFINE R == BuildWorld(Todo)
  <2>1. Pon(R) /\ ~s.ready
    BY <1>3 DEF Carga
  <2>2. Recordada(R)
    BY <1>0, <2>1, MemMundo
  <2> HIDE DEF R
  <2>3. QED
    BY <2>1, <2>2 DEF Pon, Recordada
<1>4. ASSUME EntraEnFoto PROVE MemOK(s', mem')
  <2>1. mem' = mem /\ s' = [s EXCEPT !.visibles = @ \ MarcasSeleccion]
    BY <1>4 DEF EntraEnFoto, Pon, EntraFoto, OcultaEtiquetas
  <2>2. Solo(s, s', {"visibles"})
    BY <2>1 DEF Solo
  <2>3. QED
    BY <1>0, <2>1, <2>2, MemPaso DEF Prosigue, DelQuieto, DelRegistro
<1>5. ASSUME Mide PROVE MemOK(s', mem')
  <2>1. mem' = mem /\ s' = [s EXCEPT !.bench = BenchNuevo(s)]
    BY <1>5 DEF Mide, Pon
  <2>2. Solo(s, s', {"bench"})
    BY <2>1 DEF Solo
  <2>3. QED
    BY <1>0, <2>1, <2>2, MemPaso DEF Prosigue, DelQuieto, DelRegistro
<1>6. ASSUME PulsaSonido \/ Navegador PROVE MemOK(s', mem')
  <2>1. s' = s /\ mem' = mem
    BY <1>6 DEF PulsaSonido, Navegador, ConGesto, Pon, Todo
  <2>2. QED
    BY <2>1
<1>7. ASSUME Cuadros PROVE MemOK(s', mem')
  <2>1. PICK f : Pon(Cuadro(Todo, f)) \/ Pon(XrFrame(Todo, f))
    BY <1>7 DEF Cuadros, Dibuja, DibujaVR
  <2>2. Recordada(Cuadro(Todo, f)) /\ Recordada(XrFrame(Todo, f))
    BY <1>0, MemFotograma
  <2>3. QED
    BY <2>1, <2>2 DEF Pon, Recordada
<1>8. \/ Llamada \/ PulsaSonido \/ EntraEnFoto \/ Mide \/ Remonta \/ Carga \/ Navegador \/ Cuadros
      \/ UNCHANGED <<s, mem>>
  BY DEF Next, Siguiente, vars
<1>9. ASSUME Llamada PROVE MemOK(s', mem')
  <2>1. \A q \in DOMAIN Fraccion : PideCalidad(q) => MemOK(s', mem')
    BY <1>0, MemPideCalidad
  <2>2. QED
    BY <1>0, <1>9, <2>1, LlamadaProsigue, MemPideCiudad DEF Prosigue
<1>10. QED
  BY <1>1, <1>2, <1>3, <1>4, <1>5, <1>6, <1>7, <1>8, <1>9

\* Once the map has loaded, the memory is of the city applied, whatever the calls
\* and the frames between.
THEOREM SpecMemOK == Spec => [](InvSesion /\ MemOK(s, mem))
<1>1. InvSesion /\ MemOK(s, mem) /\ [Next]_vars => InvSesion' /\ MemOK(s, mem)'
  BY SesionPasa, SesionQuieta, MemPasa
<1>2. QED
  BY SesionInit, MemInit, <1>1, PTL DEF Spec

\* What `memoria` shows is of the city applied: the errands, their labels and
\* the plaques, and a place that still shows a plaque shows one of this city as
\* it is now (memoria.js firmaCiudad, calculaPlacas, actualizaPlacas).
THEOREM SpecMemoryIsOfTheCity == Spec => []MemoryIsOfTheCity
<1>1. MemOK(s, mem) => MemoryIsOfTheCity
  <2>1. \A i \in PlacasVisibles(mem) : i \in DOMAIN mem.huecos /\ mem.huecos[i].clave # Nada
    BY DEF PlacasVisibles
  <2>2. QED
    BY <2>1 DEF MemOK, DeLaCiudad, HuecosOK, Distritos, MemoryIsOfTheCity
<1>2. QED
  BY SpecMemOK, <1>1, PTL

(***************************************************************************)
(* What is drawn, step by step.                                            *)
(***************************************************************************)
LEMMA SolPideCiudad ==
    ASSUME Sesion(Todo), SolOK(s), t \in 0..MaxT, NEW d \in Ciudades, PideCiudad(d)
    PROVE  SolOK(s')
<1> USE TodoSon
<1> DEFINE A == [Todo EXCEPT !.s = SetCity(@, d)]
           R == AplicaCiudad(A, d)
<1>1. DOMAIN A = {"s", "m", "x"} /\ A.s = SetCity(s, d)
  OBVIOUS
<1>2. Pon(IF d = s.city \/ ~s.ready THEN A ELSE R)
  BY DEF PideCiudad
<1>3. Sesion(A)
  BY SesionPanel DEF A
<1>4. R.s = ApplyCity(A.s, d)
  BY <1>1 DEF AplicaCiudad, EmitirCiudad
<1> HIDE DEF A, R
<1>5. CASE d = s.city
  BY <1>1, <1>2, <1>5 DEF Pon, SetCity
<1>6. CASE d # s.city
  <2>1. Solo(s, A.s, {"city", "pending"}) /\ A.s.city = d
    BY <1>1, <1>6, CamposSon DEF SetCity, Sesion, Solo
  <2>2. MismoRegistro(s, A.s) /\ A.s.ready = s.ready
    <3>1. A.s.ready = s.ready
      BY <2>1, CamposSon DEF Solo, Sesion
    <3>2. QED
      BY <2>1, <3>1, SoloRegistro DEF DelRegistro, Sesion
  <2>3. CASE ~s.ready
    <3>1. s' = A.s
      BY <1>2, <2>3 DEF Pon
    <3>2. QED
      BY <2>2, <2>3, <3>1, MismoIs DEF SolOK
  <2>4. CASE s.ready
    <3>1. Dibujado(A.s) /\ A.s.quality \in DOMAIN Fraccion /\ DOMAIN A.s = Campos
      BY <1>3, <2>2, <2>4, MismoDibujado DEF SolOK, Sesion, NucleoOK
    <3>2. Dibujado(R.s) /\ R.s.parcelas = CiudadSolida(d) /\ R.s.oculto = CiudadOculta(d)
      BY <1>4, <3>1, CiudadDibuja
    <3>3. Solo(A.s, R.s, DeSolidos \cup DeMarcas)
      BY <1>4, SoloCiudad
    <3>4. R.s.city = d /\ R.s.ready = s.ready
      BY <2>1, <2>2, <3>1, <3>3, CamposSon DEF Solo, DeSolidos, DeMarcas
    <3>5. s' = R.s
      BY <1>2, <1>6, <2>4 DEF Pon
    <3>6. QED
      BY <2>4, <3>2, <3>4, <3>5 DEF SolOK
  <2>5. QED
    BY <2>3, <2>4 DEF Sesion, NucleoOK
<1>7. QED
  BY <1>5, <1>6

\* The map loads: the world is raised, and the city that waited is applied to it.
LEMMA SolMundo ==
    ASSUME NEW E, Sesion(E), SolOK(E.s), ~E.s.ready, E.s.pending = E.s.city, t \in 0..MaxT
    PROVE  SolOK(BuildWorld(E).s)
<1> DEFINE W == Mundo(E.s)
           A == Levantado(E)
           D == CiudadPendiente(A)
           B == Repuesto(A)
           C == VueloPendiente(B)
<1>1. BuildWorld(E) = C
  BY DEF BuildWorld, Levantado, Repuesto
<1>2. DOMAIN E.s = Campos /\ E.s.quality \in DOMAIN Fraccion /\ E.s.parcelas = <<>> /\ E.s.oculto = {}
  BY DEF Sesion, NucleoOK, SolOK
<1>3. Dibujado(W) /\ W.parcelas = <<>> /\ W.oculto = {} /\ W.quality = E.s.quality
  BY <1>2, MundoDibuja
<1>4. Solo(E.s, W, DeSolidos \cup {"edificios", "cur", "goal"})
  BY SoloCiudad
<1>5. DOMAIN W = Campos
  BY <1>2, <1>4 DEF Solo
<1>6. Sesion(A) /\ A.s.ready = TRUE /\ Solo(W, A.s, {"luz", "ready"}) /\ Solo(E.s, A.s, DeSolidos \cup {"edificios", "cur", "goal", "luz", "ready"})
  BY SesionLevantado
<1> HIDE DEF W, A
<1>7. MismoRegistro(W, A.s)
  BY <1>5, <1>6, SoloRegistro DEF DelRegistro
<1>8. Dibujado(A.s) /\ A.s.parcelas = <<>> /\ A.s.oculto = {}
  BY <1>3, <1>7, MismoIs, MismoDibujado
<1>9. A.s.city = E.s.city /\ A.s.pending = E.s.pending /\ A.s.city \in Ciudades \cup {Nada}
  BY <1>2, <1>6, CamposSon DEF Solo, Sesion, NucleoOK, DeSolidos
<1>10. /\ Sesion(D) /\ Sesion(B) /\ Solo(D.s, B.s, DeMarcas)
       /\ Solo(A.s, D.s, DeSolidos \cup DeMarcas \cup {"pending"})
  BY <1>6, SesionRepuesto
<1>11. D.s.ready = TRUE /\ D.s.city = A.s.city
  BY <1>6, <1>10, CamposSon DEF Solo, Sesion, DeSolidos, DeMarcas
<1>12. Dibujado(D.s) /\ D.s.parcelas = CiudadSolida(A.s.city) /\ D.s.oculto = CiudadOculta(A.s.city)
  <2>1. CASE A.s.city = Nada
    <3>1. D = A
      BY <1>9, <2>1 DEF CiudadPendiente
    <3>2. QED
      BY <1>8, <2>1, <3>1 DEF CiudadSolida, CiudadOculta
  <2>2. CASE A.s.city \in Ciudades
    <3> DEFINE V == AplicaCiudad(A, A.s.city)
               P == ApplyCity(A.s, A.s.city)
    <3>1. Dibujado(P) /\ P.parcelas = CiudadSolida(A.s.city) /\ P.oculto = CiudadOculta(A.s.city)
      BY <1>6, <1>8, <2>2, CiudadDibuja DEF Sesion, NucleoOK
    <3>2. DOMAIN V = {"s", "m", "x"} /\ V.s = P
      BY <1>6 DEF AplicaCiudad, EmitirCiudad, Sesion
    <3>3. A.s.city # Nada
      BY <2>2, VisorAssumption
    <3>4. D = [V EXCEPT !.s.pending = Nada]
      BY <1>9, <3>3 DEF CiudadPendiente
    <3>5. Solo(A.s, P, DeSolidos \cup DeMarcas)
      BY SoloCiudad
    <3> HIDE DEF V, P, D
    <3>6. D.s = [P EXCEPT !.pending = Nada]
      BY <3>2, <3>4
    <3>7. DOMAIN P = Campos
      BY <1>6, <3>5 DEF Solo, Sesion
    <3>8. Solo(P, D.s, {"pending"})
      BY <3>6 DEF Solo
    <3>9. MismoRegistro(P, D.s)
      BY <3>7, <3>8, SoloRegistro DEF DelRegistro
    <3>10. QED
      BY <3>1, <3>9, MismoIs, MismoDibujado
  <2>3. QED
    BY <1>9, <2>1, <2>2
<1> HIDE DEF D
<1>13. SolOK(D.s)
  BY <1>11, <1>12 DEF SolOK
<1>14. Quieto(D.s, B.s)
  BY <1>10, SoloQuieto DEF Sesion, DeMarcas, DelQuieto, DelRegistro
<1> HIDE DEF B
<1>15. Solo(B.s, C.s, DePose \cup {"pendingFlight"})
  BY <1>10, SesionPendiente
<1> HIDE DEF C
<1>16. Quieto(B.s, C.s)
  BY <1>10, <1>15, SoloQuieto DEF Sesion, DePose, DeVista, DelQuieto, DelRegistro
<1>17. QED
  BY <1>1, <1>13, <1>14, <1>16, QuietoSol

LEMMA SolPasa ==
    ASSUME InvSesion, MemOK(s, mem), SolOK(s), [Next]_vars
    PROVE  SolOK(s)'
<1> USE TodoSon
<1>0. Sesion(Todo) /\ t \in 0..MaxT /\ DOMAIN s = Campos /\ s.ready \in BOOLEAN /\ s.quality \in DOMAIN Fraccion
  BY DEF InvSesion, Sesion, NucleoOK
<1>1. ASSUME NEW F, Solo(s, s', F), F \cap DelQuieto = {} PROVE SolOK(s')
  BY <1>0, <1>1, SoloQuieto, QuietoSol
<1>2. ASSUME UNCHANGED s PROVE SolOK(s')
  BY <1>2
<1>3. ASSUME Remonta PROVE SolOK(s')
  BY <1>3 DEF Remonta, NucleoNuevo, SolOK
<1>4. ASSUME Carga PROVE SolOK(s')
  <2> DEFINE R == BuildWorld(Todo)
  <2>1. Pon(R) /\ ~s.ready
    BY <1>4 DEF Carga
  <2>2. s.pending = s.city
    BY <2>1 DEF MemOK
  <2>3. SolOK(R.s)
    BY <1>0, <2>1, <2>2, SolMundo
  <2> HIDE DEF R
  <2>4. QED
    BY <2>1, <2>3 DEF Pon
<1>5. ASSUME EntraEnFoto PROVE SolOK(s')
  <2>1. s' = [s EXCEPT !.visibles = @ \ MarcasSeleccion]
    BY <1>5 DEF EntraEnFoto, Pon, EntraFoto, OcultaEtiquetas
  <2>2. Solo(s, s', {"visibles"})
    BY <2>1 DEF Solo
  <2>3. QED
    BY <1>1, <2>2 DEF DelQuieto, DelRegistro
<1>6. ASSUME Mide PROVE SolOK(s')
  <2>1. s' = [s EXCEPT !.bench = BenchNuevo(s)]
    BY <1>6 DEF Mide, Pon
  <2>2. Solo(s, s', {"bench"})
    BY <2>1 DEF Solo
  <2>3. QED
    BY <1>1, <2>2 DEF DelQuieto, DelRegistro
<1>7. ASSUME PulsaSonido \/ Navegador PROVE SolOK(s')
  <2>1. s' = s
    BY <1>7 DEF PulsaSonido, Navegador, ConGesto, Pon, Todo
  <2>2. QED
    BY <2>1
<1>8. ASSUME Cuadros PROVE SolOK(s')
  <2>1. PICK f : Pon(Cuadro(Todo, f)) \/ Pon(XrFrame(Todo, f))
    BY <1>8 DEF Cuadros, Dibuja, DibujaVR
  <2>2. Solo(s, Cuadro(Todo, f).s, DePose \cup DeCuadro \cup {"bench"}) /\ Solo(s, XrFrame(Todo, f).s, DeCuadro \cup DeMarcas)
    BY <1>0, SesionLazo, SesionGafas
  <2>3. Solo(s, s', DePose \cup DeCuadro \cup {"bench"}) \/ Solo(s, s', DeCuadro \cup DeMarcas)
    BY <2>1, <2>2 DEF Pon
  <2>4. /\ (DePose \cup DeCuadro \cup {"bench"}) \cap DelQuieto = {}
        /\ (DeCuadro \cup DeMarcas) \cap DelQuieto = {}
    BY DEF DePose, DeVista, DeCuadro, DeMarcas, DelQuieto, DelRegistro
  <2>5. QED
    BY <1>1, <2>3, <2>4
<1>9. ASSUME Llamada PROVE SolOK(s')
  <2>1. ASSUME NEW q \in DOMAIN Fraccion, PideCalidad(q) PROVE SolOK(s')
    <3>1. s' = SetQuality(s, q)
      BY <2>1 DEF PideCalidad, Pon, Todo
    <3>2. QED
      BY <1>0, <3>1, CalidadDibuja
  <2>2. ASSUME NEW d \in Ciudades, PideCiudad(d) PROVE SolOK(s')
    BY <1>0, <2>2, SolPideCiudad
  <2>3. Prosigue => SolOK(s')
    BY QuietoSol DEF Prosigue
  <2>4. QED
    BY <1>0, <1>9, <2>1, <2>2, <2>3, LlamadaProsigue
<1>10. \/ Llamada \/ PulsaSonido \/ EntraEnFoto \/ Mide \/ Remonta \/ Carga \/ Navegador \/ Cuadros
       \/ UNCHANGED s
  BY DEF Next, Siguiente, vars
<1>11. QED
  BY <1>2, <1>3, <1>4, <1>5, <1>6, <1>7, <1>8, <1>9, <1>10

\* Once the map has loaded, the register is of what is drawn, whatever the order
\* of the cities, the qualities and the map.
THEOREM SpecSolOK == Spec => [](InvSesion /\ MemOK(s, mem) /\ SolOK(s))
<1>1. Init => SolOK(s)
  BY DEF Init, NucleoNuevo, SolOK
<1>2. SolOK(s) /\ InvSesion /\ MemOK(s, mem) /\ [Next]_vars => SolOK(s)'
  BY SolPasa
<1>3. QED
  BY SpecMemOK, <1>1, <1>2, PTL DEF Spec

\* The register of solids, which stops the walker and answers the pointer, is
\* what is drawn: the landmarks, the buildings of the quarters this quality draws
\* and no parcel hides, and the parcels of the city of now, each once and in
\* every square it touches, whatever the order in which cities, qualities and the
\* map arrive (city3d.js applyCity, buildClusters, catastroQuita).
THEOREM SpecSolidsAreWhatIsDrawn == Spec => []SolidsAreWhatIsDrawn
<1>1. SolOK(s) => SolidsAreWhatIsDrawn
  <2> SUFFICES ASSUME SolOK(s), s.ready PROVE SolidsAreWhatIsDrawn
    BY DEF SolidsAreWhatIsDrawn
  <2>1. /\ Registrado(s, s.barrios) /\ s.barrios = Dibujados(s.edificios, s.quality, s.oculto)
        /\ s.parcelas = CiudadSolida(s.city) /\ s.oculto = CiudadOculta(s.city) /\ s.edificios = PlanificarBarrios
    BY DEF SolOK, Dibujado, Registrado
  <2> DEFINE items == s.catastro.items
             bins == s.catastro.bins
  <2>2. /\ items \in Seq(Solido) /\ DOMAIN bins = Cuadricula
        /\ \A i \in DOMAIN items : \A k \in Toca(items[i]) : i \in ToSet(bins[k])
        /\ \A k \in Cuadricula : ToSet(bins[k]) \subseteq DOMAIN items
    BY <2>1 DEF Registrado, Indexado, Registro
  <2>3. Cardinality(ToSet(items)) = Len(items)
    BY <2>1, <2>2, NoRepeatsCount DEF Registrado
  <2>4. ToSet(items) = ToSet(Hitos) \cup ToSet(s.barrios) \cup ToSet(s.parcelas)
    BY <2>1 DEF Registrado
  <2> HIDE DEF items, bins
  <2>5. QED
    BY <2>1, <2>2, <2>3, <2>4 DEF SolidsAreWhatIsDrawn, CiudadSolida, CiudadOculta, items, bins
<1>2. QED
  BY SpecSolOK, <1>1, PTL
=============================================================================
