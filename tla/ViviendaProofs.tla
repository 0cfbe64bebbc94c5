-------------------------- MODULE ViviendaProofs --------------------------
(***************************************************************************)
(* Theorems about Vivienda for every set of accounts, every finite city,   *)
(* every price, fee and cap.                                               *)
(***************************************************************************)
EXTENDS Vivienda, FiniteSetTheorems, TLAPS

----------------------------------------------------------------------------
(* Types.                                                                  *)

\* What can be asked for something is a natural number.
LEMMA AskedType == Asked \subseteq Nat /\ NotForSale \in Asked
BY ViviendaAssumption DEF Asked, NotForSale

\* Replacing one unit of a parcel leaves a parcel.
LEMMA UnitsExcept ==
    ASSUME NEW units \in Units, NEW n \in DOMAIN units, NEW u \in Unidad
    PROVE  /\ [units EXCEPT ![n] = u] \in Units
           /\ DOMAIN [units EXCEPT ![n] = u] = DOMAIN units
<1>1. PICK k \in Numbers \cup {0} : units \in [1..k -> Unidad]
  BY DEF Units
<1>2. [units EXCEPT ![n] = u] \in [1..k -> Unidad]
  BY <1>1
<1>3. QED
  BY <1>1, <1>2 DEF Units

\* The units of a parcel are numbered.
LEMMA UnitsType ==
    ASSUME NEW units \in Units
    PROVE  /\ DOMAIN units \subseteq Numbers
           /\ \A n \in DOMAIN units : units[n] \in Unidad
BY ViviendaAssumption DEF Units, Numbers

\* A parcel without units is a parcel.
LEMMA NoUnits == <<>> \in Units
<1>1. <<>> \in [1..0 -> Unidad]
  OBVIOUS
<1>2. QED
  BY <1>1 DEF Units

\* Payments keep the balances, the fees and what is burnt natural.
LEMMA PayType ==
    ASSUME TypeOK, NEW who \in Accounts, NEW amount \in Nat, NEW payee \in Accounts,
           NEW fee \in Fees, Pay(who, amount, payee, fee)
    PROVE  balance' \in [Accounts -> Nat] /\ comisiones' \in Nat /\ quemado' \in Nat
<1>1. fee \in Nat
  BY ViviendaAssumption
<1>2. \A a \in Accounts : balance[a] \in Nat
  BY DEF TypeOK
<1>3. \A a \in Accounts :
          balance[a] - (IF a = who THEN amount + fee ELSE 0)
                     + (IF a = payee THEN amount ELSE 0) \in Nat
  BY <1>1, <1>2 DEF Pay
<1>4. QED
  BY <1>1, <1>3 DEF Pay, TypeOK

\* A parcel replaced by a parcel leaves a city.
LEMMA ParcelExcept ==
    ASSUME TypeOK, NEW p \in DOMAIN parcels, NEW parcel \in Parcel,
           parcels' = [parcels EXCEPT ![p] = parcel]
    PROVE  /\ DOMAIN parcels' = DOMAIN parcels
           /\ parcels' \in [DOMAIN parcels' -> Parcel]
           /\ DOMAIN parcels' \subseteq Parcels
BY DEF TypeOK

\* A unit replaced by a unit leaves a parcel.
LEMMA UnitExcept ==
    ASSUME TypeOK, NEW p, NEW n, HasUnit(p, n), NEW u \in Unidad
    PROVE  [parcels[p] EXCEPT !.units = [@ EXCEPT ![n] = u]] \in Parcel
<1>1. parcels[p] \in Parcel /\ n \in DOMAIN parcels[p].units
  BY DEF TypeOK, HasUnit
<1>2. [parcels[p].units EXCEPT ![n] = u] \in Units
  BY <1>1, UnitsExcept DEF Parcel
<1>3. QED
  BY <1>1, <1>2 DEF Parcel

\* A unit of the ledger is well formed.
LEMMA UnitType ==
    ASSUME TypeOK, NEW p, NEW n, HasUnit(p, n)
    PROVE  parcels[p].units[n] \in Unidad
BY UnitsType DEF TypeOK, HasUnit, Parcel

\* The units an account has in one parcel are finitely many.
LEMMA YaDelCompradorType ==
    ASSUME TypeOK, NEW who \in Accounts, NEW p \in DOMAIN parcels
    PROVE  /\ IsFiniteSet({n \in DOMAIN parcels[p].units : UnitOwner(p, n) = who})
           /\ YaDelComprador(who, p) \in Nat
<1>1. {n \in DOMAIN parcels[p].units : UnitOwner(p, n) = who} \subseteq Numbers
  BY UnitsType DEF TypeOK, Parcel
<1>2. IsFiniteSet(Numbers)
  BY FS_Interval, ViviendaAssumption DEF Numbers
<1>3. QED
  BY <1>1, <1>2, FS_Subset, FS_CardinalityType DEF YaDelComprador

\* A parcel bought is a parcel.
LEMMA BoughtType ==
    ASSUME NEW parcel \in Parcel, NEW who \in Accounts
    PROVE  Bought(parcel, who) \in Parcel
<1>1. PICK k \in Numbers \cup {0} : parcel.units \in [1..k -> Unidad]
  BY DEF Parcel, Units
<1>2. Bought(parcel, who).units \in [1..k -> Unidad]
  BY <1>1 DEF Bought, Unidad, Asked
<1>3. QED
  BY <1>2 DEF Bought, Parcel, Units, Asked

\* What MoveUnit does to the parcels and to the counters.
LEMMA MoveUnitType ==
    ASSUME TypeOK, NEW p, NEW n, HasUnit(p, n),
           NEW from \in Accounts, NEW to \in Accounts, to # from,
           Cabe(p, from, to), MoveUnit(p, n, from, to)
    PROVE  /\ DOMAIN parcels' = DOMAIN parcels
           /\ parcels' \in [DOMAIN parcels' -> Parcel]
           /\ viviendas_ajenas' \in [Accounts -> Nat]
<1> DEFINE parcel == [parcels[p] EXCEPT !.units =
                         [@ EXCEPT ![n] = [owner |-> to, sale |-> NotForSale]]]
<1>1. [owner |-> to, sale |-> NotForSale] \in Unidad
  BY DEF Unidad, Asked
<1>2. parcel \in Parcel
  BY <1>1, UnitExcept
<1>3. parcels' = [parcels EXCEPT ![p] = parcel]
  BY DEF MoveUnit
<1>4. p \in DOMAIN parcels
  BY DEF HasUnit
<1>5. \A a \in Accounts : viviendas_ajenas[a] \in Nat
  BY DEF TypeOK
<1>6. viviendas_ajenas' \in [Accounts -> Nat]
  BY <1>5 DEF MoveUnit, Cabe
<1>7. QED
  BY <1>2, <1>3, <1>4, <1>6, ParcelExcept

\* Every step keeps the types.
LEMMA TypeInductive == TypeOK /\ [Next]_vars => TypeOK'
<1> SUFFICES ASSUME TypeOK, [Next]_vars PROVE TypeOK'
  OBVIOUS
<1>1. CASE UNCHANGED vars
  BY <1>1 DEF TypeOK, vars
<1>2. ASSUME NEW who \in Accounts, NEW p \in Parcels, NEW fee \in Fees,
             ClaimParcel(who, p, fee)
      PROVE  TypeOK'
  <2>1. CASE p \in DOMAIN parcels /\ PayFee(who, fee) /\ UNCHANGED <<parcels, viviendas_ajenas>>
    <3>1. balance' \in [Accounts -> Nat] /\ comisiones' \in Nat /\ quemado' \in Nat
      BY <2>1, PayType DEF PayFee
    <3>2. QED
      BY <2>1, <3>1 DEF TypeOK
  <2>2. CASE p \notin DOMAIN parcels
    <3>1. /\ balance[who] >= PrecioParcela + fee
          /\ balance' = [balance EXCEPT ![who] = @ - (PrecioParcela + fee)]
          /\ comisiones' = comisiones + fee
          /\ quemado' = quemado + PrecioParcela
          /\ UNCHANGED viviendas_ajenas
      BY <1>2, <2>2 DEF ClaimParcel
    <3>2. balance' \in [Accounts -> Nat] /\ comisiones' \in Nat /\ quemado' \in Nat
      BY <3>1, ViviendaAssumption DEF TypeOK
    <3>3. [owner |-> who, sale |-> NotForSale, units |-> <<>>] \in Parcel
      BY NoUnits DEF Parcel, Asked
    <3>4. parcels' = [x \in DOMAIN parcels \cup {p} |->
                         IF x = p THEN [owner |-> who, sale |-> NotForSale, units |-> <<>>]
                                  ELSE parcels[x]]
      BY <1>2, <2>2 DEF ClaimParcel
    <3>5. /\ DOMAIN parcels' \subseteq Parcels
          /\ parcels' \in [DOMAIN parcels' -> Parcel]
      BY <3>3, <3>4 DEF TypeOK
    <3>6. QED
      BY <3>1, <3>2, <3>5 DEF TypeOK
  <2>3. QED
    BY <1>2, <2>1, <2>2 DEF ClaimParcel
<1>3. ASSUME NEW who \in Accounts, NEW p \in Parcels, NEW fee \in Fees,
             NEW price \in Asked, SellParcel(who, p, price, fee)
      PROVE  TypeOK'
  <2>1. balance' \in [Accounts -> Nat] /\ comisiones' \in Nat /\ quemado' \in Nat
    BY <1>3, PayType DEF PayFee, SellParcel
  <2>2. p \in DOMAIN parcels /\ [parcels[p] EXCEPT !.sale = price] \in Parcel
    BY <1>3 DEF SellParcel, TypeOK, Parcel
  <2>3. parcels' = [parcels EXCEPT ![p] = [parcels[p] EXCEPT !.sale = price]]
    BY <1>3 DEF SellParcel
  <2>4. parcels' \in [DOMAIN parcels' -> Parcel] /\ DOMAIN parcels' \subseteq Parcels
    BY <2>2, <2>3, ParcelExcept
  <2>5. QED
    BY <1>3, <2>1, <2>4 DEF SellParcel, TypeOK
<1>4. ASSUME NEW who \in Accounts, NEW p \in Parcels, NEW fee \in Fees,
             NEW max_price \in Prices, BuyParcel(who, p, max_price, fee)
      PROVE  TypeOK'
  <2>1. p \in DOMAIN parcels /\ parcels[p] \in Parcel
    BY <1>4 DEF BuyParcel, TypeOK
  <2>2. parcels[p].sale \in Nat /\ parcels[p].owner \in Accounts
    BY <2>1, AskedType DEF Parcel
  <2>3. balance' \in [Accounts -> Nat] /\ comisiones' \in Nat /\ quemado' \in Nat
    BY <1>4, <2>2, PayType DEF BuyParcel
  <2>4. parcels' \in [DOMAIN parcels' -> Parcel] /\ DOMAIN parcels' \subseteq Parcels
    <3>1. Bought(parcels[p], who) \in Parcel
      BY <2>1, BoughtType
    <3>2. parcels' = [parcels EXCEPT ![p] = Bought(parcels[p], who)]
      BY <1>4 DEF BuyParcel
    <3>3. QED
      BY <2>1, <3>1, <3>2, ParcelExcept
  <2>5. YaDelComprador(who, p) \in Nat
    BY <2>1, YaDelCompradorType
  <2>6. viviendas_ajenas' \in [Accounts -> Nat]
    BY <1>4, <2>5 DEF BuyParcel, TypeOK
  <2>7. QED
    BY <2>3, <2>4, <2>6 DEF TypeOK
<1>5. ASSUME NEW who \in Accounts, NEW p \in Parcels, NEW fee \in Fees,
             NEW unidades \in Numbers, DivideParcel(who, p, unidades, fee)
      PROVE  TypeOK'
  <2>1. balance' \in [Accounts -> Nat] /\ comisiones' \in Nat /\ quemado' \in Nat
    BY <1>5, PayType DEF PayFee, DivideParcel
  <2> DEFINE divided == [n \in 1..unidades |-> [owner |-> who, sale |-> NotForSale]]
  <2>2. divided \in Units
    BY DEF Units, Unidad, Asked
  <2>3. p \in DOMAIN parcels /\ [parcels[p] EXCEPT !.units = divided] \in Parcel
    BY <1>5, <2>2 DEF DivideParcel, TypeOK, Parcel
  <2>4. parcels' = [parcels EXCEPT ![p] = [parcels[p] EXCEPT !.units = divided]]
    BY <1>5 DEF DivideParcel
  <2>5. parcels' \in [DOMAIN parcels' -> Parcel] /\ DOMAIN parcels' \subseteq Parcels
    BY <2>3, <2>4, ParcelExcept
  <2>6. QED
    BY <1>5, <2>1, <2>5 DEF DivideParcel, TypeOK
<1>6. ASSUME NEW who \in Accounts, NEW p \in Parcels, NEW fee \in Fees,
             NEW n \in Numbers, NEW to \in Accounts, TransferUnit(who, p, n, to, fee)
      PROVE  TypeOK'
  <2>1. balance' \in [Accounts -> Nat] /\ comisiones' \in Nat /\ quemado' \in Nat
    BY <1>6, PayType DEF PayFee, TransferUnit
  <2>2. /\ DOMAIN parcels' = DOMAIN parcels
        /\ parcels' \in [DOMAIN parcels' -> Parcel]
        /\ viviendas_ajenas' \in [Accounts -> Nat]
    BY <1>6, MoveUnitType DEF TransferUnit
  <2>3. QED
    BY <2>1, <2>2 DEF TypeOK
<1>7. ASSUME NEW who \in Accounts, NEW p \in Parcels, NEW fee \in Fees,
             NEW n \in Numbers, NEW price \in Asked, SellUnit(who, p, n, price, fee)
      PROVE  TypeOK'
  <2>1. balance' \in [Accounts -> Nat] /\ comisiones' \in Nat /\ quemado' \in Nat
    BY <1>7, PayType DEF PayFee, SellUnit
  <2> DEFINE unit == [parcels[p].units[n] EXCEPT !.sale = price]
  <2> DEFINE parcel == [parcels[p] EXCEPT !.units = [@ EXCEPT ![n] = unit]]
  <2>2. HasUnit(p, n) /\ p \in DOMAIN parcels
    BY <1>7 DEF SellUnit, HasUnit
  <2>3. unit \in Unidad
    BY <2>2, UnitType DEF Unidad
  <2>4. parcel \in Parcel
    BY <2>2, <2>3, UnitExcept
  <2>5. parcels' = [parcels EXCEPT ![p] = parcel]
    BY <1>7 DEF SellUnit
  <2>6. parcels' \in [DOMAIN parcels' -> Parcel] /\ DOMAIN parcels' \subseteq Parcels
    BY <2>2, <2>4, <2>5, ParcelExcept
  <2>7. QED
    BY <1>7, <2>1, <2>6 DEF SellUnit, TypeOK
<1>8. ASSUME NEW who \in Accounts, NEW p \in Parcels, NEW fee \in Fees,
             NEW n \in Numbers, NEW max_price \in Prices, BuyUnit(who, p, n, max_price, fee)
      PROVE  TypeOK'
  <2>1. HasUnit(p, n) /\ UnitOwner(p, n) # who
    BY <1>8 DEF BuyUnit
  <2>2. UnitOwner(p, n) \in Accounts /\ parcels[p].units[n].sale \in Nat
    BY <2>1, UnitType, AskedType DEF Unidad, UnitOwner
  <2>3. balance' \in [Accounts -> Nat] /\ comisiones' \in Nat /\ quemado' \in Nat
    BY <1>8, <2>2, PayType DEF BuyUnit
  <2>4. /\ DOMAIN parcels' = DOMAIN parcels
        /\ parcels' \in [DOMAIN parcels' -> Parcel]
        /\ viviendas_ajenas' \in [Accounts -> Nat]
    BY <1>8, <2>1, <2>2, MoveUnitType DEF BuyUnit
  <2>5. QED
    BY <2>3, <2>4 DEF TypeOK
<1>9. QED
  BY <1>1, <1>2, <1>3, <1>4, <1>5, <1>6, <1>7, <1>8 DEF Next, Signs

----------------------------------------------------------------------------
(* The counter and the cap.                                                *)

\* The cap is inductive only together with the counter it is checked on.
IInv == TypeOK /\ AjenasCorrect /\ CapHolds

\* Any set of units of the city is finite.
LEMMA CountIsNatural ==
    ASSUME NEW S, S \subseteq Parcels \X Numbers
    PROVE  IsFiniteSet(S) /\ Cardinality(S) \in Nat
<1>1. IsFiniteSet(Numbers)
  BY FS_Interval, ViviendaAssumption DEF Numbers
<1>2. IsFiniteSet(Parcels \X Numbers)
  BY <1>1, FS_Product, ViviendaAssumption
<1>3. QED
  BY <1>2, FS_Subset, FS_CardinalityType

\* The units of an account in parcels of others are units of the city.
LEMMA AjenasInside ==
    ASSUME NEW a
    PROVE  Ajenas(a) \subseteq Parcels \X Numbers /\ Ajenas(a)' \subseteq Parcels \X Numbers
BY DEF Ajenas, Unidades

\* A step that leaves the units of others as they are.
LEMMA SameAjenas ==
    ASSUME AjenasCorrect, CapHolds, viviendas_ajenas' = viviendas_ajenas,
           \A a \in Accounts : Ajenas(a)' = Ajenas(a)
    PROVE  AjenasCorrect' /\ CapHolds'
BY DEF AjenasCorrect, CapHolds, Recontadas

\* One unit passes from an account to another one: the sets of units in
\* parcels of others lose it, gain it or stay as they are.
LEMMA MoveUnitAjenas ==
    ASSUME TypeOK, NEW p \in Parcels, NEW n \in Numbers, HasUnit(p, n),
           NEW from \in Accounts, UnitOwner(p, n) = from,
           NEW to \in Accounts, to # from, MoveUnit(p, n, from, to),
           NEW a \in Accounts
    PROVE  /\ a = from => Ajenas(a)' = Ajenas(a) \ {<<p, n>>}
           /\ a = to /\ EsAjena(p, to) => Ajenas(a)' = Ajenas(a) \cup {<<p, n>>}
           /\ a # from /\ ~(a = to /\ EsAjena(p, to)) => Ajenas(a)' = Ajenas(a)
           /\ <<p, n>> \in Ajenas(from) <=> EsAjena(p, from)
           /\ <<p, n>> \notin Ajenas(to)
<1>1. /\ p \in DOMAIN parcels /\ n \in DOMAIN parcels[p].units
      /\ parcels[p] \in Parcel /\ parcels[p].units \in Units
  BY DEF HasUnit, TypeOK, Parcel
<1>2. parcels' = [parcels EXCEPT ![p].units[n] = [owner |-> to, sale |-> NotForSale]]
  BY DEF MoveUnit
<1>3. /\ DOMAIN parcels' = DOMAIN parcels
      /\ \A x \in DOMAIN parcels : parcels'[x].owner = parcels[x].owner
      /\ \A x \in DOMAIN parcels : DOMAIN parcels'[x].units = DOMAIN parcels[x].units
      /\ \A x \in DOMAIN parcels : \A m \in DOMAIN parcels[x].units :
            parcels'[x].units[m].owner = IF x = p /\ m = n THEN to
                                         ELSE parcels[x].units[m].owner
  BY <1>1, <1>2 DEF TypeOK, Parcel
<1>4. \A u \in Parcels \X Numbers :
         u \in Ajenas(a)' <=> /\ u[1] \in DOMAIN parcels /\ u[2] \in DOMAIN parcels[u[1]].units
                             /\ a # parcels[u[1]].owner
                             /\ a = IF u[1] = p /\ u[2] = n THEN to
                                   ELSE parcels[u[1]].units[u[2]].owner
  BY <1>3 DEF Ajenas, Unidades, HasUnit, Owner, UnitOwner, EsAjena
<1>5. \A b : \A u \in Parcels \X Numbers :
         u \in Ajenas(b) <=> /\ u[1] \in DOMAIN parcels /\ u[2] \in DOMAIN parcels[u[1]].units
                            /\ b # parcels[u[1]].owner
                            /\ b = parcels[u[1]].units[u[2]].owner
  BY DEF Ajenas, Unidades, HasUnit, Owner, UnitOwner, EsAjena
<1>6. <<p, n>> \in Parcels \X Numbers /\ parcels[p].units[n].owner = from
  BY DEF UnitOwner
<1>7. \A u \in Parcels \X Numbers : u[1] = p /\ u[2] = n <=> u = <<p, n>>
  OBVIOUS
<1>8. \A u \in Parcels \X Numbers :
         u \in Ajenas(a)' <=> IF u = <<p, n>> THEN a = to /\ EsAjena(p, to)
                             ELSE u \in Ajenas(a)
  BY <1>1, <1>4, <1>5, <1>7 DEF EsAjena
<1>9. /\ <<p, n>> \in Ajenas(from) <=> EsAjena(p, from)
      /\ <<p, n>> \notin Ajenas(to)
      /\ a # from => <<p, n>> \notin Ajenas(a)
  BY <1>1, <1>5, <1>6 DEF EsAjena
<1>10. QED
  BY <1>6, <1>8, <1>9, AjenasInside

\* Moving one unit keeps the counter right and every account within the cap.
LEMMA MoveUnitKeeps ==
    ASSUME IInv, NEW p \in Parcels, NEW n \in Numbers, HasUnit(p, n),
           NEW from \in Accounts, UnitOwner(p, n) = from,
           NEW to \in Accounts, to # from, Cabe(p, from, to), MoveUnit(p, n, from, to)
    PROVE  AjenasCorrect' /\ CapHolds'
<1>1. \A a \in Accounts : /\ IsFiniteSet(Ajenas(a)) /\ Cardinality(Ajenas(a)) \in Nat
                          /\ viviendas_ajenas[a] = Cardinality(Ajenas(a))
                          /\ Cardinality(Ajenas(a)) <= MAX_UNIDADES_POR_CUENTA
  BY AjenasInside, CountIsNatural DEF IInv, AjenasCorrect, Recontadas, CapHolds
<1>2. ASSUME NEW a \in Accounts
      PROVE  /\ viviendas_ajenas'[a] = Cardinality(Ajenas(a)')
             /\ Cardinality(Ajenas(a)') <= MAX_UNIDADES_POR_CUENTA
  <2>1. viviendas_ajenas'[a] =
           viviendas_ajenas[a] - (IF a = from /\ EsAjena(p, from) THEN 1 ELSE 0)
                               + (IF a = to /\ EsAjena(p, to) THEN 1 ELSE 0)
    BY DEF MoveUnit
  <2>2. CASE a = from
    <3>1. Ajenas(a)' = Ajenas(a) \ {<<p, n>>} /\ (<<p, n>> \in Ajenas(a) <=> EsAjena(p, from))
      BY <2>2, MoveUnitAjenas DEF IInv
    <3>2. Cardinality(Ajenas(a) \ {<<p, n>>}) =
             IF <<p, n>> \in Ajenas(a) THEN Cardinality(Ajenas(a)) - 1
                                       ELSE Cardinality(Ajenas(a))
      BY <1>1, FS_RemoveElement
    <3>3. QED
      BY <1>1, <2>1, <2>2, <3>1, <3>2, ViviendaAssumption
  <2>3. CASE a = to /\ EsAjena(p, to)
    <3>1. Ajenas(a)' = Ajenas(a) \cup {<<p, n>>} /\ <<p, n>> \notin Ajenas(a)
      BY <2>3, MoveUnitAjenas DEF IInv
    <3>2. Cardinality(Ajenas(a) \cup {<<p, n>>}) = Cardinality(Ajenas(a)) + 1
      BY <1>1, <3>1, FS_AddElement
    <3>3. viviendas_ajenas[to] < MAX_UNIDADES_POR_CUENTA
      BY <2>3 DEF Cabe
    <3>4. QED
      BY <1>1, <2>1, <2>3, <3>1, <3>2, <3>3, ViviendaAssumption
  <2>4. CASE a # from /\ ~(a = to /\ EsAjena(p, to))
    <3>1. Ajenas(a)' = Ajenas(a)
      <4>1. a # from /\ ~(a = to /\ EsAjena(p, to)) => Ajenas(a)' = Ajenas(a)
        BY MoveUnitAjenas DEF IInv
      <4>2. QED
        BY <2>4, <4>1
    <3>2. QED
      BY <1>1, <2>1, <2>4, <3>1
  <2>5. QED
    BY <2>2, <2>3, <2>4
<1>3. viviendas_ajenas' = [a \in Accounts |-> Cardinality(Ajenas(a)')]
  <2>1. viviendas_ajenas' = [a \in Accounts |-> viviendas_ajenas'[a]]
    BY DEF MoveUnit
  <2>2. QED
    BY <1>2, <2>1
<1>4. QED
  BY <1>2, <1>3 DEF AjenasCorrect, Recontadas, CapHolds

\* The units that leave or stay when a parcel is bought: those of the buyer
\* in it stop being in another's parcel, and no account gains any.
LEMMA BuyParcelAjenas ==
    ASSUME TypeOK, NEW who \in Accounts, NEW p \in DOMAIN parcels,
           parcels[p].owner # who, parcels' = [parcels EXCEPT ![p] = Bought(@, who)],
           NEW a \in Accounts
    PROVE  /\ a = who => Ajenas(a)' = Ajenas(a) \ ({p} \X {n \in DOMAIN parcels[p].units : UnitOwner(p, n) = who})
           /\ a # who => Ajenas(a)' = Ajenas(a)
           /\ {p} \X {n \in DOMAIN parcels[p].units : UnitOwner(p, n) = who} \subseteq Ajenas(who)
<1> DEFINE hers == {p} \X {n \in DOMAIN parcels[p].units : UnitOwner(p, n) = who}
<1>1. parcels[p] \in Parcel /\ p \in Parcels
  BY DEF TypeOK
<1>2. DOMAIN parcels[p].units \subseteq Numbers
  BY <1>1, UnitsType DEF Parcel
<1>3. /\ DOMAIN parcels' = DOMAIN parcels
      /\ \A x \in DOMAIN parcels \ {p} : parcels'[x] = parcels[x]
      /\ parcels'[p].owner = who
      /\ DOMAIN parcels'[p].units = DOMAIN parcels[p].units
      /\ \A m \in DOMAIN parcels[p].units :
            parcels'[p].units[m].owner = IF parcels[p].units[m].owner = parcels[p].owner
                                         THEN who ELSE parcels[p].units[m].owner
  BY DEF Bought, TypeOK
<1>4. \A u \in Parcels \X Numbers :
         u \in Ajenas(a)' <=> /\ u[1] \in DOMAIN parcels /\ u[2] \in DOMAIN parcels[u[1]].units
                             /\ a # parcels'[u[1]].owner
                             /\ a = parcels'[u[1]].units[u[2]].owner
  BY <1>3 DEF Ajenas, Unidades, HasUnit, Owner, UnitOwner, EsAjena
<1>5. \A b : \A u \in Parcels \X Numbers :
         u \in Ajenas(b) <=> /\ u[1] \in DOMAIN parcels /\ u[2] \in DOMAIN parcels[u[1]].units
                            /\ b # parcels[u[1]].owner
                            /\ b = parcels[u[1]].units[u[2]].owner
  BY DEF Ajenas, Unidades, HasUnit, Owner, UnitOwner, EsAjena
<1>6. \A u \in Parcels \X Numbers :
         u \in hers <=> /\ u[1] = p /\ u[2] \in DOMAIN parcels[p].units
                       /\ parcels[p].units[u[2]].owner = who
  BY DEF UnitOwner
<1>7. hers \subseteq Parcels \X Numbers
  BY <1>1, <1>2
<1>8. hers \subseteq Ajenas(who)
  BY <1>5, <1>6, <1>7
<1>9. \A u \in Parcels \X Numbers :
         u \in Ajenas(a)' <=> u \in Ajenas(a) /\ ~(a = who /\ u \in hers)
  BY <1>3, <1>4, <1>5, <1>6
<1>10. QED
  BY <1>8, <1>9, AjenasInside

\* Buying a parcel keeps the counter right and every account within the cap.
LEMMA BuyParcelKeeps ==
    ASSUME IInv, NEW who \in Accounts, NEW p \in DOMAIN parcels, NEW fee, NEW max_price,
           BuyParcel(who, p, max_price, fee)
    PROVE  AjenasCorrect' /\ CapHolds'
<1> DEFINE mine == {n \in DOMAIN parcels[p].units : UnitOwner(p, n) = who}
<1>1. \A a \in Accounts : /\ IsFiniteSet(Ajenas(a)) /\ Cardinality(Ajenas(a)) \in Nat
                          /\ viviendas_ajenas[a] = Cardinality(Ajenas(a))
                          /\ Cardinality(Ajenas(a)) <= MAX_UNIDADES_POR_CUENTA
  BY AjenasInside, CountIsNatural DEF IInv, AjenasCorrect, Recontadas, CapHolds
<1>2. IsFiniteSet(mine) /\ Cardinality(mine) = YaDelComprador(who, p) /\ Cardinality(mine) \in Nat
  BY YaDelCompradorType DEF YaDelComprador, IInv
<1>3. Cardinality({p} \X mine) = Cardinality(mine)
  <2>1. IsFiniteSet({p}) /\ Cardinality({p}) = 1
    BY FS_Singleton
  <2>2. Cardinality({p} \X mine) = Cardinality({p}) * Cardinality(mine)
    BY <1>2, <2>1, FS_Product
  <2>3. QED
    BY <1>2, <2>1, <2>2
<1>4. /\ parcels[p].owner # who /\ parcels' = [parcels EXCEPT ![p] = Bought(@, who)]
      /\ viviendas_ajenas' = [viviendas_ajenas EXCEPT ![who] = @ - YaDelComprador(who, p)]
  BY DEF BuyParcel
<1>5. {p} \X mine \subseteq Ajenas(who) /\ Ajenas(who)' = Ajenas(who) \ ({p} \X mine)
  BY <1>4, BuyParcelAjenas DEF IInv
<1>6. Cardinality(Ajenas(who)') = Cardinality(Ajenas(who)) - Cardinality(mine)
  <2>1. Ajenas(who) \cap ({p} \X mine) = {p} \X mine
    BY <1>5
  <2>2. Cardinality(Ajenas(who) \ ({p} \X mine))
           = Cardinality(Ajenas(who)) - Cardinality(Ajenas(who) \cap ({p} \X mine))
    BY <1>1, FS_Difference
  <2>3. QED
    BY <1>3, <1>5, <2>1, <2>2
<1>7. \A a \in Accounts \ {who} : Ajenas(a)' = Ajenas(a)
  BY <1>4, BuyParcelAjenas DEF IInv
<1>8. \A a \in Accounts : /\ viviendas_ajenas'[a] = Cardinality(Ajenas(a)')
                          /\ Cardinality(Ajenas(a)') <= MAX_UNIDADES_POR_CUENTA
  BY <1>1, <1>2, <1>4, <1>6, <1>7, ViviendaAssumption DEF IInv, TypeOK
<1>9. viviendas_ajenas' = [a \in Accounts |-> viviendas_ajenas'[a]]
  BY <1>4 DEF IInv, TypeOK
<1>10. QED
  BY <1>8, <1>9 DEF AjenasCorrect, Recontadas, CapHolds

\* A step that keeps every owner: what it adds are units of the parcel's owner.
LEMMA OwnersKept ==
    ASSUME NEW p, p \in DOMAIN parcels => p \in DOMAIN parcels',
           DOMAIN parcels' = DOMAIN parcels \cup {p},
           \A x \in DOMAIN parcels \ {p} : parcels'[x] = parcels[x],
           p \in DOMAIN parcels => parcels'[p].owner = parcels[p].owner,
           p \in DOMAIN parcels => \A n \in DOMAIN parcels[p].units :
                /\ n \in DOMAIN parcels'[p].units
                /\ parcels'[p].units[n].owner = parcels[p].units[n].owner,
           \A n \in DOMAIN parcels'[p].units :
                \/ p \in DOMAIN parcels /\ n \in DOMAIN parcels[p].units
                \/ parcels'[p].units[n].owner = parcels'[p].owner,
           NEW a
    PROVE  Ajenas(a)' = Ajenas(a)
<1>1. \A u \in Parcels \X Numbers :
         u \in Ajenas(a)' <=> /\ u[1] \in DOMAIN parcels' /\ u[2] \in DOMAIN parcels'[u[1]].units
                             /\ a # parcels'[u[1]].owner
                             /\ a = parcels'[u[1]].units[u[2]].owner
  BY DEF Ajenas, Unidades, HasUnit, Owner, UnitOwner, EsAjena
<1>2. \A u \in Parcels \X Numbers :
         u \in Ajenas(a) <=> /\ u[1] \in DOMAIN parcels /\ u[2] \in DOMAIN parcels[u[1]].units
                            /\ a # parcels[u[1]].owner
                            /\ a = parcels[u[1]].units[u[2]].owner
  BY DEF Ajenas, Unidades, HasUnit, Owner, UnitOwner, EsAjena
<1>3. \A u \in Parcels \X Numbers : u \in Ajenas(a)' <=> u \in Ajenas(a)
  BY <1>1, <1>2
<1>4. QED
  BY <1>3, AjenasInside

\* Every step keeps the invariant.
LEMMA IInvInductive == IInv /\ [Next]_vars => IInv'
<1> SUFFICES ASSUME IInv, [Next]_vars PROVE AjenasCorrect' /\ CapHolds'
  BY TypeInductive DEF IInv
<1> USE DEF IInv
<1>1. CASE UNCHANGED vars
  BY <1>1 DEF vars, AjenasCorrect, CapHolds, Recontadas, Ajenas, Unidades, HasUnit,
              Owner, UnitOwner, EsAjena
<1>2. ASSUME NEW who \in Accounts, NEW p \in Parcels, NEW fee \in Fees,
             ClaimParcel(who, p, fee)
      PROVE  AjenasCorrect' /\ CapHolds'
  <2>1. CASE UNCHANGED <<parcels, viviendas_ajenas>>
    BY <2>1 DEF AjenasCorrect, CapHolds, Recontadas, Ajenas, Unidades, HasUnit,
                Owner, UnitOwner, EsAjena
  <2>2. CASE p \notin DOMAIN parcels
    <3>1. parcels' = [x \in DOMAIN parcels \cup {p} |->
                         IF x = p THEN [owner |-> who, sale |-> NotForSale, units |-> <<>>]
                                  ELSE parcels[x]]
      BY <1>2, <2>2 DEF ClaimParcel
    <3>2. /\ DOMAIN parcels' = DOMAIN parcels \cup {p}
          /\ \A x \in DOMAIN parcels \ {p} : parcels'[x] = parcels[x]
          /\ DOMAIN parcels'[p].units = {}
      <4>1. p \in DOMAIN parcels' /\ parcels'[p].units = <<>>
        BY <3>1
      <4>2. QED
        BY <3>1, <4>1
    <3>3. \A a \in Accounts : Ajenas(a)' = Ajenas(a)
      BY <2>2, <3>2, OwnersKept
    <3>4. QED
      BY <1>2, <2>2, <3>3, SameAjenas DEF ClaimParcel
  <2>3. QED
    BY <1>2, <2>1, <2>2 DEF ClaimParcel
<1>3. ASSUME NEW who \in Accounts, NEW p \in Parcels, NEW fee \in Fees,
             NEW price \in Asked, SellParcel(who, p, price, fee)
      PROVE  AjenasCorrect' /\ CapHolds'
  <2>1. p \in DOMAIN parcels /\ parcels[p] \in Parcel
    BY <1>3 DEF SellParcel, TypeOK
  <2>2. parcels' = [parcels EXCEPT ![p].sale = price]
    BY <1>3 DEF SellParcel
  <2>3. parcels'[p].owner = parcels[p].owner /\ parcels'[p].units = parcels[p].units
    BY <2>1, <2>2 DEF TypeOK, Parcel
  <2>4. \A a \in Accounts : Ajenas(a)' = Ajenas(a)
    BY <2>1, <2>2, <2>3, OwnersKept
  <2>5. QED
    BY <1>3, <2>4, SameAjenas DEF SellParcel
<1>4. ASSUME NEW who \in Accounts, NEW p \in Parcels, NEW fee \in Fees,
             NEW max_price \in Prices, BuyParcel(who, p, max_price, fee)
      PROVE  AjenasCorrect' /\ CapHolds'
  <2>1. p \in DOMAIN parcels
    BY <1>4 DEF BuyParcel
  <2>2. QED
    BY <1>4, <2>1, BuyParcelKeeps
<1>5. ASSUME NEW who \in Accounts, NEW p \in Parcels, NEW fee \in Fees,
             NEW unidades \in Numbers, DivideParcel(who, p, unidades, fee)
      PROVE  AjenasCorrect' /\ CapHolds'
  <2>1. /\ p \in DOMAIN parcels /\ parcels[p] \in Parcel /\ parcels[p].owner = who
        /\ parcels[p].units = <<>>
    BY <1>5 DEF DivideParcel, TypeOK
  <2>2. parcels' = [parcels EXCEPT ![p].units =
                       [n \in 1..unidades |-> [owner |-> who, sale |-> NotForSale]]]
    BY <1>5 DEF DivideParcel
  <2>3. /\ parcels'[p].owner = who
        /\ \A n \in DOMAIN parcels'[p].units : parcels'[p].units[n].owner = who
    BY <2>1, <2>2 DEF TypeOK, Parcel
  <2>4. \A a \in Accounts : Ajenas(a)' = Ajenas(a)
    BY <2>1, <2>2, <2>3, OwnersKept
  <2>5. QED
    BY <1>5, <2>4, SameAjenas DEF DivideParcel
<1>6. ASSUME NEW who \in Accounts, NEW p \in Parcels, NEW fee \in Fees,
             NEW n \in Numbers, NEW to \in Accounts, TransferUnit(who, p, n, to, fee)
      PROVE  AjenasCorrect' /\ CapHolds'
  BY <1>6, MoveUnitKeeps DEF TransferUnit
<1>7. ASSUME NEW who \in Accounts, NEW p \in Parcels, NEW fee \in Fees,
             NEW n \in Numbers, NEW price \in Asked, SellUnit(who, p, n, price, fee)
      PROVE  AjenasCorrect' /\ CapHolds'
  <2>1. /\ p \in DOMAIN parcels /\ n \in DOMAIN parcels[p].units
        /\ parcels[p] \in Parcel /\ parcels[p].units[n] \in Unidad
    BY <1>7, UnitType DEF SellUnit, HasUnit, TypeOK
  <2>2. parcels' = [parcels EXCEPT ![p].units[n].sale = price]
    BY <1>7 DEF SellUnit
  <2>3. /\ parcels'[p].owner = parcels[p].owner
        /\ DOMAIN parcels'[p].units = DOMAIN parcels[p].units
        /\ \A m \in DOMAIN parcels[p].units :
              parcels'[p].units[m].owner = parcels[p].units[m].owner
    BY <2>1, <2>2 DEF TypeOK, Parcel, Unidad
  <2>4. \A a \in Accounts : Ajenas(a)' = Ajenas(a)
    BY <2>1, <2>2, <2>3, OwnersKept
  <2>5. QED
    BY <1>7, <2>4, SameAjenas DEF SellUnit
<1>8. ASSUME NEW who \in Accounts, NEW p \in Parcels, NEW fee \in Fees,
             NEW n \in Numbers, NEW max_price \in Prices, BuyUnit(who, p, n, max_price, fee)
      PROVE  AjenasCorrect' /\ CapHolds'
  <2>1. HasUnit(p, n) /\ UnitOwner(p, n) # who
    BY <1>8 DEF BuyUnit
  <2>2. UnitOwner(p, n) \in Accounts
    BY <2>1, UnitType DEF Unidad, UnitOwner
  <2>3. QED
    BY <1>8, <2>1, <2>2, MoveUnitKeeps DEF BuyUnit
<1>9. QED
  BY <1>1, <1>2, <1>3, <1>4, <1>5, <1>6, <1>7, <1>8 DEF Next, Signs

\* The invariant holds at the start.
LEMMA IInvInit == Init => IInv
<1> SUFFICES ASSUME Init PROVE IInv
  OBVIOUS
<1>1. TypeOK
  BY ViviendaAssumption DEF Init, TypeOK
<1>2. \A a \in Accounts : Ajenas(a) = {}
  BY DEF Init, Ajenas, Unidades, HasUnit
<1>3. Cardinality({}) = 0
  BY FS_EmptySet
<1>4. \A a \in Accounts : Cardinality(Ajenas(a)) = 0
  BY <1>2, <1>3
<1>5. AjenasCorrect
  BY <1>4 DEF Init, AjenasCorrect, Recontadas
<1>6. CapHolds
  BY <1>4, ViviendaAssumption DEF CapHolds
<1>7. QED
  BY <1>1, <1>5, <1>6 DEF IInv

\* Balances, counters, parcels and units stay well formed: in particular no
\* balance and no counter ever goes below zero.
THEOREM TypeCorrect == Spec => []TypeOK
<1>1. Init => TypeOK
  BY IInvInit DEF IInv
<1>2. QED
  BY <1>1, TypeInductive, PTL DEF Spec

\* The invariant always holds.
LEMMA IInvAlways == Spec => []IInv
BY IInvInit, IInvInductive, PTL DEF Spec

\* The incremental counter of units in parcels of others is the recount, for
\* every city and every sequence of transactions.
THEOREM CounterCorrect == Spec => []AjenasCorrect
<1>1. IInv => AjenasCorrect
  BY DEF IInv
<1>2. QED
  BY <1>1, IInvAlways, PTL

\* No account ever owns more units in parcels of others than the cap.
THEOREM CapCorrect == Spec => []CapHolds
<1>1. IInv => CapHolds
  BY DEF IInv
<1>2. QED
  BY <1>1, IInvAlways, PTL

----------------------------------------------------------------------------
(* What a step may never do to an owner.                                   *)

AllPaid == \A p \in DOMAIN parcels :
              ParcelPaid(p) /\ \A n \in DOMAIN parcels[p].units : UnitPaid(p, n)

\* MoveUnit changes the owner of one unit and of nothing else.
LEMMA MoveUnitOwners ==
    ASSUME TypeOK, NEW p, NEW n, HasUnit(p, n), NEW from, NEW to, MoveUnit(p, n, from, to)
    PROVE  /\ \A x \in DOMAIN parcels : parcels'[x].owner = parcels[x].owner
           /\ \A x \in DOMAIN parcels : \A m \in DOMAIN parcels[x].units :
                 (x = p /\ m = n) \/ parcels'[x].units[m].owner = parcels[x].units[m].owner
<1>1. p \in DOMAIN parcels /\ n \in DOMAIN parcels[p].units
  BY DEF HasUnit
<1>2. parcels' = [parcels EXCEPT ![p].units[n] = [owner |-> to, sale |-> NotForSale]]
  BY DEF MoveUnit
<1>3. QED
  BY <1>1, <1>2 DEF TypeOK, Parcel

\* The payee of an amount is richer by it, unless he is the one who pays.
LEMMA PayeePaid ==
    ASSUME TypeOK, NEW who, NEW payee \in Accounts, payee # who,
           NEW amount \in Nat, NEW fee, Pay(who, amount, payee, fee)
    PROVE  balance'[payee] >= balance[payee] + amount
<1>1. balance'[payee] = balance[payee] - 0 + amount /\ balance[payee] \in Nat
  BY DEF Pay, TypeOK
<1>2. QED
  BY <1>1

\* No step takes anything unpaid from its owner.
LEMMA AllPaidStep == TypeOK /\ [Next]_vars => [AllPaid]_vars
<1> SUFFICES ASSUME TypeOK, Next PROVE AllPaid
  OBVIOUS
<1>1. ASSUME \A p \in DOMAIN parcels : parcels'[p].owner = parcels[p].owner,
             \A p \in DOMAIN parcels : \A n \in DOMAIN parcels[p].units :
                 parcels'[p].units[n].owner = parcels[p].units[n].owner
      PROVE  AllPaid
  BY <1>1 DEF AllPaid, ParcelPaid, UnitPaid, UnitOwner
<1>2. ASSUME NEW who \in Accounts, NEW p \in Parcels, NEW fee \in Fees,
             ClaimParcel(who, p, fee)
      PROVE  AllPaid
  BY <1>1, <1>2 DEF ClaimParcel
<1>3. ASSUME NEW who \in Accounts, NEW p \in Parcels, NEW fee \in Fees,
             NEW price \in Asked, SellParcel(who, p, price, fee)
      PROVE  AllPaid
  <2>1. p \in DOMAIN parcels /\ parcels' = [parcels EXCEPT ![p].sale = price]
    BY <1>3 DEF SellParcel
  <2>2. \A x \in DOMAIN parcels : parcels'[x].owner = parcels[x].owner
                                /\ parcels'[x].units = parcels[x].units
    BY <2>1 DEF TypeOK, Parcel
  <2>3. QED
    BY <1>1, <2>2
<1>4. ASSUME NEW who \in Accounts, NEW p \in Parcels, NEW fee \in Fees,
             NEW max_price \in Prices, BuyParcel(who, p, max_price, fee)
      PROVE  AllPaid
  <2>1. /\ p \in DOMAIN parcels /\ parcels[p] \in Parcel /\ parcels[p].owner # who
        /\ parcels' = [parcels EXCEPT ![p] = Bought(parcels[p], who)]
    BY <1>4 DEF BuyParcel, TypeOK
  <2>2. parcels[p].sale \in Nat /\ parcels[p].sale # NotForSale /\ parcels[p].owner \in Accounts
    BY <1>4, <2>1, AskedType, ViviendaAssumption DEF BuyParcel, Parcel, NotForSale
  <2>3. PaidTo(parcels[p].owner, parcels[p].sale)
    BY <1>4, <2>1, <2>2, PayeePaid DEF BuyParcel, PaidTo
  <2>4. \A x \in DOMAIN parcels \ {p} : parcels'[x] = parcels[x]
    BY <2>1
  <2>5. \A n \in DOMAIN parcels[p].units :
           parcels[p].units[n].owner # parcels[p].owner
               => parcels'[p].units[n] = parcels[p].units[n]
    BY <2>1 DEF Bought
  <2>6. QED
    BY <2>3, <2>4, <2>5 DEF AllPaid, ParcelPaid, UnitPaid, UnitOwner, EsAjena
<1>5. ASSUME NEW who \in Accounts, NEW p \in Parcels, NEW fee \in Fees,
             NEW unidades \in Numbers, DivideParcel(who, p, unidades, fee)
      PROVE  AllPaid
  <2>1. /\ p \in DOMAIN parcels /\ parcels[p].units = <<>>
        /\ parcels' = [parcels EXCEPT ![p].units =
                          [n \in 1..unidades |-> [owner |-> who, sale |-> NotForSale]]]
    BY <1>5 DEF DivideParcel
  <2>2. \A x \in DOMAIN parcels : parcels'[x].owner = parcels[x].owner
    BY <2>1 DEF TypeOK, Parcel
  <2>3. \A x \in DOMAIN parcels : \A n \in DOMAIN parcels[x].units :
            parcels'[x].units[n].owner = parcels[x].units[n].owner
    BY <2>1 DEF TypeOK, Parcel
  <2>4. QED
    BY <1>1, <2>2, <2>3
<1>6. ASSUME NEW who \in Accounts, NEW p \in Parcels, NEW fee \in Fees,
             NEW n \in Numbers, NEW to \in Accounts, TransferUnit(who, p, n, to, fee)
      PROVE  AllPaid
  <2>1. Signs(who)
    BY <1>6 DEF Signs
  <2>2. HasUnit(p, n) /\ parcels[p].units[n].owner = who /\ MoveUnit(p, n, who, to)
    BY <1>6 DEF TransferUnit, UnitOwner
  <2>3. /\ \A x \in DOMAIN parcels : parcels'[x].owner = parcels[x].owner
        /\ \A x \in DOMAIN parcels : \A m \in DOMAIN parcels[x].units :
              (x = p /\ m = n) \/ parcels'[x].units[m].owner = parcels[x].units[m].owner
    BY <2>2, MoveUnitOwners
  <2>4. UnitPaid(p, n)
    BY <2>1, <2>2 DEF UnitPaid, UnitOwner
  <2>5. QED
    BY <2>3, <2>4 DEF AllPaid, ParcelPaid, UnitPaid, UnitOwner
<1>7. ASSUME NEW who \in Accounts, NEW p \in Parcels, NEW fee \in Fees,
             NEW n \in Numbers, NEW price \in Asked, SellUnit(who, p, n, price, fee)
      PROVE  AllPaid
  <2>1. /\ p \in DOMAIN parcels /\ n \in DOMAIN parcels[p].units
        /\ parcels[p].units[n] \in Unidad
        /\ parcels' = [parcels EXCEPT ![p].units[n].sale = price]
    BY <1>7, UnitType DEF SellUnit, HasUnit
  <2>2. \A x \in DOMAIN parcels : parcels'[x].owner = parcels[x].owner
    BY <2>1 DEF TypeOK, Parcel
  <2>3. \A x \in DOMAIN parcels : \A m \in DOMAIN parcels[x].units :
            parcels'[x].units[m].owner = parcels[x].units[m].owner
    BY <2>1 DEF TypeOK, Parcel, Unidad
  <2>4. QED
    BY <1>1, <2>2, <2>3
<1>8. ASSUME NEW who \in Accounts, NEW p \in Parcels, NEW fee \in Fees,
             NEW n \in Numbers, NEW max_price \in Prices, BuyUnit(who, p, n, max_price, fee)
      PROVE  AllPaid
  <2> DEFINE unit == parcels[p].units[n]
  <2>1. /\ HasUnit(p, n) /\ unit.owner # who
        /\ MoveUnit(p, n, unit.owner, who) /\ Pay(who, unit.sale, unit.owner, fee)
    BY <1>8 DEF BuyUnit, UnitOwner
  <2>2. unit.sale \in Nat /\ unit.sale # NotForSale /\ unit.owner \in Accounts
    <3>1. unit \in Unidad /\ unit.sale \in 1..max_price
      BY <1>8, <2>1, UnitType DEF BuyUnit
    <3>2. QED
      BY <3>1 DEF Unidad, NotForSale
  <2>3. PaidTo(unit.owner, unit.sale)
    BY <2>1, <2>2, PayeePaid DEF PaidTo
  <2>4. /\ \A x \in DOMAIN parcels : parcels'[x].owner = parcels[x].owner
        /\ \A x \in DOMAIN parcels : \A m \in DOMAIN parcels[x].units :
              (x = p /\ m = n) \/ parcels'[x].units[m].owner = parcels[x].units[m].owner
    BY <2>1, MoveUnitOwners
  <2>5. UnitPaid(p, n)
    BY <2>3 DEF UnitPaid, UnitOwner
  <2>6. QED
    BY <2>4, <2>5 DEF AllPaid, ParcelPaid, UnitPaid, UnitOwner
<1>9. QED
  BY <1>2, <1>3, <1>4, <1>5, <1>6, <1>7, <1>8 DEF Next, Signs

\* No step takes a parcel or a unit from its owner but his own transfer or a
\* purchase at the price he published.
THEOREM OwnersPaid == Spec => NobodyLosesUnpaid
<1>1. Init => TypeOK
  BY IInvInit DEF IInv
<1>2. QED
  BY <1>1, TypeInductive, AllPaidStep, PTL DEF Spec, NobodyLosesUnpaid, AllPaid

----------------------------------------------------------------------------
(* What the buyer of a parcel receives.                                    *)

AllListed == \A p \in DOMAIN parcels :
                parcels[p].sale # NotForSale =>
                    OwnersUnits(p) \subseteq OwnersUnits(p)' \/ Withdrawn(p)

\* A unit of a third party moves: those of the owner stay.
LEMMA MoveUnitListed ==
    ASSUME TypeOK, NEW p, NEW n, HasUnit(p, n), NoCongelada(p, UnitOwner(p, n)),
           NEW to, MoveUnit(p, n, UnitOwner(p, n), to)
    PROVE  AllListed
<1>1. p \in DOMAIN parcels /\ n \in DOMAIN parcels[p].units
  BY DEF HasUnit
<1>2. parcels' = [parcels EXCEPT ![p].units[n] = [owner |-> to, sale |-> NotForSale]]
  BY DEF MoveUnit
<1>3. \A x \in DOMAIN parcels : DOMAIN parcels'[x].units = DOMAIN parcels[x].units
  BY <1>1, <1>2 DEF TypeOK, Parcel
<1>4. parcels[p].sale # NotForSale => parcels[p].units[n].owner # parcels[p].owner
  BY DEF NoCongelada, UnitOwner
<1>5. QED
  BY <1>3, <1>4, MoveUnitOwners DEF AllListed, OwnersUnits, UnitOwner

\* No step takes a unit from a published parcel.
LEMMA AllListedStep == TypeOK /\ [Next]_vars => [AllListed]_vars
<1> SUFFICES ASSUME TypeOK, Next PROVE AllListed
  OBVIOUS
<1>1. ASSUME NEW who \in Accounts, NEW p \in Parcels, NEW fee \in Fees,
             ClaimParcel(who, p, fee)
      PROVE  AllListed
  <2>1. \A x \in DOMAIN parcels : parcels'[x] = parcels[x]
    BY <1>1 DEF ClaimParcel
  <2>2. QED
    BY <2>1 DEF AllListed, OwnersUnits, UnitOwner
<1>2. ASSUME NEW who \in Accounts, NEW p \in Parcels, NEW fee \in Fees,
             NEW price \in Asked, SellParcel(who, p, price, fee)
      PROVE  AllListed
  <2>1. p \in DOMAIN parcels /\ parcels' = [parcels EXCEPT ![p].sale = price]
    BY <1>2 DEF SellParcel
  <2>2. \A x \in DOMAIN parcels : parcels'[x].owner = parcels[x].owner
                                /\ parcels'[x].units = parcels[x].units
    BY <2>1 DEF TypeOK, Parcel
  <2>3. QED
    BY <2>2 DEF AllListed, OwnersUnits, UnitOwner
<1>3. ASSUME NEW who \in Accounts, NEW p \in Parcels, NEW fee \in Fees,
             NEW max_price \in Prices, BuyParcel(who, p, max_price, fee)
      PROVE  AllListed
  <2>1. p \in DOMAIN parcels /\ parcels' = [parcels EXCEPT ![p] = Bought(parcels[p], who)]
    BY <1>3 DEF BuyParcel
  <2>2. \A x \in DOMAIN parcels \ {p} : parcels'[x] = parcels[x]
    BY <2>1
  <2>3. /\ parcels'[p].owner = who
        /\ DOMAIN parcels'[p].units = DOMAIN parcels[p].units
        /\ \A n \in DOMAIN parcels[p].units :
               parcels[p].units[n].owner = parcels[p].owner => parcels'[p].units[n].owner = who
    BY <2>1 DEF Bought
  <2>4. QED
    BY <2>2, <2>3 DEF AllListed, OwnersUnits, UnitOwner
<1>4. ASSUME NEW who \in Accounts, NEW p \in Parcels, NEW fee \in Fees,
             NEW unidades \in Numbers, DivideParcel(who, p, unidades, fee)
      PROVE  AllListed
  <2>1. parcels[p].sale = NotForSale /\ \A x \in DOMAIN parcels \ {p} : parcels'[x] = parcels[x]
    BY <1>4 DEF DivideParcel
  <2>2. QED
    BY <2>1 DEF AllListed, OwnersUnits, UnitOwner
<1>5. ASSUME NEW who \in Accounts, NEW p \in Parcels, NEW fee \in Fees,
             NEW n \in Numbers, NEW to \in Accounts, TransferUnit(who, p, n, to, fee)
      PROVE  AllListed
  BY <1>5, MoveUnitListed DEF TransferUnit
<1>6. ASSUME NEW who \in Accounts, NEW p \in Parcels, NEW fee \in Fees,
             NEW n \in Numbers, NEW price \in Asked, SellUnit(who, p, n, price, fee)
      PROVE  AllListed
  <2>1. /\ p \in DOMAIN parcels /\ n \in DOMAIN parcels[p].units
        /\ parcels[p].units[n] \in Unidad
        /\ parcels' = [parcels EXCEPT ![p].units[n].sale = price]
    BY <1>6, UnitType DEF SellUnit, HasUnit
  <2>2. \A x \in DOMAIN parcels : /\ parcels'[x].owner = parcels[x].owner
                                 /\ DOMAIN parcels'[x].units = DOMAIN parcels[x].units
    BY <2>1 DEF TypeOK, Parcel
  <2>3. \A x \in DOMAIN parcels : \A m \in DOMAIN parcels[x].units :
            parcels'[x].units[m].owner = parcels[x].units[m].owner
    BY <2>1 DEF TypeOK, Parcel, Unidad
  <2>4. QED
    BY <2>2, <2>3 DEF AllListed, OwnersUnits, UnitOwner
<1>7. ASSUME NEW who \in Accounts, NEW p \in Parcels, NEW fee \in Fees,
             NEW n \in Numbers, NEW max_price \in Prices, BuyUnit(who, p, n, max_price, fee)
      PROVE  AllListed
  BY <1>7, MoveUnitListed DEF BuyUnit
<1>8. QED
  BY <1>1, <1>2, <1>3, <1>4, <1>5, <1>6, <1>7 DEF Next, Signs

\* The buyer of a parcel receives at least the units that went with it at any
\* moment since it was published, unless the sale was withdrawn in between.
THEOREM ListingHonoured == Spec => BuyerGetsWhatWasListed
<1>1. Init => TypeOK
  BY IInvInit DEF IInv
<1>2. QED
  BY <1>1, TypeInductive, AllListedStep, PTL DEF Spec, BuyerGetsWhatWasListed, AllListed
==========================================================================
