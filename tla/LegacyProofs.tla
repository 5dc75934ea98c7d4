---------------------------- MODULE LegacyProofs ----------------------------
(***************************************************************************)
(* Brands, factories, products and accounts refer to rows that are there,  *)
(* and goods lie where they may.  A key makes one batch and one package,   *)
(* every file of a package is whole, and the slots of archives are counted *)
(* right; what the page shows was approved, prizes are won by first        *)
(* verifications, and alerts are true of what was covered.  For any sets   *)
(* of rows, requests, keys, packages, entries, goods and places, and any   *)
(* quantity and bounds.                                                    *)
(***************************************************************************)
EXTENDS LegacyTenants, LegacyPackages, LegacyPublic, FiniteSetTheorems, TLAPS

-----------------------------------------------------------------------------
(* Brands, factories, products and accounts *)

\* The parts of NothingDangles.
OrgRows ==
  /\ \A f \in Factories : FactoryRow(f) => factories[f].brand = None \/ BrandRow(factories[f].brand)
  /\ \A l \in links : FactoryRow(l[1]) /\ BrandRow(l[2])
ProductRows ==
  /\ \A p \in Products : ProductRow(p) =>
       BrandRow(products[p].brand) /\ (products[p].main = None \/ FactoryRow(products[p].main))
  /\ \A a \in authorised : ProductRow(a[1]) /\ FactoryRow(a[2])
CodeRows == \A c \in Codes : codes[c].status # "blank" =>
  ProductRow(codes[c].product) /\ FactoryRow(codes[c].factory)
AccountRows ==
  /\ \A u \in Users : UserRow(u) =>
       /\ BrandRow(users[u].brand)
       /\ users[u].role = "factory" => Enabled(users[u].factory)
  /\ \A i \in Invitations : InvitationRow(i) => BrandRow(invitations[i].brand)
  /\ \A u \in Users : tokens[u] # "none" => UserRow(u)

TenantsInv ==
  /\ TenantsTypeOK /\ OrgRows /\ ProductRows /\ CodeRows /\ AccountRows
  /\ StockAtItsFactory /\ PrimaryBrandIsLinked

\* NothingDangles, by what refers.
LEMMA TenantsParts == TenantsInv <=> NothingDangles /\ StockAtItsFactory /\ PrimaryBrandIsLinked
BY DEF TenantsInv, NothingDangles, OrgRows, ProductRows, CodeRows, AccountRows

-----------------------------------------------------------------------------
(* Brands and factories *)

\* Nothing else refers to what becomes of brands and factories that stay.
LEMMA OrgKept ==
  ASSUME TenantsInv, TenantsTypeOK', OrgRows', PrimaryBrandIsLinked',
         \A b \in Brands : BrandRow(b) => BrandRow(b)',
         \A f \in Factories : factories[f].status \in {"on", "archived"} =>
                                factories'[f].status = factories[f].status,
         UNCHANGED <<productVars, stockVars, accountVars>>
  PROVE  TenantsInv'
<1> USE DEF TenantsInv, productVars, stockVars, accountVars
<1>1. \A b : BrandRow(b) => BrandRow(b)'
  BY DEF BrandRow
<1>2. \A f : /\ FactoryRow(f) => FactoryRow(f)'
             /\ Enabled(f) => Enabled(f)'
  BY DEF FactoryRow, Enabled
<1>3. ProductRows' /\ CodeRows'
  BY <1>1, <1>2 DEF ProductRows, CodeRows, ProductRow
<1>4. AccountRows'
  BY <1>1, <1>2 DEF AccountRows, UserRow, InvitationRow
<1>5. StockAtItsFactory'
  BY <1>2 DEF StockAtItsFactory, factoryAssignedToProduct, FactoriesOf
<1> QED BY <1>3, <1>4, <1>5

\* Where the primary brand moves there is a link.
LEMMA ReplaceRows ==
  ASSUME TenantsInv, NEW b \in Brands, NEW S \in SUBSET Factories, replaceBrandFactories(b, S)
  PROVE  /\ factories' \in [Factories -> Factory] /\ links' \subseteq Factories \X Brands
         /\ \A f \in Factories : factories'[f].status = factories[f].status
         /\ \A f \in Factories : FactoryRow(f) =>
              factories'[f].brand \in {None, b} \/ BrandRow(factories'[f].brand)
         /\ \A l \in links' : FactoryRow(l[1]) /\ (l[2] = b \/ BrandRow(l[2]))
         /\ \A f \in Factories : Enabled(f) /\ factories'[f].brand # None =>
              <<f, factories'[f].brand>> \in links'
<1> USE TenantAssumption DEF TenantsInv
<1> DEFINE moved == {f \in Factories \ S : FactoryRow(f) /\ factories[f].brand = b}
<1>1. PICK next \in [moved -> Brands] :
        /\ \A f \in moved : next[f] # b /\ BrandRow(next[f]) /\ <<f, next[f]>> \in links
        /\ factories' = [f \in Factories |->
             IF f \in moved THEN [factories[f] EXCEPT !.brand = next[f]]
             ELSE IF f \in S /\ factories[f].brand = None
               THEN [factories[f] EXCEPT !.brand = b] ELSE factories[f]]
  BY DEF replaceBrandFactories
<1>2. /\ links' = {l \in links : l[2] # b} \cup (S \X {b})
      /\ \A f \in S : FactoryRow(f)
  BY DEF replaceBrandFactories
<1>3. \A f \in Factories : factories[f] \in Factory
  BY DEF TenantsTypeOK
<1>4. ASSUME NEW f \in Factories
      PROVE  /\ factories'[f] \in Factory /\ factories'[f].status = factories[f].status
             /\ f \in moved => factories'[f].brand = next[f]
             /\ f \notin moved => factories'[f].brand =
                  IF f \in S /\ factories[f].brand = None THEN b ELSE factories[f].brand
  <2>1. CASE f \in moved
    <3>1. next[f] \in Brands /\ factories'[f] = [factories[f] EXCEPT !.brand = next[f]]
      BY <1>1, <2>1
    <3> QED BY <1>3, <2>1, <3>1 DEF Factory
  <2>2. CASE f \notin moved
    <3>1. factories'[f] = IF f \in S /\ factories[f].brand = None
                           THEN [factories[f] EXCEPT !.brand = b] ELSE factories[f]
      BY <1>1, <2>2
    <3> QED BY <1>3, <2>2, <3>1 DEF Factory
  <2> QED BY <2>1, <2>2
<1>5. factories' \in [Factories -> Factory]
  BY <1>1, <1>4
<1>6. links' \subseteq Factories \X Brands
  BY <1>2 DEF TenantsTypeOK
<1>7. \A f \in Factories : FactoryRow(f) =>
        factories'[f].brand \in {None, b} \/ BrandRow(factories'[f].brand)
  BY <1>1, <1>4 DEF OrgRows
<1>8. \A l \in links' : FactoryRow(l[1]) /\ (l[2] = b \/ BrandRow(l[2]))
  BY <1>2 DEF OrgRows
<1>9. ASSUME NEW f \in Factories, Enabled(f), factories'[f].brand # None
      PROVE  <<f, factories'[f].brand>> \in links'
  <2>1. CASE f \in moved
    BY <1>1, <1>2, <1>4, <2>1
  <2>2. CASE f \notin moved /\ f \in S /\ factories'[f].brand = b
    BY <1>2, <2>2
  <2>3. CASE f \notin moved /\ factories'[f].brand # b
    <3>1. factories'[f].brand = factories[f].brand
      BY <1>4, <2>3
    <3> QED BY <1>2, <1>9, <2>3, <3>1 DEF PrimaryBrandIsLinked
  <2>4. CASE f \notin moved /\ f \notin S /\ factories'[f].brand = b
    BY <1>4, <1>9, <2>4 DEF Enabled, FactoryRow
  <2> QED BY <2>1, <2>2, <2>3, <2>4
<1> QED BY <1>4, <1>5, <1>6, <1>7, <1>8, <1>9

\* A brand is created, or edited with the factories it is linked to.
LEMMA BrandStep ==
  ASSUME TenantsInv, UNCHANGED server, NEW b \in Brands,
         \/ \E S \in SUBSET Factories : CreateBrand(b, S)
         \/ \E status \in {"on", "off"} : EditBrand(b, status)
  PROVE  TenantsInv'
<1> USE DEF TenantsInv
<1>1. /\ \/ \E S \in SUBSET Factories : replaceBrandFactories(b, S)
         \/ UNCHANGED <<factories, links>>
      /\ \E status \in {"on", "off"} : brands' = [brands EXCEPT ![b] = status]
      /\ UNCHANGED <<productVars, stockVars, accountVars>>
  BY DEF CreateBrand, EditBrand
<1>2. /\ brands' \in [Brands -> {"absent", "on", "off", "deleted"}]
      /\ BrandRow(b)' /\ \A c : BrandRow(c) => BrandRow(c)'
  BY <1>1 DEF TenantsTypeOK, BrandRow
<1>3. /\ factories' \in [Factories -> Factory] /\ links' \subseteq Factories \X Brands
      /\ \A f \in Factories : factories'[f].status = factories[f].status
      /\ \A f \in Factories : FactoryRow(f) =>
           factories'[f].brand \in {None, b} \/ BrandRow(factories'[f].brand)
      /\ \A l \in links' : FactoryRow(l[1]) /\ (l[2] = b \/ BrandRow(l[2]))
      /\ \A f \in Factories : Enabled(f) /\ factories'[f].brand # None =>
           <<f, factories'[f].brand>> \in links'
  <2>1. CASE \E S \in SUBSET Factories : replaceBrandFactories(b, S)
    BY <2>1, ReplaceRows
  <2>2. CASE UNCHANGED <<factories, links>>
    BY <2>2 DEF TenantsTypeOK, OrgRows, PrimaryBrandIsLinked
  <2> QED BY <1>1, <2>1, <2>2
<1>4. TenantsTypeOK'
  BY <1>1, <1>2, <1>3 DEF TenantsTypeOK, productVars, stockVars, accountVars
<1>5. \A f : FactoryRow(f)' <=> FactoryRow(f)
  BY <1>3 DEF FactoryRow
<1>6. OrgRows'
  BY <1>2, <1>3, <1>5 DEF OrgRows
<1>7. PrimaryBrandIsLinked'
  BY <1>3 DEF PrimaryBrandIsLinked, Enabled
<1> QED BY <1>1, <1>2, <1>3, <1>4, <1>6, <1>7, OrgKept

\* A new factory has one brand, and a link to it.
LEMMA CreateFactoryStep ==
  ASSUME TenantsInv, UNCHANGED server, NEW f \in Factories, NEW b \in Brands, CreateFactory(f, b)
  PROVE  TenantsInv'
<1> USE DEF TenantsInv
<1>1. /\ factories' = [factories EXCEPT ![f] = [status |-> "on", brand |-> b]]
      /\ links' = links \cup {<<f, b>>} /\ factories[f].status = "absent" /\ BrandRow(b)
      /\ UNCHANGED <<brands, productVars, stockVars, accountVars>>
  BY DEF CreateFactory, BrandRow
<1>2. TenantsTypeOK'
  BY <1>1 DEF TenantsTypeOK, Factory, productVars, stockVars, accountVars
<1>3. /\ factories'[f].status = "on" /\ factories'[f].brand = b
      /\ \A g \in Factories \ {f} : factories'[g] = factories[g]
  BY <1>1 DEF TenantsTypeOK
<1>4. \A g : FactoryRow(g) => FactoryRow(g)'
  BY <1>3 DEF FactoryRow
<1>5. OrgRows'
  <2>1. \A c : BrandRow(c) => BrandRow(c)'
    BY <1>1 DEF BrandRow
  <2>2. FactoryRow(f)'
    BY <1>3 DEF FactoryRow
  <2>3. ASSUME NEW g \in Factories, FactoryRow(g)'
        PROVE  factories'[g].brand = None \/ BrandRow(factories[g].brand)'
    BY <1>1, <1>3, <2>1, <2>3 DEF OrgRows, FactoryRow
  <2>4. \A l \in links' : FactoryRow(l[1])' /\ BrandRow(l[2])'
    BY <1>1, <1>4, <2>1, <2>2 DEF OrgRows
  <2> QED BY <2>3, <2>4 DEF OrgRows
<1>6. PrimaryBrandIsLinked'
  BY <1>1, <1>3 DEF PrimaryBrandIsLinked, Enabled
<1> QED BY <1>1, <1>2, <1>3, <1>5, <1>6, OrgKept DEF BrandRow

\* A brand is deleted when nothing refers to it.
LEMMA DeleteBrandStep ==
  ASSUME TenantsInv, UNCHANGED server, NEW b \in Brands, DeleteBrand(b)
  PROVE  TenantsInv'
<1> USE DEF TenantsInv, productVars, stockVars, accountVars
<1>1. /\ brands' = [brands EXCEPT ![b] = "deleted"]
      /\ UNCHANGED <<factories, links, productVars, stockVars, accountVars>>
      /\ \A u \in Users : UserRow(u) => users[u].brand # b
      /\ \A f \in Factories : FactoryRow(f) => factories[f].brand # b /\ <<f, b>> \notin links
      /\ \A p \in Products : ProductRow(p) => products[p].brand # b
      /\ \A i \in Invitations : InvitationRow(i) => invitations[i].brand # b
  BY DEF DeleteBrand
<1>2. TenantsTypeOK'
  BY <1>1 DEF TenantsTypeOK
<1>3. \A c : c # b /\ BrandRow(c) => BrandRow(c)'
  BY <1>1 DEF TenantsTypeOK, BrandRow
<1>4. \A l \in links : l[2] # b
  BY <1>1 DEF OrgRows, TenantsTypeOK
<1>5. OrgRows'
  BY <1>1, <1>3, <1>4 DEF OrgRows, FactoryRow
<1>6. ProductRows' /\ CodeRows'
  BY <1>1, <1>3 DEF ProductRows, CodeRows, ProductRow, FactoryRow
<1>7. AccountRows'
  BY <1>1, <1>3 DEF AccountRows, UserRow, InvitationRow, Enabled
<1>8. StockAtItsFactory' /\ PrimaryBrandIsLinked'
  BY <1>1 DEF StockAtItsFactory, PrimaryBrandIsLinked, Enabled, factoryAssignedToProduct,
              FactoriesOf
<1> QED BY <1>2, <1>5, <1>6, <1>7, <1>8

\* A removed factory leaves nothing behind that names it but what makes it archived.
LEMMA DeleteFactoryStep ==
  ASSUME TenantsInv, UNCHANGED server, NEW f \in Factories, DeleteFactory(f)
  PROVE  TenantsInv'
<1> USE TenantAssumption DEF TenantsInv, stockVars, accountVars
<1> DEFINE left(p) == FactoriesOf(p) \ {f}
           st == IF f \in packed \/ \E c \in Codes : codes[c].factory = f THEN "archived"
                                                                          ELSE "deleted"
<1>1. PICK main \in [Products -> Factories \cup {None}] :
        /\ \A p \in Products :
             IF products[p].main # f THEN main[p] = products[p].main
             ELSE IF left(p) = {} THEN main[p] = None ELSE main[p] \in left(p)
        /\ products' = [p \in Products |-> [products[p] EXCEPT !.main = main[p]]]
  BY DEF DeleteFactory, RemoveFactory
<1>2. /\ factories' = [factories EXCEPT ![f].status = st]
      /\ links' = {l \in links : l[1] # f} /\ authorised' = {a \in authorised : a[2] # f}
      /\ UNCHANGED <<brands, stockVars, accountVars>>
      /\ Enabled(f) /\ activeReceipts(f) = {}
      /\ \A u \in Users : UserRow(u) => users[u].factory # f
  BY DEF DeleteFactory, RemoveFactory
<1>3. /\ factories' \in [Factories -> Factory]
      /\ factories'[f].status = st /\ st \in {"archived", "deleted"}
      /\ \A g \in Factories \ {f} : factories'[g] = factories[g]
      /\ factories'[f].brand = factories[f].brand
  <2>1. factories[f] \in Factory /\ st \in {"archived", "deleted"}
    BY DEF TenantsTypeOK
  <2> HIDE DEF st
  <2> DEFINE y == [factories[f] EXCEPT !.status = st]
  <2>2. y \in Factory /\ y.status = st /\ y.brand = factories[f].brand
    BY <2>1 DEF Factory
  <2>3. factories' = [factories EXCEPT ![f] = y]
    BY <1>2
  <2> HIDE DEF y
  <2> QED BY <2>1, <2>2, <2>3 DEF TenantsTypeOK
<1>4. /\ products' \in [Products -> Product]
      /\ \A p \in Products : /\ products'[p].main = main[p]
                             /\ products'[p].status = products[p].status
                             /\ products'[p].brand = products[p].brand
  <2>1. \A p \in Products : products[p] \in Product /\ main[p] \in Factories \cup {None}
    BY <1>1 DEF TenantsTypeOK
  <2>2. \A p \in Products : products'[p] = [products[p] EXCEPT !.main = main[p]]
    BY <1>1
  <2>3. \A p \in Products : /\ products'[p] \in Product /\ products'[p].main = main[p]
                            /\ products'[p].status = products[p].status
                            /\ products'[p].brand = products[p].brand
    <3> TAKE p \in Products
    <3> DEFINE y == [products[p] EXCEPT !.main = main[p]]
    <3>1. y \in Product /\ y.main = main[p] /\ y.status = products[p].status
          /\ y.brand = products[p].brand
      BY <2>1 DEF Product
    <3>2. products'[p] = y
      BY <2>2
    <3> HIDE DEF y
    <3> QED BY <3>1, <3>2
  <2> QED BY <1>1, <2>3
<1>5. TenantsTypeOK'
  BY <1>2, <1>3, <1>4 DEF TenantsTypeOK
<1>6. /\ \A g : g # f => (FactoryRow(g)' <=> FactoryRow(g)) /\ (Enabled(g)' <=> Enabled(g))
      /\ (\E c \in Codes : codes[c].factory = f) => FactoryRow(f)'
      /\ ~Enabled(f)' /\ FactoryRow(f)
  BY <1>2, <1>3 DEF FactoryRow, Enabled
<1>7. OrgRows'
  BY <1>2, <1>3, <1>6 DEF OrgRows, BrandRow, FactoryRow
<1>8. ProductRows'
  <2>1. \A p \in Products : FactoriesOf(p) \subseteq Factories /\ \A g \in FactoriesOf(p) : FactoryRow(g)
    BY DEF FactoriesOf, ProductRows
  <2>2. ASSUME NEW p \in Products, ProductRow(p)
        PROVE  main[p] = None \/ (FactoryRow(main[p]) /\ main[p] # f)
    BY <1>1, <2>1, <2>2 DEF ProductRows
  <2>3. \A p : ProductRow(p)' <=> ProductRow(p)
    BY <1>4 DEF ProductRow
  <2>4. \A p \in Products : ProductRow(p)' =>
          BrandRow(products[p].brand)' /\ (products'[p].main = None \/ FactoryRow(products[p].main)')
    BY <1>2, <1>4, <1>6, <2>2, <2>3 DEF ProductRows, BrandRow
  <2>5. \A a \in authorised' : ProductRow(a[1])' /\ FactoryRow(a[2])'
    BY <1>2, <1>6, <2>3 DEF ProductRows
  <2> QED BY <2>4, <2>5 DEF ProductRows
<1>9. CodeRows'
  BY <1>2, <1>4, <1>6 DEF CodeRows, ProductRow
<1>10. AccountRows'
  BY <1>2, <1>6 DEF AccountRows, UserRow, InvitationRow, BrandRow
<1>11. StockAtItsFactory'
  <2> SUFFICES ASSUME NEW c \in Codes, codes[c].status = "received"
               PROVE  /\ Enabled(codes[c].factory)'
                      /\ factoryAssignedToProduct(codes[c].factory, codes[c].product)'
    BY <1>2 DEF StockAtItsFactory
  <2> DEFINE g == codes[c].factory
             p == codes[c].product
  <2>1. Enabled(g) /\ factoryAssignedToProduct(g, p) /\ ProductRow(p) /\ g # f
    BY <1>2 DEF StockAtItsFactory, CodeRows, activeReceipts, InStock
  <2>2. p \in Products /\ Enabled(g)'
    BY <1>2, <1>6, <2>1 DEF ProductRow, Enabled
  <2>3. FactoriesOf(p)' = FactoriesOf(p) \ {f}
    BY <1>2, <2>2 DEF FactoriesOf
  <2>4. CASE g \in FactoriesOf(p)
    BY <1>2, <2>1, <2>2, <2>3, <2>4 DEF factoryAssignedToProduct
  <2>5. CASE FactoriesOf(p) = {} /\ products[p].main = g
    BY <1>1, <1>2, <1>4, <2>1, <2>2, <2>3, <2>5 DEF factoryAssignedToProduct
  <2> QED BY <1>2, <2>1, <2>2, <2>4, <2>5 DEF factoryAssignedToProduct
<1>12. PrimaryBrandIsLinked'
  BY <1>2, <1>3, <1>6 DEF PrimaryBrandIsLinked
<1> QED BY <1>5, <1>7, <1>8, <1>9, <1>10, <1>11, <1>12

-----------------------------------------------------------------------------
(* Products and receipts *)

\* A product that is created or edited names factories that are enabled, and keeps those
\* that have it in stock.
LEMMA ProductKept ==
  ASSUME TenantsInv, UNCHANGED <<server, orgVars, stockVars, accountVars>>,
         NEW p \in Products, NEW S \in SUBSET Factories, NEW main \in Factories \cup {None},
         products' \in [Products -> Product],
         products'[p].status = "live" /\ products'[p].main = main /\ BrandRow(products'[p].brand),
         \A q \in Products \ {p} : products'[q] = products[q],
         authorised' = {a \in authorised : a[1] # p} \cup ({p} \X S),
         \A f \in S : Enabled(f), FirstOf(S, main),
         \A c \in Codes : codes[c].status = "received" /\ codes[c].product = p =>
           codes[c].factory \in S
  PROVE  TenantsInv'
<1> USE TenantAssumption DEF TenantsInv, orgVars, stockVars, accountVars
<1>1. TenantsTypeOK'
  BY DEF TenantsTypeOK
<1>2. /\ \A q : ProductRow(q) => ProductRow(q)'
      /\ ProductRow(p)'
      /\ \A b : BrandRow(b)' <=> BrandRow(b)
      /\ \A f : (FactoryRow(f)' <=> FactoryRow(f)) /\ (Enabled(f)' <=> Enabled(f))
  BY DEF ProductRow, BrandRow, FactoryRow, Enabled
<1>3. OrgRows' /\ PrimaryBrandIsLinked'
  BY <1>2 DEF OrgRows, PrimaryBrandIsLinked
<1>4. ProductRows'
  <2>1. \A f \in S : FactoryRow(f)
    BY DEF Enabled, FactoryRow
  <2>2. main = None \/ FactoryRow(main)
    BY <2>1 DEF FirstOf
  <2>3. \A q \in Products : ProductRow(q)' =>
          BrandRow(products[q].brand)' /\ (products'[q].main = None \/ FactoryRow(products[q].main)')
    BY <1>2, <2>2 DEF ProductRows, ProductRow
  <2>4. \A a \in authorised' : ProductRow(a[1])' /\ FactoryRow(a[2])'
    BY <1>2, <2>1 DEF ProductRows
  <2> QED BY <2>3, <2>4 DEF ProductRows
<1>5. CodeRows' /\ AccountRows'
  BY <1>2 DEF CodeRows, AccountRows, UserRow, InvitationRow
<1>6. StockAtItsFactory'
  <2> SUFFICES ASSUME NEW c \in Codes, codes[c].status = "received"
               PROVE  /\ Enabled(codes[c].factory)'
                      /\ factoryAssignedToProduct(codes[c].factory, codes[c].product)'
    BY DEF StockAtItsFactory
  <2>1. /\ Enabled(codes[c].factory)
        /\ factoryAssignedToProduct(codes[c].factory, codes[c].product)
        /\ codes[c].product \in Products
    BY DEF StockAtItsFactory, CodeRows, ProductRow
  <2>2. CASE codes[c].product = p
    <3>1. codes[c].factory \in S
      BY <2>2
    <3>2. codes[c].factory \in FactoriesOf(p)'
      BY <3>1 DEF FactoriesOf
    <3> QED BY <1>2, <2>1, <2>2, <3>2 DEF factoryAssignedToProduct
  <2>3. CASE codes[c].product # p
    <3>1. FactoriesOf(codes[c].product)' = FactoriesOf(codes[c].product)
      BY <2>3 DEF FactoriesOf
    <3> QED BY <1>2, <2>1, <2>3, <3>1 DEF factoryAssignedToProduct
  <2> QED BY <2>2, <2>3
<1> QED BY <1>1, <1>3, <1>4, <1>5, <1>6

\* A product is created or edited with its factories.
LEMMA ProductStep ==
  ASSUME TenantsInv, UNCHANGED server, NEW p \in Products, NEW S \in SUBSET Factories,
         NEW main \in Factories \cup {None},
         (\E b \in Brands : CreateProduct(p, b, S, main)) \/ EditProduct(p, S, main)
  PROVE  TenantsInv'
<1> USE DEF TenantsInv
<1>1. CASE \E b \in Brands : CreateProduct(p, b, S, main)
  <2>1. PICK b \in Brands : CreateProduct(p, b, S, main)
    BY <1>1
  <2>2. /\ products' = [products EXCEPT ![p] = [status |-> "live", brand |-> b, main |-> main]]
        /\ products[p].status = "absent" /\ BrandRow(b)
        /\ authorised' = authorised \cup ({p} \X S)
        /\ UNCHANGED <<orgVars, stockVars, accountVars>>
        /\ (\A f \in S : Enabled(f)) /\ FirstOf(S, main)
    BY <2>1 DEF CreateProduct, MayProduce, BrandRow
  <2>3. /\ products' \in [Products -> Product]
        /\ products'[p].status = "live" /\ products'[p].main = main /\ products'[p].brand = b
        /\ \A q \in Products \ {p} : products'[q] = products[q]
    BY <2>2 DEF TenantsTypeOK, Product
  <2>4. \A a \in authorised : a[1] # p
    BY <2>2 DEF ProductRows, ProductRow
  <2>5. authorised' = {a \in authorised : a[1] # p} \cup ({p} \X S)
    BY <2>2, <2>4
  <2>6. \A c \in Codes : codes[c].status = "received" => codes[c].product # p
    BY <2>2 DEF CodeRows, ProductRow
  <2> QED BY <2>2, <2>3, <2>5, <2>6, ProductKept
<1>2. CASE EditProduct(p, S, main)
  <2> DEFINE current == IF FactoriesOf(p) = {} THEN {products[p].main} ELSE FactoriesOf(p)
  <2>1. /\ products' = [products EXCEPT ![p].main = main] /\ ProductRow(p)
        /\ authorised' = {a \in authorised : a[1] # p} \cup ({p} \X S)
        /\ UNCHANGED <<orgVars, stockVars, accountVars>>
        /\ (\A f \in S : Enabled(f)) /\ FirstOf(S, main)
        /\ \A c \in Codes : InStock(c) /\ codes[c].product = p => codes[c].factory \notin current \ S
    BY <1>2 DEF EditProduct, MayProduce
  <2>2. /\ products' \in [Products -> Product]
        /\ products'[p].status = "live" /\ products'[p].main = main
        /\ BrandRow(products'[p].brand)
        /\ \A q \in Products \ {p} : products'[q] = products[q]
    <3> DEFINE y == [products[p] EXCEPT !.main = main]
    <3>1. products[p] \in Product /\ products' = [products EXCEPT ![p] = y]
      BY <2>1 DEF TenantsTypeOK
    <3>2. /\ y \in Product /\ y.status = products[p].status /\ y.main = main
          /\ y.brand = products[p].brand
      BY <3>1 DEF Product
    <3> HIDE DEF y
    <3> QED BY <2>1, <3>1, <3>2 DEF TenantsTypeOK, ProductRow, ProductRows
  <2>3. ASSUME NEW c \in Codes, codes[c].status = "received", codes[c].product = p
        PROVE  codes[c].factory \in S
    <3>1. factoryAssignedToProduct(codes[c].factory, p) /\ InStock(c)
      BY <2>3 DEF StockAtItsFactory, InStock
    <3>2. codes[c].factory \in current
      BY <3>1 DEF factoryAssignedToProduct
    <3> QED BY <2>1, <2>3, <3>1, <3>2
  <2> QED BY <2>1, <2>2, <2>3, ProductKept
<1> QED BY <1>1, <1>2

\* A product is deleted when no code names it.
LEMMA DeleteProductStep ==
  ASSUME TenantsInv, UNCHANGED server, NEW p \in Products, DeleteProduct(p)
  PROVE  TenantsInv'
<1> USE DEF TenantsInv, orgVars, stockVars, accountVars
<1>1. /\ products' = [products EXCEPT ![p].status = "deleted"]
      /\ authorised' = {a \in authorised : a[1] # p}
      /\ UNCHANGED <<orgVars, stockVars, accountVars>> /\ \A c \in Codes : codes[c].product # p
  BY DEF DeleteProduct
<1>2. /\ products' \in [Products -> Product] /\ products'[p].status = "deleted"
      /\ \A q \in Products \ {p} : products'[q] = products[q]
  <2> DEFINE y == [products[p] EXCEPT !.status = "deleted"]
  <2>1. products[p] \in Product /\ products' = [products EXCEPT ![p] = y]
    BY <1>1 DEF TenantsTypeOK
  <2>2. y \in Product /\ y.status = "deleted"
    BY <2>1 DEF Product
  <2> HIDE DEF y
  <2> QED BY <2>1, <2>2 DEF TenantsTypeOK
<1>3. TenantsTypeOK'
  BY <1>1, <1>2 DEF TenantsTypeOK
<1>4. /\ \A q : q # p => (ProductRow(q)' <=> ProductRow(q))
      /\ ~ProductRow(p)'
      /\ \A b : BrandRow(b)' <=> BrandRow(b)
      /\ \A f : (FactoryRow(f)' <=> FactoryRow(f)) /\ (Enabled(f)' <=> Enabled(f))
  BY <1>1, <1>2 DEF ProductRow, BrandRow, FactoryRow, Enabled
<1>5. OrgRows' /\ PrimaryBrandIsLinked'
  BY <1>1, <1>4 DEF OrgRows, PrimaryBrandIsLinked
<1>6. ProductRows'
  BY <1>1, <1>2, <1>4 DEF ProductRows
<1>7. CodeRows' /\ AccountRows'
  BY <1>1, <1>4 DEF CodeRows, AccountRows, UserRow, InvitationRow
<1>8. StockAtItsFactory'
  <2> SUFFICES ASSUME NEW c \in Codes, codes[c].status = "received"
               PROVE  /\ Enabled(codes[c].factory)'
                      /\ factoryAssignedToProduct(codes[c].factory, codes[c].product)'
    BY <1>1 DEF StockAtItsFactory
  <2>1. codes[c].product \in Products \ {p}
    BY <1>1 DEF CodeRows, ProductRow
  <2>2. FactoriesOf(codes[c].product)' = FactoriesOf(codes[c].product)
    BY <1>1, <2>1 DEF FactoriesOf
  <2> QED BY <1>1, <1>2, <1>4, <2>1, <2>2 DEF StockAtItsFactory, factoryAssignedToProduct
<1> QED BY <1>3, <1>5, <1>6, <1>7, <1>8

\* One code is received, cancelled, shipped or comes back.
LEMMA CodeKept ==
  ASSUME TenantsInv, UNCHANGED <<server, orgVars, productVars, accountVars>>,
         packed' \subseteq Factories, NEW c \in Codes, codes' \in [Codes -> Code],
         \A d \in Codes \ {c} : codes'[d] = codes[d],
         \/ codes'[c].status = "blank"
         \/ /\ codes'[c].status \in {"shipped", "returned"} /\ codes[c].status # "blank"
            /\ codes'[c].product = codes[c].product /\ codes'[c].factory = codes[c].factory
         \/ /\ codes'[c].status = "received" /\ ProductRow(codes'[c].product)
            /\ Enabled(codes'[c].factory)
            /\ factoryAssignedToProduct(codes'[c].factory, codes'[c].product)
  PROVE  TenantsInv'
<1> USE DEF TenantsInv, orgVars, productVars, accountVars
<1>1. TenantsTypeOK'
  BY DEF TenantsTypeOK
<1>2. OrgRows' /\ PrimaryBrandIsLinked'
  BY DEF OrgRows, PrimaryBrandIsLinked, BrandRow, FactoryRow, Enabled
<1>3. ProductRows' /\ AccountRows'
  BY DEF ProductRows, AccountRows, BrandRow, FactoryRow, ProductRow, UserRow, InvitationRow, Enabled
<1>4. CodeRows'
  BY DEF CodeRows, ProductRow, FactoryRow, Enabled
<1>5. StockAtItsFactory'
  BY DEF StockAtItsFactory, Enabled, factoryAssignedToProduct, FactoriesOf
<1> QED BY <1>1, <1>2, <1>3, <1>4, <1>5

\* Goods are received, cancelled, shipped and come back.
LEMMA CodeStep ==
  ASSUME TenantsInv, UNCHANGED server, NEW c \in Codes,
         \/ \E p \in Products, f \in Factories : ReceiveCode(c, p, f)
         \/ CancelReceipt(c) \/ Ship(c) \/ CancelShipment(c)
  PROVE  TenantsInv'
<1> USE DEF TenantsInv
<1>1. CASE \E p \in Products, f \in Factories : ReceiveCode(c, p, f)
  <2>1. PICK p \in Products, f \in Factories : ReceiveCode(c, p, f)
    BY <1>1
  <2>2. /\ codes' = [codes EXCEPT ![c] = [status |-> "received", product |-> p, factory |-> f]]
        /\ packed' = packed \cup {f} /\ UNCHANGED <<orgVars, productVars, accountVars>>
        /\ ProductRow(p) /\ Enabled(f) /\ factoryAssignedToProduct(f, p)
    BY <2>1 DEF ReceiveCode
  <2>3. /\ codes' \in [Codes -> Code] /\ \A d \in Codes \ {c} : codes'[d] = codes[d]
        /\ codes'[c].status = "received" /\ codes'[c].product = p /\ codes'[c].factory = f
    BY <2>2 DEF TenantsTypeOK, Code
  <2>4. packed' \subseteq Factories
    BY <2>2 DEF TenantsTypeOK
  <2> QED BY <2>2, <2>3, <2>4, CodeKept
<1>2. CASE CancelReceipt(c)
  <2>1. codes' = [codes EXCEPT ![c] = BlankCode]
        /\ UNCHANGED <<packed, orgVars, productVars, accountVars>>
    BY <1>2 DEF CancelReceipt
  <2>2. /\ codes' \in [Codes -> Code] /\ \A d \in Codes \ {c} : codes'[d] = codes[d]
        /\ codes'[c].status = "blank" /\ packed' \subseteq Factories
    BY <2>1 DEF TenantsTypeOK, Code, BlankCode
  <2> QED BY <2>1, <2>2, CodeKept
<1>3. CASE Ship(c) \/ CancelShipment(c)
  <2>1. PICK st \in {"shipped", "returned"} :
          /\ codes' = [codes EXCEPT ![c].status = st] /\ codes[c].status # "blank"
          /\ UNCHANGED <<packed, orgVars, productVars, accountVars>>
    BY <1>3 DEF Ship, CancelShipment, InStock
  <2> DEFINE y == [codes[c] EXCEPT !.status = st]
  <2>2. codes[c] \in Code /\ codes' = [codes EXCEPT ![c] = y]
    BY <2>1 DEF TenantsTypeOK
  <2>3. y \in Code /\ y.status = st /\ y.product = codes[c].product /\ y.factory = codes[c].factory
    BY <2>2 DEF Code
  <2> HIDE DEF y
  <2>4. /\ codes' \in [Codes -> Code] /\ \A d \in Codes \ {c} : codes'[d] = codes[d]
        /\ codes'[c] = y /\ packed' \subseteq Factories
    BY <2>1, <2>2, <2>3 DEF TenantsTypeOK
  <2> QED BY <2>1, <2>3, <2>4, CodeKept
<1> QED BY <1>1, <1>2, <1>3

-----------------------------------------------------------------------------
(* Accounts, invitations and tokens *)

\* Nothing else refers to accounts.
LEMMA AccountsKept ==
  ASSUME TenantsInv, UNCHANGED <<server, orgVars, productVars, stockVars>>,
         users' \in [Users -> User], invitations' \in [Invitations -> Invitation],
         tokens' \in [Users -> {"none", "live", "stale"}],
         \A u \in Users : users'[u] # users[u] /\ users'[u].status # "deleted" =>
           /\ BrandRow(users'[u].brand)
           /\ users'[u].role = "factory" => Enabled(users'[u].factory),
         \A i \in Invitations : InvitationRow(i)' =>
           BrandRow(invitations'[i].brand)
           \/ (InvitationRow(i) /\ invitations'[i].brand = invitations[i].brand),
         \A u \in Users : tokens'[u] # "none" => UserRow(u)'
  PROVE  TenantsInv'
<1> USE DEF TenantsInv, orgVars, productVars, stockVars
<1>1. TenantsTypeOK'
  BY DEF TenantsTypeOK
<1>2. /\ \A b : BrandRow(b)' <=> BrandRow(b)
      /\ \A f : (FactoryRow(f)' <=> FactoryRow(f)) /\ (Enabled(f)' <=> Enabled(f))
      /\ \A p : ProductRow(p)' <=> ProductRow(p)
  BY DEF BrandRow, FactoryRow, Enabled, ProductRow
<1>3. OrgRows' /\ ProductRows' /\ CodeRows' /\ PrimaryBrandIsLinked'
  BY <1>2 DEF OrgRows, ProductRows, CodeRows, PrimaryBrandIsLinked
<1>4. StockAtItsFactory'
  BY DEF StockAtItsFactory, Enabled, factoryAssignedToProduct, FactoriesOf
<1>5. AccountRows'
  <2>1. \A u \in Users : UserRow(u)' =>
          /\ BrandRow(users'[u].brand)
          /\ users'[u].role = "factory" => Enabled(users'[u].factory)
    BY DEF AccountRows, UserRow
  <2>2. \A i \in Invitations : InvitationRow(i)' => BrandRow(invitations'[i].brand)
    BY DEF AccountRows
  <2> QED BY <1>2, <2>1, <2>2 DEF AccountRows
<1> QED BY <1>1, <1>3, <1>4, <1>5

\* A factory's own brand is there, and so is one it is linked to.
LEMMA FactoryBrand ==
  ASSUME TenantsInv, NEW f, NEW b \in Brands, factoryBelongsToBrand(f, b)
  PROVE  BrandRow(b)
BY TenantAssumption DEF TenantsInv, factoryBelongsToBrand, OrgRows, FactoryRow, TenantsTypeOK

\* An account is created or edited.
LEMMA UserStep ==
  ASSUME TenantsInv, UNCHANGED server, NEW u \in Users, NEW role \in {"brand", "factory"},
         NEW b \in Brands, NEW f \in Factories \cup {None},
         CreateUser(u, role, b, f) \/ \E status \in {"on", "off"} : EditUser(u, status, role, b, f)
  PROVE  TenantsInv'
<1> USE DEF TenantsInv
<1>1. PICK st \in {"on", "off"} :
        users' = [users EXCEPT ![u] =
          [status |-> st, role |-> role, brand |-> b, factory |-> f]]
  BY DEF CreateUser, EditUser, NewUser
<1>2. /\ UNCHANGED <<invitations, tokens, orgVars, productVars, stockVars>>
      /\ role = "factory" => Enabled(f) /\ factoryBelongsToBrand(f, b)
      /\ role = "brand" => brands[b] = "on"
  BY DEF CreateUser, EditUser
<1>3. BrandRow(b)
  BY <1>2, FactoryBrand DEF BrandRow
<1>4. /\ users' \in [Users -> User] /\ \A v \in Users \ {u} : users'[v] = users[v]
      /\ users'[u].status = st /\ users'[u].role = role /\ users'[u].brand = b
      /\ users'[u].factory = f
  BY <1>1 DEF TenantsTypeOK, User
<1>5. \A v \in Users : UserRow(v) => UserRow(v)'
  BY <1>4 DEF UserRow
<1>6. /\ invitations' \in [Invitations -> Invitation]
      /\ tokens' \in [Users -> {"none", "live", "stale"}]
      /\ \A i \in Invitations : InvitationRow(i)' =>
           InvitationRow(i) /\ invitations'[i].brand = invitations[i].brand
      /\ \A v \in Users : tokens'[v] # "none" => UserRow(v)'
  BY <1>2, <1>5 DEF TenantsTypeOK, InvitationRow, AccountRows
<1> QED BY <1>2, <1>3, <1>4, <1>6, AccountsKept

\* An account is deleted when it has no token.
LEMMA DeleteUserStep ==
  ASSUME TenantsInv, UNCHANGED server, NEW u \in Users, DeleteUser(u)
  PROVE  TenantsInv'
<1> USE DEF TenantsInv
<1> DEFINE y == [users[u] EXCEPT !.status = "deleted"]
<1>1. /\ users[u] \in User /\ users' = [users EXCEPT ![u] = y] /\ tokens[u] = "none"
      /\ UNCHANGED <<invitations, tokens, orgVars, productVars, stockVars>>
  BY DEF DeleteUser, TenantsTypeOK
<1>2. y \in User /\ y.status = "deleted"
  BY <1>1 DEF User
<1> HIDE DEF y
<1>3. /\ users' \in [Users -> User] /\ users'[u].status = "deleted"
      /\ \A v \in Users \ {u} : users'[v] = users[v]
  BY <1>1, <1>2 DEF TenantsTypeOK
<1>4. /\ invitations' \in [Invitations -> Invitation]
      /\ tokens' \in [Users -> {"none", "live", "stale"}]
      /\ \A i \in Invitations : InvitationRow(i)' =>
           InvitationRow(i) /\ invitations'[i].brand = invitations[i].brand
      /\ \A v \in Users : tokens'[v] # "none" => UserRow(v)'
  BY <1>1, <1>3 DEF TenantsTypeOK, InvitationRow, AccountRows, UserRow
<1> QED BY <1>1, <1>3, <1>4, AccountsKept

\* An invitation is made, revoked or deleted.
LEMMA InvitationStep ==
  ASSUME TenantsInv, UNCHANGED server, NEW i \in Invitations,
         \/ \E b \in Brands, role \in {"brand", "factory"}, f \in Factories \cup {None} :
              CreateInvitation(i, role, b, f)
         \/ \E status \in {"revoked", "deleted"} : RemoveInvitation(i, status)
  PROVE  TenantsInv'
<1> USE DEF TenantsInv
<1>1. UNCHANGED <<users, tokens, orgVars, productVars, stockVars>>
  BY DEF CreateInvitation, RemoveInvitation
<1>2. /\ invitations' \in [Invitations -> Invitation]
      /\ \A j \in Invitations : InvitationRow(j)' =>
           BrandRow(invitations'[j].brand)
           \/ (InvitationRow(j) /\ invitations'[j].brand = invitations[j].brand)
  <2>1. ASSUME NEW b \in Brands, NEW role \in {"brand", "factory"},
               NEW f \in Factories \cup {None}, CreateInvitation(i, role, b, f)
        PROVE  /\ invitations' \in [Invitations -> Invitation]
               /\ \A j \in Invitations : InvitationRow(j)' =>
                    BrandRow(invitations'[j].brand)
                    \/ (InvitationRow(j) /\ invitations'[j].brand = invitations[j].brand)
    <3>1. invitations' = [invitations EXCEPT ![i] =
            [status |-> "unused", role |-> role, brand |-> b, factory |-> f]]
      BY <2>1 DEF CreateInvitation
    <3>2. BrandRow(b)
      BY <2>1, FactoryBrand DEF CreateInvitation, BrandRow
    <3> QED BY <3>1, <3>2 DEF TenantsTypeOK, Invitation, InvitationRow
  <2>2. ASSUME NEW status \in {"revoked", "deleted"}, RemoveInvitation(i, status)
        PROVE  /\ invitations' \in [Invitations -> Invitation]
               /\ \A j \in Invitations : InvitationRow(j)' =>
                    BrandRow(invitations'[j].brand)
                    \/ (InvitationRow(j) /\ invitations'[j].brand = invitations[j].brand)
    <3> DEFINE y == [invitations[i] EXCEPT !.status = status]
    <3>1. /\ invitations[i] \in Invitation /\ InvitationRow(i)
          /\ invitations' = [invitations EXCEPT ![i] = y]
      BY <2>2 DEF RemoveInvitation, TenantsTypeOK
    <3>2. y \in Invitation /\ y.brand = invitations[i].brand
      BY <3>1 DEF Invitation
    <3> HIDE DEF y
    <3> QED BY <3>1, <3>2 DEF TenantsTypeOK, InvitationRow
  <2> QED BY <2>1, <2>2
<1>3. /\ users' \in [Users -> User] /\ tokens' \in [Users -> {"none", "live", "stale"}]
      /\ \A u \in Users : tokens'[u] # "none" => UserRow(u)'
  BY <1>1 DEF TenantsTypeOK, AccountRows, UserRow
<1> QED BY <1>1, <1>2, <1>3, AccountsKept

\* An account inherits the brand of its invitation, and a factory that is looked at again.
LEMMA RegisterStep ==
  ASSUME TenantsInv, UNCHANGED server, NEW u \in Users, NEW i \in Invitations, Register(u, i)
  PROVE  TenantsInv'
<1> USE DEF TenantsInv
<1> DEFINE inv == invitations[i]
           x == [status |-> "on", role |-> inv.role, brand |-> inv.brand, factory |-> inv.factory]
           y == [inv EXCEPT !.status = "used"]
<1>1. /\ users' = [users EXCEPT ![u] = x] /\ invitations' = [invitations EXCEPT ![i] = y]
      /\ users[u].status = "absent" /\ inv.status = "unused" /\ inv \in Invitation
      /\ inv.role = "factory" => Enabled(inv.factory)
      /\ UNCHANGED <<tokens, orgVars, productVars, stockVars>>
  BY DEF Register, NewUser, TenantsTypeOK
<1>2. /\ BrandRow(inv.brand) /\ InvitationRow(i)
  BY <1>1 DEF AccountRows, InvitationRow
<1>3. /\ x \in User /\ x.status = "on" /\ x.role = inv.role /\ x.brand = inv.brand
      /\ x.factory = inv.factory
  BY <1>1 DEF User, Invitation
<1>4. y \in Invitation /\ y.brand = inv.brand
  BY <1>1 DEF Invitation
<1>5. /\ \A v \in Users \ {u} : users'[v] = users[v]
      /\ users' \in [Users -> User] /\ users'[u] = x
  BY <1>1, <1>3 DEF TenantsTypeOK
<1>6. /\ invitations' \in [Invitations -> Invitation] /\ invitations'[i] = y
      /\ \A j \in Invitations \ {i} : invitations'[j] = invitations[j]
  BY <1>1, <1>4 DEF TenantsTypeOK
<1> HIDE DEF x, y
<1>7. \A v \in Users : tokens'[v] # "none" => UserRow(v)'
  BY <1>1, <1>3, <1>5 DEF AccountRows, UserRow
<1>8. \A j \in Invitations : InvitationRow(j)' =>
        BrandRow(invitations'[j].brand)
        \/ (InvitationRow(j) /\ invitations'[j].brand = invitations[j].brand)
  BY <1>2, <1>4, <1>6 DEF InvitationRow
<1>9. \A v \in Users : users'[v] # users[v] /\ users'[v].status # "deleted" =>
        /\ BrandRow(users'[v].brand)
        /\ users'[v].role = "factory" => Enabled(users'[v].factory)
  BY <1>1, <1>2, <1>3, <1>5
<1>10. tokens' \in [Users -> {"none", "live", "stale"}]
  BY <1>1 DEF TenantsTypeOK
<1> QED BY <1>1, <1>5, <1>6, <1>7, <1>8, <1>9, <1>10, AccountsKept

\* Tokens are of accounts that are there.
LEMMA TokenStep ==
  ASSUME TenantsInv, UNCHANGED server, NEW u \in Users, AgentLogin(u) \/ AgentTokenEnds(u)
  PROVE  TenantsInv'
<1> USE DEF TenantsInv
<1>1. /\ UNCHANGED <<users, invitations, orgVars, productVars, stockVars>>
      /\ tokens' \in [Users -> {"none", "live", "stale"}]
      /\ \A v \in Users : tokens'[v] # "none" => tokens[v] # "none" \/ users[v].status = "on"
  BY DEF AgentLogin, AgentTokenEnds, TenantsTypeOK
<1>2. /\ users' \in [Users -> User] /\ invitations' \in [Invitations -> Invitation]
      /\ \A v \in Users : tokens'[v] # "none" => UserRow(v)'
      /\ \A i \in Invitations : InvitationRow(i)' =>
           InvitationRow(i) /\ invitations'[i].brand = invitations[i].brand
  BY <1>1 DEF TenantsTypeOK, AccountRows, UserRow, InvitationRow
<1> QED BY <1>1, <1>2, AccountsKept

-----------------------------------------------------------------------------
(* initDatabase *)

\* What a start does to the rows, whether or not it goes through: an empty table gets a
\* row, factories and products without a brand or a factory get that one, and columns
\* are copied into the tables of links.
LEMMA StartRows ==
  ASSUME TenantsInv, NEW b \in Brands, NEW f \in Factories, Start(b, f)
  PROVE  /\ server' \in {"up", "failed"} /\ UNCHANGED <<stockVars, accountVars>>
         /\ brands' \in [Brands -> {"absent", "on", "off", "deleted"}]
         /\ \A c : BrandRow(c) => BrandRow(c)'
         /\ factories' \in [Factories -> Factory]
         /\ \A g \in Factories : FactoryRow(g) => factories'[g].status = factories[g].status
         /\ \A g \in Factories : FactoryRow(g)' =>
              factories'[g].brand = None \/ BrandRow(factories[g].brand)'
         /\ \A l \in Factories \X Brands : l \in links' <=>
              l \in links \/ (FactoryRow(l[1])' /\ factories'[l[1]].brand = l[2])
         /\ links' \subseteq Factories \X Brands
<1> USE TenantAssumption DEF TenantsInv
<1> DEFINE noBrand == \A c \in Brands : ~BrandRow(c)
           noFactory == \A g \in Factories : ~FactoryRow(g)
           brands1 == IF noBrand THEN [brands EXCEPT ![b] = "on"] ELSE brands
           enabled == {c \in Brands : brands1[c] = "on"}
           adopted == [g \in Factories |-> IF noBrand /\ FactoryRow(g) /\ factories[g].brand = None
                         THEN [factories[g] EXCEPT !.brand = b] ELSE factories[g]]
           first == [status |-> "on", brand |-> IF enabled = {} THEN None ELSE b]
           factories1 == IF ~noFactory THEN adopted ELSE [adopted EXCEPT ![f] = first]
           links1 == links \cup {l \in Factories \X Brands :
                       factories1[l[1]].brand = l[2]
                       /\ factories1[l[1]].status \in {"on", "archived"}}
<1>1. /\ ~noBrand /\ noFactory /\ enabled # {} => b \in enabled
      /\ noFactory => factories[f].status = "absent"
      /\ brands' = brands1 /\ factories' = factories1 /\ links' = links1
      /\ server' \in {"up", "failed"} /\ UNCHANGED <<stockVars, accountVars>>
  BY DEF Start
<1>2. /\ brands' \in [Brands -> {"absent", "on", "off", "deleted"}]
      /\ \A c : BrandRow(c) => BrandRow(c)'
      /\ noBrand => brands'[b] = "on"
  BY <1>1 DEF TenantsTypeOK, BrandRow
<1>3. noFactory /\ enabled # {} => BrandRow(b)'
  <2>1. \A c \in enabled : BrandRow(c)'
    BY <1>1 DEF BrandRow
  <2> QED BY <1>1, <1>2, <2>1 DEF BrandRow
<1>4. ASSUME NEW g \in Factories
      PROVE  /\ adopted[g] \in Factory /\ adopted[g].status = factories[g].status
             /\ \/ adopted[g].brand = factories[g].brand
                \/ noBrand /\ adopted[g].brand = b
  <2>1. factories[g] \in Factory
    BY DEF TenantsTypeOK
  <2> DEFINE y == [factories[g] EXCEPT !.brand = b]
  <2>2. y \in Factory /\ y.status = factories[g].status /\ y.brand = b
    BY <2>1 DEF Factory
  <2>3. adopted[g] = IF noBrand /\ FactoryRow(g) /\ factories[g].brand = None
                       THEN y ELSE factories[g]
    OBVIOUS
  <2> HIDE DEF y, adopted
  <2> QED BY <2>1, <2>2, <2>3
<1>5. first \in Factory /\ first.status = "on"
      /\ first.brand = IF enabled = {} THEN None ELSE b
  BY DEF Factory
<1>6. adopted = [g \in Factories |-> adopted[g]]
  OBVIOUS
<1> HIDE DEF adopted, first, enabled
<1>7. factories' \in [Factories -> Factory]
  <2>1. adopted \in [Factories -> Factory]
    BY <1>4, <1>6
  <2> QED BY <1>1, <1>5, <2>1
<1>8. /\ noFactory => factories'[f] = first
      /\ \A g \in Factories : ~noFactory \/ g # f => factories'[g] = adopted[g]
  BY <1>1, <1>6
<1>9. \A g \in Factories : FactoryRow(g) => factories'[g].status = factories[g].status
  BY <1>4, <1>8
<1>10. ASSUME NEW g \in Factories, FactoryRow(g)'
       PROVE  factories'[g].brand = None \/ BrandRow(factories[g].brand)'
  <2>1. CASE noFactory /\ g = f
    BY <1>3, <1>5, <1>8, <2>1 DEF BrandRow
  <2>2. CASE ~(noFactory /\ g = f)
    <3>1. FactoryRow(g) /\ factories'[g] = adopted[g]
      BY <1>4, <1>8, <1>10, <2>2 DEF FactoryRow
    <3>2. PICK c : c = factories[g].brand /\ (c = None \/ BrandRow(c)')
      BY <1>2, <3>1 DEF OrgRows
    <3>3. noBrand => BrandRow(b)'
      BY <1>2 DEF BrandRow
    <3>4. PICK d : d = factories'[g].brand /\ (d = None \/ BrandRow(d)')
      BY <1>4, <3>1, <3>2, <3>3
    <3> QED BY <3>4 DEF BrandRow
  <2> QED BY <2>1, <2>2
<1>11. \A l \in Factories \X Brands : l \in links' <=>
         l \in links \/ (FactoryRow(l[1])' /\ factories'[l[1]].brand = l[2])
  BY <1>1 DEF FactoryRow
<1>12. links' \subseteq Factories \X Brands
  BY <1>1 DEF TenantsTypeOK
<1> HIDE DEF noBrand, noFactory, brands1, factories1, links1
<1> QED BY <1>1, <1>2, <1>7, <1>9, <1>10, <1>11, <1>12

\* The same for products; the trigger may undo what is authorised.
LEMMA StartProducts ==
  ASSUME TenantsInv, NEW b \in Brands, NEW f \in Factories, Start(b, f)
  PROVE  /\ products' \in [Products -> Product]
         /\ \A p \in Products : /\ products'[p].status = products[p].status
                                /\ products'[p].brand = products[p].brand
         /\ \A p \in Products : products'[p] # products[p] => FactoryRow(products[p].main)'
         /\ (\E g \in Factories : FactoryRow(g)) => products' = products
         /\ \/ authorised' = authorised
            \/ authorised' = authorised \cup
                 {m \in Products \X Factories : ProductRow(m[1]) /\ products'[m[1]].main = m[2]}
<1> USE TenantAssumption DEF TenantsInv
<1> DEFINE noFactory == \A g \in Factories : ~FactoryRow(g)
           products1 == IF ~noFactory THEN products ELSE
             [p \in Products |-> IF ProductRow(p) /\ products[p].main = None
                THEN [products[p] EXCEPT !.main = f] ELSE products[p]]
           mains == {m \in Products \X Factories : ProductRow(m[1]) /\ products1[m[1]].main = m[2]}
<1>1. /\ products' = products1
      /\ authorised' = authorised \/ authorised' = authorised \cup mains
      /\ noFactory => factories'[f].status = "on"
  <2>1. products' = products1 /\ (authorised' = authorised \/ authorised' = authorised \cup mains)
    BY DEF Start
  <2>2. ASSUME noFactory
        PROVE  factories'[f].status = "on"
    <3>1. factories'[f].status = "on"
      BY <2>2 DEF Start, FactoryRow
    <3> QED BY <3>1
  <2> QED BY <2>1, <2>2
<1>2. ASSUME NEW p \in Products
      PROVE  /\ products1[p] \in Product /\ products1[p].status = products[p].status
             /\ products1[p].brand = products[p].brand
             /\ products1[p] # products[p] => noFactory /\ products1[p].main = f
  <2>1. products[p] \in Product
    BY DEF TenantsTypeOK
  <2> DEFINE y == [products[p] EXCEPT !.main = f]
  <2>2. /\ y \in Product /\ y.status = products[p].status /\ y.brand = products[p].brand
        /\ y.main = f
    BY <2>1 DEF Product
  <2>3. products1[p] = IF noFactory /\ ProductRow(p) /\ products[p].main = None
                         THEN y ELSE products[p]
    OBVIOUS
  <2> HIDE DEF y, products1
  <2> QED BY <2>1, <2>2, <2>3
<1>3. products1 = [p \in Products |-> products1[p]]
  BY DEF TenantsTypeOK
<1>4. ~noFactory => products1 = products
  OBVIOUS
<1> HIDE DEF products1
<1>5. products' \in [Products -> Product]
  BY <1>1, <1>2, <1>3
<1>6. \A p \in Products : products'[p] # products[p] => FactoryRow(products[p].main)'
  <2>1. \A p \in Products : products'[p] # products[p] => products'[p].main = f /\ noFactory
    BY <1>1, <1>2
  <2>2. noFactory => f \in Factories /\ factories'[f].status = "on"
    BY <1>1
  <2> HIDE DEF noFactory
  <2> QED BY <2>1, <2>2 DEF FactoryRow
<1> QED BY <1>1, <1>2, <1>4, <1>5, <1>6

\* A start keeps the references sound, also one that ends in the trigger.
LEMMA StartStep ==
  ASSUME TenantsInv, NEW b \in Brands, NEW f \in Factories, Start(b, f)
  PROVE  TenantsInv'
<1> USE TenantAssumption DEF TenantsInv, stockVars, accountVars
<1>1. /\ server' \in {"up", "failed"} /\ UNCHANGED <<stockVars, accountVars>>
      /\ brands' \in [Brands -> {"absent", "on", "off", "deleted"}]
      /\ \A c : BrandRow(c) => BrandRow(c)'
      /\ factories' \in [Factories -> Factory]
      /\ \A g \in Factories : FactoryRow(g) => factories'[g].status = factories[g].status
      /\ \A g \in Factories : FactoryRow(g)' =>
           factories'[g].brand = None \/ BrandRow(factories[g].brand)'
      /\ \A l \in Factories \X Brands : l \in links' <=>
           l \in links \/ (FactoryRow(l[1])' /\ factories'[l[1]].brand = l[2])
      /\ links' \subseteq Factories \X Brands
  BY StartRows
<1>2. /\ products' \in [Products -> Product]
      /\ \A p \in Products : /\ products'[p].status = products[p].status
                             /\ products'[p].brand = products[p].brand
      /\ \A p \in Products : products'[p] # products[p] => FactoryRow(products[p].main)'
      /\ (\E g \in Factories : FactoryRow(g)) => products' = products
      /\ \/ authorised' = authorised
         \/ authorised' = authorised \cup
              {m \in Products \X Factories : ProductRow(m[1]) /\ products'[m[1]].main = m[2]}
  BY StartProducts
<1>3. TenantsTypeOK'
  <2>1. authorised' \subseteq Products \X Factories
    BY <1>2 DEF TenantsTypeOK
  <2> QED BY <1>1, <1>2, <2>1 DEF TenantsTypeOK
<1>4. /\ \A g : FactoryRow(g) => FactoryRow(g)'
      /\ \A g : Enabled(g) => Enabled(g)'
      /\ \A p : ProductRow(p)' <=> ProductRow(p)
  BY <1>1, <1>2 DEF FactoryRow, Enabled, ProductRow
<1>5. OrgRows'
  <2>1. \A l \in links' : FactoryRow(l[1])' /\ BrandRow(l[2])'
    <3> TAKE l \in links'
    <3>1. l[1] \in Factories /\ l[2] \in Brands /\ l \in Factories \X Brands
      BY <1>1
    <3>2. \/ FactoryRow(l[1]) /\ BrandRow(l[2])
          \/ FactoryRow(l[1])' /\ factories'[l[1]].brand = l[2]
      BY <1>1, <3>1 DEF OrgRows
    <3>3. FactoryRow(l[1])' /\ BrandRow(l[2])'
      BY <1>1, <1>4, <3>1, <3>2 DEF BrandRow
    <3> QED BY <3>3
  <2> QED BY <1>1, <2>1 DEF OrgRows
<1>6. ProductRows'
  <2>1. \A p \in Products : ProductRow(p)' =>
          BrandRow(products[p].brand)' /\ (products'[p].main = None \/ FactoryRow(products[p].main)')
    BY <1>1, <1>2, <1>4 DEF ProductRows
  <2>2. \A a \in authorised' : ProductRow(a[1])' /\ FactoryRow(a[2])'
    BY <1>2, <1>4, <2>1 DEF ProductRows, ProductRow
  <2> QED BY <2>1, <2>2 DEF ProductRows
<1>7. CodeRows' /\ AccountRows'
  BY <1>1, <1>4 DEF CodeRows, AccountRows, UserRow, InvitationRow
<1>8. StockAtItsFactory'
  <2> SUFFICES ASSUME NEW c \in Codes, codes[c].status = "received"
               PROVE  /\ Enabled(codes[c].factory)'
                      /\ factoryAssignedToProduct(codes[c].factory, codes[c].product)'
    BY <1>1 DEF StockAtItsFactory
  <2>1. /\ Enabled(codes[c].factory) /\ ProductRow(codes[c].product)
        /\ factoryAssignedToProduct(codes[c].factory, codes[c].product)
    BY DEF StockAtItsFactory, CodeRows
  <2>2. products' = products
    BY <1>2, <2>1 DEF Enabled, FactoryRow
  <2>3. PICK g, p : /\ g = codes[c].factory /\ p = codes[c].product
                    /\ g = codes'[c].factory /\ p = codes'[c].product
    BY <1>1
  <2>4. factoryAssignedToProduct(g, p)'
    <3>1. g \in Factories /\ p \in Products /\ ProductRow(p)
      BY <2>1, <2>3 DEF Enabled, ProductRow
    <3>2. CASE g \in FactoriesOf(p)
      BY <1>2, <3>1, <3>2 DEF factoryAssignedToProduct, FactoriesOf
    <3>3. CASE FactoriesOf(p) = {} /\ products[p].main = g
      <4>1. CASE authorised' = authorised
        BY <2>2, <3>3, <4>1 DEF factoryAssignedToProduct, FactoriesOf
      <4>2. CASE <<p, g>> \in authorised'
        BY <3>1, <4>2 DEF factoryAssignedToProduct, FactoriesOf
      <4> QED BY <1>2, <2>2, <3>1, <3>3, <4>1, <4>2
    <3> QED BY <2>1, <2>3, <3>2, <3>3 DEF factoryAssignedToProduct
  <2> QED BY <1>4, <2>1, <2>3, <2>4
<1>9. PrimaryBrandIsLinked'
  BY <1>1, <1>3 DEF PrimaryBrandIsLinked, Enabled, FactoryRow, TenantsTypeOK, Factory
<1> QED BY <1>3, <1>5, <1>6, <1>7, <1>8, <1>9

-----------------------------------------------------------------------------
(* Every step *)

\* An empty database, whatever was deleted from it.
LEMMA TenantsStart ==
  ASSUME NEW usedUp, TenantsInitWith(usedUp)
  PROVE  TenantsInv
<1> USE TenantAssumption DEF TenantsInitWith
<1>1. TenantsTypeOK
  BY DEF TenantsTypeOK, Factory, Product, Code, BlankCode, User, Invitation, NoUser, Unused
<1>2. OrgRows /\ ProductRows /\ CodeRows /\ StockAtItsFactory /\ PrimaryBrandIsLinked
  BY DEF OrgRows, ProductRows, CodeRows, StockAtItsFactory, PrimaryBrandIsLinked, FactoryRow,
         ProductRow, Enabled, Unused, BlankCode
<1>3. AccountRows
  BY DEF AccountRows, UserRow, InvitationRow, Unused, NoUser
<1> QED BY <1>1, <1>2, <1>3 DEF TenantsInv

\* Every handler, and every start.
LEMMA TenantsStep ==
  ASSUME TenantsInv, TenantsNext
  PROVE  TenantsInv'
<1>1. CASE UNCHANGED server /\ Organize
  BY <1>1, BrandStep, DeleteBrandStep, CreateFactoryStep DEF Organize
<1>2. CASE UNCHANGED server /\ Catalogue
  BY <1>2, ProductStep, DeleteProductStep, CodeStep DEF Catalogue
<1>3. CASE UNCHANGED server /\ Administer
  BY <1>3, UserStep, InvitationStep DEF Administer
<1>4. CASE UNCHANGED server /\ Serve
  BY <1>1, <1>2, <1>3, <1>4, DeleteFactoryStep, CodeStep, DeleteUserStep, TokenStep, RegisterStep,
     InvitationStep DEF Serve
<1>5. CASE \E b \in Brands, f \in Factories : Start(b, f)
  BY <1>5, StartStep
<1> QED BY <1>4, <1>5 DEF TenantsNext

\* Whatever identifiers were used up before.  The parts are kept together: each handler's
\* refusals are about the others.
LEMMA TenantsHold ==
  ASSUME NEW usedUp
  PROVE  TenantsInitWith(usedUp) /\ [][TenantsNext]_tenantsVars => []TenantsInv
<1>1. TenantsInitWith(usedUp) => TenantsInv
  BY TenantsStart
<1>2. TenantsInv /\ [TenantsNext]_tenantsVars => TenantsInv'
  <2>1. ASSUME TenantsInv, UNCHANGED tenantsVars
        PROVE  TenantsInv'
    BY <2>1 DEF TenantsInv, tenantsVars, orgVars, productVars, stockVars, accountVars,
       TenantsTypeOK, OrgRows, ProductRows, CodeRows, AccountRows, StockAtItsFactory,
       PrimaryBrandIsLinked, BrandRow, FactoryRow, ProductRow, UserRow, InvitationRow, Enabled,
       factoryAssignedToProduct, FactoriesOf
  <2> QED BY <2>1, TenantsStep
<1> QED BY <1>1, <1>2, PTL

\* From a new database.
LEMMA TenantsInvariant == TenantsSpec => []TenantsInv
BY TenantsHold DEF TenantsSpec, TenantsInit

\* What names a brand, a factory, a product or a user names a row that is there,
\* whatever the handlers, the cascades and the starts do, and an account works for an
\* enabled factory.
THEOREM ReferencesCorrect == TenantsSpec => []NothingDangles
BY TenantsInvariant, TenantsParts, PTL

\* Neither an edit of the product nor the removal of the factory takes the factory from
\* under the goods received in it.
THEOREM StockPlacesCorrect == TenantsSpec => []StockAtItsFactory
BY TenantsInvariant, TenantsParts, PTL

\* An enabled factory is linked to its primary brand, whichever brand is edited.
THEOREM PrimaryBrandsCorrect == TenantsSpec => []PrimaryBrandIsLinked
BY TenantsInvariant, TenantsParts, PTL

\* All of it in a database that was in use before and has been emptied since.
THEOREM UsedTenantsCorrect ==
  ASSUME NEW usedUp
  PROVE  TenantsInitWith(usedUp) /\ [][TenantsNext]_tenantsVars =>
           [](NothingDangles /\ StockAtItsFactory /\ PrimaryBrandIsLinked)
BY TenantsHold, TenantsParts, PTL

-----------------------------------------------------------------------------
(* Code packages and exports *)

AnswerNames == {"none", "wait", "conflict", "ok", "error"}
RowRecords == [hash : Bodies \cup {Nothing}, answer : {"none", "pending", "ok", "error"}]
PackageRecords == [status : {"none", "generating", "ready", "failed"},
                   key : Keys \cup {Nothing}, hash : Bodies \cup {Nothing}]
ArchiveRecords == [doing : {"nothing", "building"}, package : Packages \cup {Nothing},
                   codes : SUBSET AllCodes, released : BOOLEAN]

\* What was made under a key, and what its row says of it.
BatchOK(k) ==
  /\ making[k] # Nothing => made[k] = making[k] /\ rows[k].answer = "pending"
  /\ made[k] <= Quantity
  /\ rows[k].answer = "none" => made[k] = 0
  /\ rows[k].answer = "ok" => made[k] = Quantity

\* A package without a key is not there, and one key has one package.
PackageOK(p) ==
  /\ packages[p].status = "none" => packages[p].key = Nothing
  /\ packages[p].status = "generating" => creating = p \/ process = "down"
  /\ \A q \in Packages : packages[p].key # Nothing /\ packages[q].key = packages[p].key => p = q

AnswerOK(r) ==
  /\ answers[r] = "ok" => rows[keyOf[r]].answer = "ok" /\ rows[keyOf[r]].hash = bodyOf[r]
  /\ answers[r] \in Packages => /\ packages[answers[r]].status = "ready"
                                /\ packages[answers[r]].hash = bodyOf[r]

CreatingOK == creating # Nothing =>
  process = "up" /\ packages[creating].status = "generating"

BatchInv ==
  /\ PackagesTypeOK
  /\ \A k \in Keys : BatchOK(k)
  /\ \A p \in Packages : PackageOK(p)
  /\ \A r \in Requests : AnswerOK(r)
  /\ CreatingOK

Waited == {a \in Archives : archives[a].doing = "building" /\ ~archives[a].released}

\* What is exported, or on its way to be, is all of a package.
FilesInv ==
  /\ codesOf \in [Packages -> SUBSET AllCodes]
  /\ exports \in [Packages -> SUBSET SUBSET AllCodes] /\ ExportsAreWhole
  /\ archives \in [Archives -> ArchiveRecords]
  /\ \A a \in Archives : archives[a].doing = "building" => archives[a].codes = AllCodes
  /\ imageArchiveJobs \in Nat /\ SlotsMatch

USE DEF Idle

LEMMA BatchInvInit == PackagesInit => BatchInv
<1> SUFFICES ASSUME PackagesInit PROVE BatchInv
  OBVIOUS
<1>1. PackagesTypeOK
  BY PackagesAssumption DEF PackagesInit, PackagesTypeOK, PackagesAssumption, NoRow, NoPackage, NoArchive
<1>2. \A k \in Keys : BatchOK(k)
  BY PackagesAssumption DEF PackagesInit, BatchOK, NoRow, PackagesAssumption
<1>3. \A p \in Packages : PackageOK(p)
  BY DEF PackagesInit, PackageOK, NoPackage
<1>4. (\A r \in Requests : AnswerOK(r)) /\ CreatingOK
  BY PackagesAssumption DEF PackagesInit, AnswerOK, CreatingOK, PackagesAssumption
<1> QED BY <1>1, <1>2, <1>3, <1>4 DEF BatchInv

\* Steps that touch neither the rows of keys nor the packages.
LEMMA BatchInvFrame ==
  ASSUME BatchInv, PackagesTypeOK', UNCHANGED <<process, atOnceVars, answers, packageVars>>
  PROVE  BatchInv'
BY DEF BatchInv, BatchOK, PackageOK, AnswerOK, CreatingOK, atOnceVars, packageVars, PackageRecords

-----------------------------------------------------------------------------
(* Codes made at once *)

LEMMA AskStep ==
  ASSUME BatchInv, NEW r \in Requests, Ask(r) PROVE BatchInv'
<1> DEFINE k == keyOf[r]
<1>0. k \in Keys /\ rows[k] = NoRow /\ UNCHANGED <<process, made, packageVars, codesOf, exports, archiveVars>>
  BY PackagesAssumption DEF Ask, PackagesAssumption
<1>a. /\ rows \in [Keys -> RowRecords] /\ making[k] = Nothing /\ made[k] = 0
      /\ rows[k].answer = "none" /\ bodyOf[r] \in Bodies
      /\ making \in [Keys -> 0..Quantity \cup {Nothing}]
  BY <1>0 DEF BatchInv, BatchOK, PackagesTypeOK, NoRow, RowRecords, Bodies
<1>1. PICK x \in {"pending", "error"} : 
        /\ rows' = [rows EXCEPT ![k] = [hash |-> bodyOf[r], answer |-> x]]
        /\ \/ x = "pending" /\ making' = [making EXCEPT ![k] = 0] /\ answers' = answers
           \/ x = "error" /\ making' = making /\ answers' = [answers EXCEPT ![r] = "error"]
  BY DEF Ask
<1>b. [hash |-> bodyOf[r], answer |-> x] \in RowRecords
  BY <1>a, <1>1 DEF RowRecords
<1>2. rows' \in [Keys -> RowRecords] /\ rows'[k].answer = x /\ \A j \in Keys \ {k} : rows'[j] = rows[j]
  BY <1>0, <1>a, <1>b, <1>1
<1> HIDE DEF k
<1>3. PackagesTypeOK'
  <2>1. making' \in [Keys -> 0..Quantity \cup {Nothing}]
    BY <1>0, <1>a, <1>1, PackagesAssumption DEF PackagesAssumption
  <2>2. answers' \in [Requests -> AnswerNames \cup Packages]
    BY <1>1 DEF BatchInv, PackagesTypeOK, AnswerNames
  <2> QED BY <1>0, <1>2, <2>1, <2>2
      DEF BatchInv, PackagesTypeOK, packageVars, archiveVars, RowRecords, AnswerNames
<1>4. ASSUME NEW j \in Keys PROVE BatchOK(j)'
  <2>1. CASE j = k
    BY <1>0, <1>a, <1>1, <1>2, <2>1, PackagesAssumption DEF PackagesAssumption, BatchOK
  <2>2. CASE j # k
    <3>1. making'[j] = making[j] /\ rows'[j] = rows[j] /\ made'[j] = made[j]
      BY <1>0, <1>a, <1>1, <1>2, <2>2
    <3> QED BY <3>1 DEF BatchInv, BatchOK
  <2> QED BY <2>1, <2>2
<1>5. ASSUME NEW p \in Packages PROVE PackageOK(p)'
  BY <1>0 DEF BatchInv, PackageOK, packageVars
<1>6. ASSUME NEW s \in Requests PROVE AnswerOK(s)'
  <2>1. answers \in [Requests -> AnswerNames \cup Packages] /\ packages' = packages
    BY <1>0 DEF BatchInv, PackagesTypeOK, AnswerNames, packageVars
  <2>2. answers'[s] \in {answers[s], "error"}
    BY <1>1, <2>1
  <2>3. "error" \notin Packages
    BY PackagesAssumption DEF PackagesAssumption
  <2>4. AnswerOK(s) /\ keyOf[s] \in Keys
    BY PackagesAssumption DEF BatchInv, PackagesAssumption
  <2>5. answers[s] = "ok" => keyOf[s] # k
    BY <1>a, <2>4 DEF AnswerOK
  <2>6. answers[s] = "ok" => rows'[keyOf[s]] = rows[keyOf[s]]
    BY <1>2, <2>4, <2>5
  <2> QED BY <2>1, <2>2, <2>3, <2>4, <2>6 DEF AnswerOK
<1>7. CreatingOK'
  BY <1>0 DEF BatchInv, CreatingOK, packageVars
<1> QED BY <1>3, <1>4, <1>5, <1>6, <1>7 DEF BatchInv

LEMMA AnswerSteps ==
  ASSUME BatchInv, NEW r \in Requests, NEW x \in AnswerNames \cup Packages,
         answers' = [answers EXCEPT ![r] = x],
         x = "ok" => rows[keyOf[r]].answer = "ok" /\ rows[keyOf[r]].hash = bodyOf[r],
         x \in Packages => packages[x].status = "ready" /\ packages[x].hash = bodyOf[r],
         UNCHANGED <<process, atOnceVars, packageVars, codesOf, exports, archiveVars>>
  PROVE  BatchInv'
<1>1. PackagesTypeOK'
  <2>1. answers' \in [Requests -> AnswerNames \cup Packages]
    BY DEF BatchInv, PackagesTypeOK, AnswerNames
  <2> QED BY <2>1 DEF BatchInv, PackagesTypeOK, AnswerNames, atOnceVars, packageVars, archiveVars
<1>2. \A s \in Requests : answers'[s] = IF s = r THEN x ELSE answers[s]
  BY DEF BatchInv, PackagesTypeOK
<1>3. ASSUME NEW s \in Requests PROVE AnswerOK(s)'
  <2>1. rows' = rows /\ packages' = packages /\ AnswerOK(s)
    BY DEF BatchInv, atOnceVars, packageVars
  <2> QED BY <1>2, <2>1 DEF AnswerOK
<1> QED BY <1>1, <1>3 DEF BatchInv, BatchOK, PackageOK, CreatingOK, atOnceVars, packageVars

LEMMA AskAgainStep ==
  ASSUME BatchInv, NEW r \in Requests, AskAgain(r) PROVE BatchInv'
<1> DEFINE row == rows[keyOf[r]]
           x == IF row.hash # bodyOf[r] THEN "conflict"
                ELSE IF row.answer = "pending" THEN "wait" ELSE row.answer
<1>1. row \in RowRecords
  BY PackagesAssumption DEF BatchInv, PackagesTypeOK, PackagesAssumption, RowRecords
<1>2. x \in AnswerNames /\ x \notin Packages
  BY <1>1, PackagesAssumption DEF RowRecords, AnswerNames, PackagesAssumption
<1>3. x = "ok" => row.answer = "ok" /\ row.hash = bodyOf[r]
  OBVIOUS
<1>4. /\ answers' = [answers EXCEPT ![r] = x]
      /\ UNCHANGED <<process, atOnceVars, packageVars, codesOf, exports, archiveVars>>
  BY DEF AskAgain
<1> HIDE DEF x
<1> QED BY <1>2, <1>3, <1>4, AnswerSteps

\* Steps of the handler of one key, which change neither answers nor packages.
LEMMA KeyStep ==
  ASSUME BatchInv, NEW k \in Keys, NEW m \in 0..Quantity \cup {Nothing}, NEW n \in Nat,
         NEW row \in RowRecords,
         making' = [making EXCEPT ![k] = m], made' = [made EXCEPT ![k] = n],
         rows' = [rows EXCEPT ![k] = row], BatchOK(k)',
         rows[k].answer = "ok" => row = rows[k],
         UNCHANGED <<process, answers, packageVars, codesOf, exports, archiveVars>>
  PROVE  BatchInv'
<1>0. /\ rows \in [Keys -> RowRecords] /\ making \in [Keys -> 0..Quantity \cup {Nothing}]
      /\ made \in [Keys -> Nat]
  BY DEF BatchInv, PackagesTypeOK, RowRecords
<1>1. /\ rows' \in [Keys -> RowRecords] /\ making' \in [Keys -> 0..Quantity \cup {Nothing}]
      /\ made' \in [Keys -> Nat]
      /\ \A j \in Keys \ {k} : rows'[j] = rows[j] /\ making'[j] = making[j] /\ made'[j] = made[j]
      /\ rows'[k] = row
  BY <1>0
<1>2. PackagesTypeOK'
  BY <1>1 DEF BatchInv, PackagesTypeOK, RowRecords, packageVars, archiveVars
<1>3. \A j \in Keys : BatchOK(j)'
  BY <1>1 DEF BatchInv, BatchOK
<1>4. ASSUME NEW s \in Requests PROVE AnswerOK(s)'
  <2>1. AnswerOK(s) /\ keyOf[s] \in Keys /\ packages' = packages /\ answers' = answers
    BY PackagesAssumption DEF BatchInv, PackagesAssumption, packageVars
  <2>2. answers[s] = "ok" => rows'[keyOf[s]] = rows[keyOf[s]]
    BY <1>1, <2>1 DEF AnswerOK
  <2> QED BY <2>1, <2>2 DEF AnswerOK
<1> QED BY <1>2, <1>3, <1>4 DEF BatchInv, PackageOK, CreatingOK, packageVars

LEMMA MakeCodeStep ==
  ASSUME BatchInv, NEW k \in Keys, MakeCode(k) PROVE BatchInv'
<1>1. /\ making[k] \in 0..(Quantity - 1) /\ made[k] \in Nat /\ rows[k] \in RowRecords
      /\ Quantity \in Nat /\ Nothing \notin Nat
      /\ rows \in [Keys -> RowRecords] /\ making \in [Keys -> 0..Quantity \cup {Nothing}]
      /\ made \in [Keys -> Nat]
  BY PackagesAssumption DEF MakeCode, BatchInv, PackagesTypeOK, RowRecords, PackagesAssumption
<1>2. made[k] = making[k] /\ rows[k].answer = "pending"
  BY <1>1 DEF BatchInv, BatchOK
<1>3. /\ making' = [making EXCEPT ![k] = making[k] + 1] /\ made' = [made EXCEPT ![k] = made[k] + 1]
      /\ rows' = [rows EXCEPT ![k] = rows[k]]
      /\ UNCHANGED <<process, answers, packageVars, codesOf, exports, archiveVars>>
  BY <1>1 DEF MakeCode
<1>4. making[k] + 1 \in 0..Quantity \cup {Nothing} /\ made[k] + 1 \in Nat
  BY <1>1
<1>5. BatchOK(k)'
  <2>1. making'[k] = making[k] + 1 /\ made'[k] = making[k] + 1 /\ rows'[k].answer = "pending"
    BY <1>1, <1>2, <1>3
  <2> QED BY <1>1, <2>1 DEF BatchOK
<1> QED BY <1>1, <1>3, <1>4, <1>5, KeyStep

LEMMA EndMakingStep ==
  ASSUME BatchInv, NEW k \in Keys, NEW x \in {"ok", "error"}, EndMaking(k, x) PROVE BatchInv'
<1>1. /\ Quantity \in Nat /\ Nothing \notin Nat
      /\ rows \in [Keys -> RowRecords] /\ making \in [Keys -> 0..Quantity \cup {Nothing}]
      /\ made \in [Keys -> Nat]
  BY PackagesAssumption DEF BatchInv, PackagesTypeOK, RowRecords, PackagesAssumption
<1>2. making[k] \in 1..Quantity /\ (x = "ok" => making[k] = Quantity)
  BY <1>1, PackagesAssumption DEF EndMaking, PackagesAssumption
<1>3. made[k] = making[k] /\ rows[k].answer = "pending"
  BY <1>1, <1>2 DEF BatchInv, BatchOK
<1> DEFINE row == [rows[k] EXCEPT !.answer = x]
<1>4. row \in RowRecords /\ row.answer = x
  BY <1>1 DEF RowRecords
<1>5. /\ making' = [making EXCEPT ![k] = Nothing] /\ made' = [made EXCEPT ![k] = made[k]]
      /\ rows' = [rows EXCEPT ![k] = row]
      /\ UNCHANGED <<process, answers, packageVars, codesOf, exports, archiveVars>>
  BY <1>1 DEF EndMaking
<1> HIDE DEF row
<1>6. BatchOK(k)'
  <2>1. making'[k] = Nothing /\ made'[k] = making[k] /\ rows'[k].answer = x
    BY <1>1, <1>3, <1>4, <1>5
  <2> QED BY <1>1, <1>2, <2>1 DEF BatchOK
<1> QED BY <1>1, <1>3, <1>4, <1>5, <1>6, KeyStep

LEMMA ForgetKeyStep ==
  ASSUME BatchInv, NEW k \in Keys, ForgetKey(k) PROVE BatchInv'
<1>0. /\ rows \in [Keys -> RowRecords] /\ made \in [Keys -> Nat]
      /\ answers \in [Requests -> AnswerNames \cup Packages]
      /\ UNCHANGED <<process, making, packageVars, codesOf, exports, archiveVars>>
  BY DEF BatchInv, PackagesTypeOK, RowRecords, AnswerNames, ForgetKey
<1>1. /\ rows' = [rows EXCEPT ![k] = NoRow] /\ made' = [made EXCEPT ![k] = 0]
      /\ making[k] = Nothing
      /\ \A r \in Requests : answers'[r] = IF keyOf[r] = k /\ answers[r] \notin Packages
                                             THEN "none" ELSE answers[r]
      /\ answers' \in [Requests -> AnswerNames \cup Packages]
  BY <1>0 DEF ForgetKey, AnswerNames
<1>2. NoRow \in RowRecords /\ NoRow.answer = "none"
  BY DEF NoRow, RowRecords
<1>3. /\ rows' \in [Keys -> RowRecords] /\ made' \in [Keys -> Nat]
      /\ \A j \in Keys \ {k} : rows'[j] = rows[j] /\ made'[j] = made[j]
      /\ rows'[k].answer = "none" /\ made'[k] = 0
  BY <1>0, <1>1, <1>2
<1>4. PackagesTypeOK'
  BY <1>0, <1>1, <1>3 DEF BatchInv, PackagesTypeOK, RowRecords, AnswerNames, packageVars, archiveVars
<1>5. \A j \in Keys : BatchOK(j)'
  BY <1>0, <1>1, <1>3, PackagesAssumption DEF BatchInv, BatchOK, PackagesAssumption
<1>6. ASSUME NEW s \in Requests PROVE AnswerOK(s)'
  <2>1. AnswerOK(s) /\ keyOf[s] \in Keys /\ packages' = packages
        /\ {"ok", "none"} \cap Packages = {}
    BY <1>0, PackagesAssumption DEF BatchInv, PackagesAssumption, packageVars
  <2>2. answers'[s] = "ok" => answers[s] = "ok" /\ keyOf[s] # k
    BY <1>1, <2>1
  <2>3. answers'[s] \in Packages => answers'[s] = answers[s]
    BY <1>1, <2>1
  <2> QED BY <1>3, <2>1, <2>2, <2>3 DEF AnswerOK
<1> QED BY <1>0, <1>4, <1>5, <1>6 DEF BatchInv, PackageOK, CreatingOK, packageVars

-----------------------------------------------------------------------------
(* Files *)

LEMMA FilesInvInit == PackagesInit => FilesInv
<1> SUFFICES ASSUME PackagesInit PROVE FilesInv
  OBVIOUS
<1>1. archives = [a \in Archives |-> NoArchive] /\ NoArchive \in ArchiveRecords
      /\ NoArchive.doing # "building"
  BY DEF PackagesInit, NoArchive, ArchiveRecords
<1>2. Waited = {}
  BY <1>1 DEF Waited
<1>3. SlotsMatch /\ imageArchiveJobs \in Nat
  <2>1. Cardinality(Waited) = 0
    BY <1>2, FS_EmptySet
  <2> QED BY <2>1, PackagesAssumption DEF PackagesInit, SlotsMatch, Waited, PackagesAssumption
<1> QED BY <1>1, <1>3 DEF FilesInv, PackagesInit, ExportsAreWhole

\* What is exportable is all there.
LEMMA ExportableIsWhole ==
  ASSUME FilesInv, NEW p \in Packages, Exportable(p) PROVE codesOf[p] = AllCodes
<1>1. codesOf[p] \subseteq AllCodes /\ Cardinality(codesOf[p]) = Quantity /\ Quantity \in Nat \ {0}
  BY PackagesAssumption DEF FilesInv, Exportable, PackagesAssumption
<1>2. IsFiniteSet(AllCodes) /\ Cardinality(AllCodes) = Quantity
  BY <1>1, FS_Interval DEF AllCodes
<1> QED BY <1>1, <1>2, FS_Subset

LEMMA FilesInvStep == FilesInv /\ [PackagesNext]_packagesVars => FilesInv'
<1> SUFFICES ASSUME FilesInv, [PackagesNext]_packagesVars PROVE FilesInv'
  OBVIOUS
<1>0. /\ archives \in [Archives -> ArchiveRecords] /\ imageArchiveJobs = Cardinality(Waited)
      /\ imageArchiveJobs <= MaxArchives /\ MaxArchives \in Nat /\ IsFiniteSet(Waited)
      /\ imageArchiveJobs \in Nat /\ codesOf \in [Packages -> SUBSET AllCodes]
      /\ exports \in [Packages -> SUBSET SUBSET AllCodes]
  <2>1. IsFiniteSet(Waited)
    BY PackagesAssumption, FS_Subset DEF Waited, PackagesAssumption
  <2> QED BY <2>1, PackagesAssumption DEF FilesInv, SlotsMatch, Waited, PackagesAssumption
\* Steps that leave the files, or only the archives, alone.
<1>1. CASE UNCHANGED <<codesOf, exports, archiveVars>>
  BY <1>1 DEF FilesInv, SlotsMatch, ExportsAreWhole, archiveVars
<1>2. ASSUME codesOf' \in [Packages -> SUBSET AllCodes], UNCHANGED <<exports, archiveVars>>
      PROVE  FilesInv'
  BY <1>2 DEF FilesInv, SlotsMatch, ExportsAreWhole, archiveVars
<1>3. ASSUME NEW p \in Packages, Export(p) PROVE FilesInv'
  <2>1. codesOf[p] = AllCodes
    BY <1>3, ExportableIsWhole DEF Export
  <2>2. exports' = [exports EXCEPT ![p] = @ \cup {AllCodes}] /\ UNCHANGED <<codesOf, archiveVars>>
    BY <1>3, <2>1 DEF Export
  <2>3. exports' \in [Packages -> SUBSET SUBSET AllCodes] /\ ExportsAreWhole'
    BY <1>0, <2>2 DEF FilesInv, ExportsAreWhole
  <2> QED BY <2>2, <2>3 DEF FilesInv, SlotsMatch, archiveVars
<1>4. ASSUME NEW a \in Archives, NEW p \in Packages, StartArchive(a, p) PROVE FilesInv'
  <2> DEFINE x == [doing |-> "building", package |-> p, codes |-> codesOf[p], released |-> FALSE]
  <2>1. archives' = [archives EXCEPT ![a] = x] /\ imageArchiveJobs' = imageArchiveJobs + 1
        /\ imageArchiveJobs < MaxArchives /\ archives[a] = NoArchive /\ UNCHANGED <<codesOf, exports>>
    BY <1>4 DEF StartArchive
  <2>2. x \in ArchiveRecords /\ x.doing = "building" /\ ~x.released /\ x.codes = AllCodes
    BY <1>4, ExportableIsWhole DEF ArchiveRecords, StartArchive
  <2> HIDE DEF x
  <2>3. Waited' = Waited \cup {a} /\ a \notin Waited
    BY <1>0, <2>1, <2>2 DEF Waited, NoArchive
  <2>4. Cardinality(Waited') = imageArchiveJobs + 1
    BY <1>0, <2>3, FS_AddElement
  <2>5. archives' \in [Archives -> ArchiveRecords]
        /\ \A b \in Archives : archives'[b].doing = "building" => archives'[b].codes = AllCodes
    BY <1>0, <2>1, <2>2 DEF FilesInv
  <2> QED BY <1>0, <2>1, <2>4, <2>5 DEF FilesInv, SlotsMatch, Waited, ExportsAreWhole
\* An archive that is given back, or has ended.
<1>5. ASSUME NEW a \in Archives, NEW x \in ArchiveRecords, archives' = [archives EXCEPT ![a] = x],
             archives[a].doing = "building", x.released \/ x.doing # "building",
             x.doing = "building" => x.codes = AllCodes, ReleaseArchive(a),
             exports' \in [Packages -> SUBSET SUBSET AllCodes], ExportsAreWhole', UNCHANGED codesOf
      PROVE  FilesInv'
  <2>1. archives' \in [Archives -> ArchiveRecords]
        /\ \A b \in Archives : archives'[b].doing = "building" => archives'[b].codes = AllCodes
    BY <1>0, <1>5 DEF FilesInv
  <2>2. Waited' = Waited \ {a}
    BY <1>0, <1>5 DEF Waited
  <2>3. /\ imageArchiveJobs' = Cardinality(Waited') /\ imageArchiveJobs' <= MaxArchives
        /\ imageArchiveJobs' \in Nat
    <3>1. CASE archives[a].released
      <4>1. Waited' = Waited /\ imageArchiveJobs' = imageArchiveJobs
        BY <2>2, <3>1, <1>5 DEF Waited, ReleaseArchive
      <4> QED BY <1>0, <4>1
    <3>2. CASE ~archives[a].released
      <4>1. a \in Waited /\ imageArchiveJobs' = imageArchiveJobs - 1
        BY <3>2, <1>5 DEF Waited, ReleaseArchive
      <4>2. Cardinality(Waited') = imageArchiveJobs - 1 /\ IsFiniteSet(Waited')
        BY <1>0, <2>2, <4>1, FS_RemoveElement
      <4>3. Cardinality(Waited') \in Nat
        BY <4>2, FS_CardinalityType
      <4> QED BY <1>0, <4>1, <4>2, <4>3
    <3> QED BY <3>1, <3>2
  <2> QED BY <1>5, <2>1, <2>3, <1>0 DEF FilesInv, SlotsMatch, Waited
<1>6. ASSUME NEW a \in Archives, CloseArchive(a) PROVE FilesInv'
  <2> DEFINE x == [archives[a] EXCEPT !.released = TRUE]
  <2>1. x \in ArchiveRecords /\ x.released /\ x.codes = archives[a].codes
    BY <1>0 DEF ArchiveRecords
  <2>2. archives' = [archives EXCEPT ![a] = x] /\ archives[a].doing = "building"
        /\ ReleaseArchive(a) /\ UNCHANGED <<codesOf, exports>>
    BY <1>0, <1>6 DEF CloseArchive
  <2> HIDE DEF x
  <2>3. archives[a].codes = AllCodes /\ ExportsAreWhole'
    BY <2>2 DEF FilesInv, ExportsAreWhole
  <2> QED BY <1>0, <1>5, <2>1, <2>2, <2>3
<1>7. ASSUME NEW a \in Archives, NEW sent \in BOOLEAN, EndArchive(a, sent) PROVE FilesInv'
  <2>1. NoArchive \in ArchiveRecords /\ NoArchive.doing # "building"
    BY DEF ArchiveRecords, NoArchive
  <2>2. archives' = [archives EXCEPT ![a] = NoArchive] /\ archives[a].doing = "building"
        /\ ReleaseArchive(a) /\ UNCHANGED codesOf
    BY <1>7 DEF EndArchive
  <2>3. archives[a].codes = AllCodes
    BY <2>2 DEF FilesInv
  <2>4. exports' = exports \/ exports' = [exports EXCEPT ![archives[a].package] = @ \cup {AllCodes}]
    BY <1>7, <2>3 DEF EndArchive
  <2>5. exports' \in [Packages -> SUBSET SUBSET AllCodes] /\ ExportsAreWhole'
    BY <1>0, <2>4 DEF FilesInv, ExportsAreWhole
  <2> QED BY <1>5, <2>1, <2>2, <2>5
<1>8. CASE Crash
  <2>1. archives' = [a \in Archives |-> NoArchive] /\ imageArchiveJobs' = 0
        /\ NoArchive \in ArchiveRecords /\ NoArchive.doing # "building" /\ UNCHANGED <<codesOf, exports>>
    BY <1>8 DEF Crash, NoArchive, ArchiveRecords
  <2>2. Waited' = {}
    BY <2>1 DEF Waited
  <2>3. Cardinality(Waited') = 0
    BY <2>2, FS_EmptySet
  <2>4. archives' \in [Archives -> ArchiveRecords]
        /\ \A a \in Archives : archives'[a].doing # "building"
    BY <2>1
  <2>5. SlotsMatch'
    BY <1>0, <2>1, <2>3 DEF SlotsMatch, Waited
  <2> QED BY <2>1, <2>4, <2>5 DEF FilesInv, ExportsAreWhole
<1>9. CASE \E r \in Requests : \/ Ask(r) \/ AskAgain(r)
                               \/ \E p \in Packages : Reserve(r, p) \/ ReserveAgain(r, p)
  BY <1>1, <1>9 DEF Ask, AskAgain, Reserve, ReserveAgain
<1>10. CASE \E k \in Keys : \/ MakeCode(k) \/ ForgetKey(k)
                            \/ \E answer \in {"ok", "error"} : EndMaking(k, answer)
  BY <1>1, <1>10 DEF MakeCode, ForgetKey, EndMaking
<1>11. CASE Restart \/ UNCHANGED packagesVars
  BY <1>1, <1>11 DEF Restart, packagesVars
<1>12. CASE Create
  BY <1>0, <1>2, <1>12 DEF Create, CreatePackageCodes
<1>13. ASSUME NEW p \in Packages, NEW c \in AllCodes, DeleteCode(p, c) PROVE FilesInv'
  BY <1>0, <1>2, <1>13 DEF DeleteCode
<1> QED BY <1>3, <1>4, <1>6, <1>7, <1>8, <1>9, <1>10, <1>11, <1>12, <1>13 DEF PackagesNext

-----------------------------------------------------------------------------
(* Packages and the process *)

LEMMA ReserveStep ==
  ASSUME BatchInv, NEW r \in Requests, NEW p \in Packages, Reserve(r, p) PROVE BatchInv'
<1> DEFINE x == [status |-> "generating", key |-> keyOf[r], hash |-> bodyOf[r]]
<1>0. /\ packages \in [Packages -> PackageRecords] /\ keyOf[r] \in Keys /\ keyOf[r] # Nothing
      /\ packages[p] = NoPackage /\ process = "up" /\ creating = Nothing
      /\ \A q \in Packages : packages[q].key # keyOf[r]
      /\ UNCHANGED <<process, atOnceVars, answers, codesOf, exports, archiveVars>>
  BY PackagesAssumption DEF Reserve, PackageOf, BatchInv, PackagesTypeOK, PackageRecords,
                            PackagesAssumption
<1>1. x \in PackageRecords /\ x.key = keyOf[r] /\ x.status = "generating"
  BY <1>0 DEF PackageRecords, Bodies
<1>2. packages' = [packages EXCEPT ![p] = x] /\ creating' = p
  BY DEF Reserve
<1> HIDE DEF x
<1>3. /\ packages' \in [Packages -> PackageRecords] /\ packages'[p] = x
      /\ \A q \in Packages \ {p} : packages'[q] = packages[q]
  BY <1>0, <1>1, <1>2
<1>4. PackagesTypeOK'
  BY <1>0, <1>2, <1>3 DEF BatchInv, PackagesTypeOK, PackageRecords, atOnceVars, archiveVars
<1>5. ASSUME NEW q \in Packages PROVE PackageOK(q)'
  <2>1. PackageOK(q)
    BY DEF BatchInv
  <2>2. CASE q = p
    BY <1>0, <1>1, <1>2, <1>3, <2>2 DEF PackageOK
  <2>3. CASE q # p
    <3>1. packages'[q] = packages[q] /\ packages[q].key # keyOf[r]
      BY <1>0, <1>3, <2>3
    <3>2. packages[q].status # "generating"
      BY <1>0, <2>1, <3>1, PackagesAssumption DEF PackageOK, PackagesAssumption
    <3> QED BY <1>1, <1>3, <2>1, <3>1, <3>2 DEF PackageOK
  <2> QED BY <2>2, <2>3
<1>6. ASSUME NEW s \in Requests PROVE AnswerOK(s)'
  <2>1. AnswerOK(s) /\ answers' = answers /\ rows' = rows
    BY <1>0 DEF BatchInv, atOnceVars
  <2>2. answers[s] \in Packages => answers[s] # p
    BY <1>0, <2>1 DEF AnswerOK, NoPackage
  <2> QED BY <1>3, <2>1, <2>2 DEF AnswerOK
<1>7. CreatingOK'
  BY <1>0, <1>1, <1>2, <1>3 DEF CreatingOK
<1> QED BY <1>0, <1>4, <1>5, <1>6, <1>7 DEF BatchInv, BatchOK, atOnceVars

LEMMA ReserveAgainStep ==
  ASSUME BatchInv, NEW r \in Requests, NEW p \in Packages, ReserveAgain(r, p) PROVE BatchInv'
<1> DEFINE x == IF packages[p].hash # bodyOf[r] THEN "conflict"
                ELSE IF packages[p].status = "generating" THEN "wait"
                ELSE IF packages[p].status = "failed" THEN "error" ELSE p
<1>a. packages[p] \in PackageRecords
  BY DEF BatchInv, PackagesTypeOK, PackageRecords
<1>b. keyOf[r] # Nothing /\ AnswerNames \cap Packages = {}
  BY PackagesAssumption DEF PackagesAssumption, AnswerNames
<1>0. /\ packages[p] \in PackageRecords /\ keyOf[r] # Nothing /\ packages[p].key = keyOf[r]
      /\ AnswerNames \cap Packages = {}
  BY <1>a, <1>b DEF ReserveAgain
<1>1. packages[p].status \in {"generating", "ready", "failed"}
  BY <1>0 DEF BatchInv, PackageOK, PackageRecords
<1>2. x \in AnswerNames \cup Packages /\ x # "ok"
  BY <1>0 DEF AnswerNames
<1>3. x \in Packages => packages[x].status = "ready" /\ packages[x].hash = bodyOf[r]
  BY <1>0, <1>1 DEF AnswerNames
<1>4. /\ answers' = [answers EXCEPT ![r] = x]
      /\ UNCHANGED <<process, atOnceVars, packageVars, codesOf, exports, archiveVars>>
  BY DEF ReserveAgain
<1> HIDE DEF x
<1> QED BY <1>2, <1>3, <1>4, AnswerSteps

LEMMA CreateStep ==
  ASSUME BatchInv, Create PROVE BatchInv'
<1>1. PICK answered \in SUBSET Requests :
        /\ \A r \in answered : creating # Nothing /\ keyOf[r] = packages[creating].key
                                               /\ bodyOf[r] = packages[creating].hash
        /\ CreatePackageCodes(answered)
  BY DEF Create
<1>0. /\ packages \in [Packages -> PackageRecords] /\ creating \in Packages
      /\ packages[creating].status = "generating" /\ process = "up" /\ creating' = Nothing
      /\ answers \in [Requests -> AnswerNames \cup Packages]
      /\ codesOf \in [Packages -> SUBSET AllCodes]
      /\ UNCHANGED <<process, atOnceVars, exports, archiveVars>>
  BY <1>1 DEF CreatePackageCodes, BatchInv, PackagesTypeOK, PackageRecords, CreatingOK, AnswerNames
<1>2. PICK status \in {"ready", "failed"} :
        /\ packages' = [packages EXCEPT ![creating].status = status]
        /\ \/ /\ status = "ready"
              /\ answers' = [r \in Requests |-> IF r \in answered THEN creating ELSE answers[r]]
           \/ status = "failed" /\ answers' = answers
  BY <1>1 DEF CreatePackageCodes
<1>3. /\ packages' \in [Packages -> PackageRecords]
      /\ \A q \in Packages \ {creating} : packages'[q] = packages[q]
      /\ packages'[creating].status = status /\ packages'[creating].key = packages[creating].key
      /\ packages'[creating].hash = packages[creating].hash
  BY <1>0, <1>2 DEF PackageRecords
<1>4. PackagesTypeOK'
  <2>1. codesOf' \in [Packages -> SUBSET AllCodes]
    BY <1>0, <1>1 DEF CreatePackageCodes
  <2>2. answers' \in [Requests -> AnswerNames \cup Packages]
    BY <1>0, <1>2
  <2> QED BY <1>0, <1>3, <2>1, <2>2
      DEF BatchInv, PackagesTypeOK, PackageRecords, AnswerNames, atOnceVars, archiveVars
<1>5. ASSUME NEW q \in Packages PROVE PackageOK(q)'
  <2>1. PackageOK(q) /\ PackageOK(creating)
    BY <1>0 DEF BatchInv
  <2>2. \A s \in Packages : packages'[s].key = packages[s].key
    BY <1>3
  <2>3. packages'[q].status = "generating" => q # creating /\ packages'[q] = packages[q]
    BY <1>3
  <2>4. packages'[q].status = "none" => packages'[q] = packages[q]
    BY <1>3
  <2> QED BY <1>0, <2>1, <2>2, <2>3, <2>4 DEF PackageOK
<1>6. ASSUME NEW s \in Requests PROVE AnswerOK(s)'
  <2>1. AnswerOK(s) /\ rows' = rows
    BY <1>0 DEF BatchInv, atOnceVars
  <2>2. answers[s] \in Packages => answers[s] # creating
    BY <1>0, <2>1 DEF AnswerOK
  <2>3. "ok" \notin Packages
    BY PackagesAssumption DEF PackagesAssumption
  <2>4. CASE answers'[s] = answers[s]
    BY <1>3, <2>1, <2>2, <2>4 DEF AnswerOK
  <2>5. CASE s \in answered /\ answers'[s] = creating /\ status = "ready"
    BY <1>0, <1>1, <1>3, <2>3, <2>5 DEF AnswerOK
  <2> QED BY <1>2, <2>4, <2>5
<1> QED BY <1>0, <1>4, <1>5, <1>6 DEF BatchInv, BatchOK, CreatingOK, atOnceVars

LEMMA ProcessStep ==
  ASSUME BatchInv, Crash \/ Restart PROVE BatchInv'
<1>1. CASE Crash
  <2>1. PackagesTypeOK'
    BY <1>1 DEF BatchInv, PackagesTypeOK, Crash, NoArchive
  <2>2. \A k \in Keys : BatchOK(k)'
    BY <1>1 DEF BatchInv, BatchOK, Crash
  <2>3. \A r \in Requests : AnswerOK(r)'
    BY <1>1 DEF BatchInv, AnswerOK, Crash
  <2>4. (\A p \in Packages : PackageOK(p)') /\ CreatingOK'
    BY <1>1 DEF BatchInv, PackageOK, CreatingOK, Crash
  <2> QED BY <2>1, <2>2, <2>3, <2>4 DEF BatchInv
<1>2. CASE Restart
  <2>0. /\ packages \in [Packages -> PackageRecords]
        /\ UNCHANGED <<atOnceVars, answers, creating, codesOf, exports, archiveVars>>
    BY <1>2 DEF BatchInv, PackagesTypeOK, PackageRecords, Restart
  <2>1. /\ packages' \in [Packages -> PackageRecords]
        /\ \A p \in Packages : /\ packages'[p].key = packages[p].key
                               /\ packages'[p].hash = packages[p].hash
                               /\ packages'[p].status = IF packages[p].status = "generating"
                                                          THEN "failed" ELSE packages[p].status
    BY <1>2, <2>0 DEF Restart, PackageRecords
  <2>2. PackagesTypeOK'
    BY <1>2, <2>0, <2>1 DEF BatchInv, PackagesTypeOK, PackageRecords, Restart, atOnceVars, archiveVars
  <2>3. \A p \in Packages : PackageOK(p)'
    BY <2>1 DEF BatchInv, PackageOK
  <2>4. ASSUME NEW r \in Requests PROVE AnswerOK(r)'
    BY <2>0, <2>1 DEF BatchInv, AnswerOK, atOnceVars
  <2>5. CreatingOK'
    <3>1. creating = Nothing
      BY <1>2 DEF BatchInv, CreatingOK, Restart
    <3> QED BY <2>0, <3>1 DEF CreatingOK
  <2> QED BY <2>0, <2>2, <2>3, <2>4, <2>5 DEF BatchInv, BatchOK, atOnceVars
<1> QED BY <1>1, <1>2

\* What neither keys nor packages notice.
LEMMA ArchiveStepsKeep ==
  ASSUME BatchInv,
         \/ \E p \in Packages : \/ Export(p)
                                \/ \E c \in AllCodes : DeleteCode(p, c)
                                \/ \E a \in Archives : StartArchive(a, p)
         \/ \E a \in Archives : CloseArchive(a) \/ \E sent \in BOOLEAN : EndArchive(a, sent),
         FilesInv'
  PROVE  BatchInv'
<1>1. UNCHANGED <<process, atOnceVars, answers, packageVars>>
  BY DEF Export, DeleteCode, StartArchive, CloseArchive, EndArchive
<1>2. PackagesTypeOK'
  BY <1>1 DEF BatchInv, FilesInv, PackagesTypeOK, ArchiveRecords, atOnceVars, packageVars
<1> QED BY <1>1, <1>2, BatchInvFrame

-----------------------------------------------------------------------------
(* The invariant and what follows from it *)

PackagesInv == FilesInv /\ BatchInv

LEMMA PackagesInvStep == PackagesInv /\ [PackagesNext]_packagesVars => PackagesInv'
<1> SUFFICES ASSUME PackagesInv, [PackagesNext]_packagesVars PROVE PackagesInv'
  OBVIOUS
<1>0. BatchInv /\ FilesInv'
  BY FilesInvStep DEF PackagesInv
<1>1. CASE \E r \in Requests : \/ Ask(r) \/ AskAgain(r)
                               \/ \E p \in Packages : Reserve(r, p) \/ ReserveAgain(r, p)
  BY <1>0, <1>1, AskStep, AskAgainStep, ReserveStep, ReserveAgainStep DEF PackagesInv
<1>2. CASE \E k \in Keys : \/ MakeCode(k) \/ ForgetKey(k)
                           \/ \E answer \in {"ok", "error"} : EndMaking(k, answer)
  BY <1>0, <1>2, MakeCodeStep, ForgetKeyStep, EndMakingStep DEF PackagesInv
<1>3. CASE Create \/ Crash \/ Restart
  BY <1>0, <1>3, CreateStep, ProcessStep DEF PackagesInv
<1>4. CASE \/ \E p \in Packages : \/ Export(p)
                                  \/ \E c \in AllCodes : DeleteCode(p, c)
                                  \/ \E a \in Archives : StartArchive(a, p)
           \/ \E a \in Archives : CloseArchive(a) \/ \E sent \in BOOLEAN : EndArchive(a, sent)
  BY <1>0, <1>4, ArchiveStepsKeep DEF PackagesInv
<1>5. CASE UNCHANGED packagesVars
  <2>1. PackagesTypeOK'
    BY <1>0, <1>5 DEF BatchInv, PackagesTypeOK, packagesVars, atOnceVars, packageVars, archiveVars
  <2> QED BY <1>0, <1>5, <2>1, BatchInvFrame DEF PackagesInv, packagesVars
<1> QED BY <1>1, <1>2, <1>3, <1>4, <1>5 DEF PackagesNext

LEMMA PackagesInvImplies == PackagesInv => OneBatchPerKey /\ ExportsAreWhole /\ SlotsMatch
<1> SUFFICES ASSUME PackagesInv PROVE OneBatchPerKey
  BY DEF PackagesInv, FilesInv
<1> USE DEF PackagesInv, BatchInv
<1>1. ASSUME NEW k \in Keys PROVE Cardinality(PackageOf(k)) <= 1
  <2>1. k # Nothing
    BY PackagesAssumption DEF PackagesAssumption
  <2>2. \A p, q \in PackageOf(k) : p = q
    BY <2>1 DEF PackageOf, PackageOK
  <2>3. CASE PackageOf(k) = {}
    BY <2>3, FS_EmptySet
  <2>4. CASE PackageOf(k) # {}
    <3>1. PICK p \in PackageOf(k) : TRUE
      BY <2>4
    <3>2. PackageOf(k) = {p}
      BY <2>2, <3>1
    <3>3. Cardinality({p}) = 1
      BY FS_Singleton
    <3> QED BY <3>2, <3>3
  <2> QED BY <2>3, <2>4
<1>2. \A k \in Keys : made[k] <= Quantity /\ (rows[k].answer = "ok" => made[k] = Quantity)
  BY DEF BatchOK
<1>3. \A p \in Packages : packages[p].status = "generating" => creating = p \/ process = "down"
  BY DEF PackageOK
<1>4. \A r \in Requests : /\ answers[r] = "ok" => rows[keyOf[r]].hash = bodyOf[r]
                          /\ answers[r] \in Packages => packages[answers[r]].hash = bodyOf[r]
  BY DEF AnswerOK
<1> QED BY <1>1, <1>2, <1>3, <1>4 DEF OneBatchPerKey

\* However often a request is posted again, over crashes and lost answers, its key makes
\* one batch and one package (requireAgentIdempotency, reserveCodePackage).
THEOREM KeysCorrect == PackagesSpec => []OneBatchPerKey
<1>1. PackagesInit => PackagesInv
  BY BatchInvInit, FilesInvInit DEF PackagesInv
<1> QED BY <1>1, PackagesInvStep, PackagesInvImplies, PTL DEF PackagesSpec

\* Every exported file has all the codes of its package, whatever is deleted meanwhile.
THEOREM ExportsCorrect == PackagesSpec => []ExportsAreWhole
<1>1. PackagesInit => PackagesInv
  BY BatchInvInit, FilesInvInit DEF PackagesInv
<1> QED BY <1>1, PackagesInvStep, PackagesInvImplies, PTL DEF PackagesSpec

\* reserveImageArchive and releaseImageArchive count the archives a client waits for.
THEOREM SlotsCorrect == PackagesSpec => []SlotsMatch
<1>1. PackagesInit => PackagesInv
  BY BatchInvInit, FilesInvInit DEF PackagesInv
<1> QED BY <1>1, PackagesInvStep, PackagesInvImplies, PTL DEF PackagesSpec

-----------------------------------------------------------------------------
(* The public page, prizes and alerts *)

EntryRows == [made : BOOLEAN, stage : Stages \cup {Blank}, template : Stages \cup {Blank},
              revises : Entries \cup {Blank}, published : BOOLEAN]
MarketingRows == [text : 0..MaxText, enabled : BOOLEAN,
                  review : {"none", "pending", "approved", "rejected"}]
ItemRows == [boxed : BOOLEAN, shipped : BOOLEAN, void : BOOLEAN]
AlertRows == [status : {"none", "open", "handled"}, item : Goods \cup {Blank},
              covered : Territories \cup {Blank}, location : Texts \cup {Blank}, level : 0..2]

ContentTypes ==
  /\ batch \in {"none", "draft", "published"}
  /\ entries \in [Entries -> EntryRows]
  /\ templates \in [Stages -> {"none", "on", "off"}]
  /\ marketing \in MarketingRows /\ approved \subseteq 1..MaxText
ScanTypes ==
  /\ territory \in Territories /\ goods \in [Goods -> ItemRows]
  /\ scans \in [Goods -> 0..MaxScans] /\ cleared \in [Goods -> Nat]
  /\ campaigns \in [Campaigns -> {"none", "on", "off", "deleted"}]
  /\ prizes \in [Goods \X Campaigns -> Nat]
AlertTypes == alerts \in [Alerts -> AlertRows]

\* Shown or not, what has the review "approved" was approved since its last edit.
ReviewTrue == marketing.review = "approved" => marketing.text \in approved
TemplatesThere == \A e \in Entries :
  entries[e].template # Blank => templates[entries[e].template] # "none"
ContentInv == ContentTypes /\ ReviewTrue /\ TemplatesThere

\* An item that is not verified, or no more, has won less than it may in the end.
Won(i) == {c \in Campaigns : prizes[<<i, c>>] > 0}
PrizesOK(i) ==
  /\ \A c \in Campaigns : prizes[<<i, c>>] <= 1
  /\ Cardinality(Won(i)) <= cleared[i] + (IF scans[i] > 0 THEN 1 ELSE 0)
ScanInv == ScanTypes /\ \A i \in Goods : PrizesOK(i)

AlertInv == AlertTypes /\ territory \in Territories /\ AlertsAreTrue

PublicInv == ContentInv /\ ScanInv /\ AlertInv

-----------------------------------------------------------------------------
(* The page *)

LEMMA NewEntryRow ==
  ASSUME ContentTypes, NEW s \in Stages, NEW r \in Entries \cup {Blank}, NEW p \in BOOLEAN
  PROVE  /\ \A e : NewEntry(e, s, r, p) \in EntryRows
         /\ \A e : NewEntry(e, s, r, p).template # Blank =>
                     templates[NewEntry(e, s, r, p).template] # "none"
BY DEF NewEntry, EntryRows

LEMMA PublishedRows ==
  ASSUME NEW table \in [Entries -> EntryRows]
  PROVE  /\ Published(table) \in [Entries -> EntryRows]
         /\ \A e \in Entries : Published(table)[e].template = table[e].template
<1>1. \A e \in Entries : [table[e] EXCEPT !.published = table[e].made] \in EntryRows
  BY DEF EntryRows
<1>2. \A e \in Entries : [table[e] EXCEPT !.published = table[e].made].template = table[e].template
  BY DEF EntryRows
<1> QED BY <1>1, <1>2 DEF Published

LEMMA ContentStep ==
  ASSUME ContentInv, Edit
  PROVE  ContentInv'
<1> USE DEF ContentInv
<1>1. ASSUME NEW S \in SUBSET Stages, replaceTraceTemplate(S) PROVE ContentInv'
  <2>1. templates' \in [Stages -> {"none", "on", "off"}] /\ UNCHANGED <<batch, entries, marketing, approved>>
    BY <1>1 DEF replaceTraceTemplate
  <2>2. TemplatesThere'
    <3> SUFFICES ASSUME NEW e \in Entries, entries[e].template # Blank
                 PROVE  templates'[entries[e].template] # "none"
      BY <2>1 DEF TemplatesThere
    <3>1. entries[e].template \in Stages /\ templates[entries[e].template] # "none"
      BY DEF ContentTypes, EntryRows, TemplatesThere
    <3> QED BY <1>1, <3>1 DEF replaceTraceTemplate
  <2> QED BY <2>1, <2>2 DEF ContentTypes, ReviewTrue
<1>2. CASE createProductBatch
  BY <1>2 DEF createProductBatch, ContentTypes, ReviewTrue, TemplatesThere
<1>3. CASE publishBatch
  <2>1. entries \in [Entries -> EntryRows] /\ entries' = Published(entries) /\ batch' = "published"
        /\ UNCHANGED <<templates, marketing, approved>>
    BY <1>3 DEF publishBatch, ContentTypes
  <2> QED BY <2>1, PublishedRows DEF ContentTypes, ReviewTrue, TemplatesThere
<1>4. ASSUME NEW e \in Entries, NEW s \in Stages, NEW r \in Entries \cup {Blank},
             NEW p \in BOOLEAN, appendTraceEntry(e, s, r, p)
      PROVE  ContentInv'
  <2>1. entries' = [entries EXCEPT ![e] = NewEntry(e, s, r, p)]
        /\ UNCHANGED <<batch, templates, marketing, approved>>
    BY <1>4 DEF appendTraceEntry
  <2> QED BY <2>1, NewEntryRow DEF ContentTypes, ReviewTrue, TemplatesThere
<1>5. ASSUME NEW e \in Entries, PublishByPackage(e) PROVE ContentInv'
  <2> DEFINE origin == \E x \in Entries : entries[x].made /\ entries[x].stage = Origin
             entries1 == IF origin THEN entries
                         ELSE [entries EXCEPT ![e] = NewEntry(e, Origin, Blank, TRUE)]
  <2>1. Origin \in Stages
    BY PublicAssumption DEF PublicAssumption
  <2>2. /\ entries1 \in [Entries -> EntryRows]
        /\ \A x \in Entries : entries1[x].template # Blank => templates[entries1[x].template] # "none"
    BY <2>1, NewEntryRow DEF ContentTypes, TemplatesThere
  <2>3. entries' = (IF batch = "published" THEN entries1 ELSE Published(entries1))
        /\ batch' = "published" /\ UNCHANGED <<templates, marketing, approved>>
    BY <1>5 DEF PublishByPackage
  <2> HIDE DEF entries1
  <2>4. CASE batch = "published"
    BY <2>2, <2>3, <2>4 DEF ContentTypes, ReviewTrue, TemplatesThere
  <2>5. CASE batch # "published"
    BY <2>2, <2>3, <2>5, PublishedRows DEF ContentTypes, ReviewTrue, TemplatesThere
  <2> QED BY <2>4, <2>5
<1>6. ASSUME NEW enabled \in BOOLEAN, saveMarketing(enabled) PROVE ContentInv'
  <2>1. marketing.text + 1 \in 0..MaxText
    BY <1>6, PublicAssumption DEF PublicAssumption, saveMarketing, ContentTypes, MarketingRows
  <2> QED BY <1>6, <2>1 DEF saveMarketing, ContentTypes, MarketingRows, ReviewTrue, TemplatesThere
<1>7. ASSUME NEW status \in {"approved", "rejected"}, reviewMarketing(status) PROVE ContentInv'
  <2>1. /\ marketing' \in MarketingRows
        /\ marketing'.text = marketing.text /\ marketing'.review = status
        /\ marketing.text \in 1..MaxText
    BY <1>7 DEF reviewMarketing, ContentTypes, MarketingRows
  <2> QED BY <1>7, <2>1 DEF reviewMarketing, ContentTypes, ReviewTrue, TemplatesThere
<1> QED BY <1>1, <1>2, <1>3, <1>4, <1>5, <1>6, <1>7 DEF Edit

-----------------------------------------------------------------------------
(* Prizes *)

LEMMA CampaignsFinite == IsFiniteSet(Campaigns)
<1>1. 1 \in Int /\ MaxCampaign \in Int
  BY PublicAssumption DEF PublicAssumption
<1> QED BY <1>1, FS_Interval DEF Campaigns

LEMMA WonFinite ==
  ASSUME NEW i
  PROVE  IsFiniteSet(Won(i)) /\ Cardinality(Won(i)) \in Nat
BY CampaignsFinite, FS_Subset, FS_CardinalityType DEF Won

\* A prize of one campaign, for an item that has none of it.
LEMMA OneMore ==
  ASSUME ScanInv, NEW i \in Goods, NEW m, prizes[<<i, m>>] = 0,
         prizes' = [prizes EXCEPT ![<<i, m>>] = @ + 1]
  PROVE  /\ prizes' \in [Goods \X Campaigns -> Nat]
         /\ \A c \in Campaigns : prizes'[<<i, c>>] <= 1
         /\ Cardinality(Won(i)') <= Cardinality(Won(i)) + 1
         /\ \A j \in Goods \ {i} : \A c \in Campaigns : prizes'[<<j, c>>] = prizes[<<j, c>>]
<1> USE DEF ScanInv, ScanTypes, PrizesOK
<1>1. prizes \in [Goods \X Campaigns -> Nat]
  OBVIOUS
<1>2. \A j \in Goods, c \in Campaigns :
        prizes'[<<j, c>>] = IF j = i /\ c = m THEN 1 ELSE prizes[<<j, c>>]
  <2>1. \A x \in Goods \X Campaigns : prizes'[x] = IF x = <<i, m>> THEN 1 ELSE prizes[x]
    BY <1>1
  <2> QED BY <2>1
<1>3. prizes' \in [Goods \X Campaigns -> Nat]
  <2>1. ASSUME NEW x \in Goods \X Campaigns PROVE prizes'[x] \in Nat
    <3>1. prizes[x] \in Nat /\ prizes[x] + 1 \in Nat
      BY <1>1
    <3>2. prizes'[x] = IF x = <<i, m>> THEN prizes[x] + 1 ELSE prizes[x]
      BY <1>1
    <3> QED BY <3>1, <3>2
  <2> QED BY <1>1, <2>1
<1>4. Won(i)' \subseteq Won(i) \cup {m}
  BY <1>2 DEF Won
<1>5. /\ IsFiniteSet(Won(i) \cup {m}) 
      /\ Cardinality(Won(i) \cup {m}) \in {Cardinality(Won(i)), Cardinality(Won(i)) + 1}
  BY WonFinite, FS_AddElement
<1>6. Cardinality(Won(i)') <= Cardinality(Won(i) \cup {m})
  BY <1>4, <1>5, FS_Subset
<1>7. Cardinality(Won(i)') \in Nat /\ Cardinality(Won(i)) \in Nat
  <2>1. IsFiniteSet(Won(i)')
    BY <1>4, <1>5, FS_Subset
  <2> QED BY <2>1, FS_CardinalityType, WonFinite
<1>8. Cardinality(Won(i)') <= Cardinality(Won(i)) + 1
  BY <1>5, <1>6, <1>7
<1>9. \A c \in Campaigns : prizes'[<<i, c>>] <= 1
  BY <1>2
<1> QED BY <1>2, <1>3, <1>8, <1>9

LEMMA DrawKeeps ==
  ASSUME ScanInv, NEW i \in Goods, FirstScan(i), drawPrize(i),
         scans' = [scans EXCEPT ![i] = @ + 1], cleared' = cleared, scans[i] < MaxScans
  PROVE  prizes' \in [Goods \X Campaigns -> Nat] /\ \A j \in Goods : PrizesOK(j)'
<1> USE DEF ScanInv, ScanTypes
<1>1. /\ scans[i] = 0 /\ scans'[i] = 1 /\ cleared[i] \in Nat
      /\ \A j \in Goods \ {i} : scans'[j] = scans[j]
      /\ prizes \in [Goods \X Campaigns -> Nat]
  BY DEF FirstScan
<1>2. \A j \in Goods : Cardinality(Won(j)) \in Nat
  BY WonFinite
<1>3. CASE UNCHANGED prizes
  <2> SUFFICES ASSUME NEW j \in Goods PROVE PrizesOK(j)'
    BY <1>1, <1>3
  <2>1. Won(j)' = Won(j)
    BY <1>3 DEF Won
  <2> QED BY <1>1, <1>2, <1>3, <2>1 DEF PrizesOK
<1>4. CASE ~UNCHANGED prizes
  <2> DEFINE m == Max({c \in Campaigns : campaigns[c] = "on"})
  <2>1. prizes' = [prizes EXCEPT ![<<i, m>>] = @ + 1] /\ ~(prizes[<<i, m>>] > 0)
    BY <1>4 DEF drawPrize
  <2> HIDE DEF m
  <2>2. <<i, m>> \in Goods \X Campaigns
    BY <1>1, <1>4, <2>1
  <2>3. prizes[<<i, m>>] = 0
    BY <1>1, <2>1, <2>2
  <2>4. /\ prizes' \in [Goods \X Campaigns -> Nat]
        /\ \A c \in Campaigns : prizes'[<<i, c>>] <= 1
        /\ Cardinality(Won(i)') <= Cardinality(Won(i)) + 1
        /\ \A j \in Goods \ {i} : \A c \in Campaigns : prizes'[<<j, c>>] = prizes[<<j, c>>]
    BY <2>1, <2>3, OneMore
  <2>5. Cardinality(Won(i)') \in Nat
    <3>1. Won(i)' \subseteq Campaigns
      BY DEF Won, Campaigns
    <3> QED BY <3>1, CampaignsFinite, FS_Subset, FS_CardinalityType
  <2>6. PrizesOK(i)'
    <3>1. Cardinality(Won(i)) <= cleared[i]
      BY <1>1, <1>2 DEF PrizesOK
    <3>2. Cardinality(Won(i)') <= cleared[i] + 1
      BY <1>1, <1>2, <2>4, <2>5, <3>1
    <3> QED BY <1>1, <2>4, <3>2 DEF PrizesOK
  <2>7. ASSUME NEW j \in Goods \ {i} PROVE PrizesOK(j)'
    <3>1. Won(j)' = Won(j)
      BY <2>4 DEF Won, Campaigns
    <3> QED BY <1>1, <2>4, <3>1 DEF PrizesOK, Campaigns
  <2> QED BY <2>4, <2>6, <2>7
<1> QED BY <1>3, <1>4

\* Steps that leave prizes alone, and of which each keeps what counts for them.
LEMMA PrizesKept ==
  ASSUME ScanInv, ScanTypes', UNCHANGED prizes,
         \A i \in Goods : \/ scans'[i] >= scans[i] /\ cleared'[i] = cleared[i]
                          \/ scans'[i] > 0 /\ cleared'[i] = cleared[i]
                          \/ cleared'[i] = cleared[i] + 1
  PROVE  ScanInv'
<1> SUFFICES ASSUME NEW i \in Goods PROVE PrizesOK(i)'
  BY DEF ScanInv
<1>1. Won(i)' = Won(i) /\ Cardinality(Won(i)) \in Nat
  BY WonFinite DEF Won
<1>2. scans[i] \in Nat /\ scans'[i] \in Nat /\ cleared[i] \in Nat /\ PrizesOK(i)
  BY PublicAssumption DEF PublicAssumption, ScanInv, ScanTypes
<1> QED BY <1>1, <1>2 DEF PrizesOK

LEMMA ScanStep ==
  ASSUME ScanInv, Scanning
  PROVE  ScanInv'
<1> USE DEF ScanInv
<1>0. MaxScans \in Nat
  BY PublicAssumption DEF PublicAssumption
<1>1. ASSUME NEW i \in Goods, NEW s \in Texts \cup {Blank}, NEW a \in Alerts, Verify(i, s, a)
      PROVE  ScanInv'
  <2>1. /\ scans[i] < MaxScans /\ scans' = [scans EXCEPT ![i] = @ + 1]
        /\ UNCHANGED <<territory, goods, cleared, campaigns>>
    BY <1>1 DEF Verify
  <2>2. scans' \in [Goods -> 0..MaxScans]
    BY <1>0, <2>1 DEF ScanTypes
  <2>3. CASE FirstScan(i)
    <3>1. drawPrize(i)
      BY <1>1, <2>3 DEF Verify
    <3> QED BY <2>1, <2>2, <2>3, <3>1, DrawKeeps DEF ScanTypes
  <2>4. CASE ~FirstScan(i)
    <3>1. UNCHANGED prizes
      BY <1>1, <2>4 DEF Verify
    <3>2. ScanTypes' /\ \A j \in Goods : scans'[j] >= scans[j] /\ cleared'[j] = cleared[j]
      BY <1>0, <2>1, <2>2, <3>1 DEF ScanTypes
    <3> QED BY <3>1, <3>2, PrizesKept
  <2> QED BY <2>3, <2>4
<1>2. ASSUME NEW i \in Goods, NEW n \in 1..MaxScans, DeleteScanLogs(i, n) PROVE ScanInv'
  <2>1. /\ n \in 1..scans[i] /\ scans' = [scans EXCEPT ![i] = @ - n]
        /\ cleared' = [cleared EXCEPT ![i] = IF n = scans[i] THEN @ + 1 ELSE @]
        /\ UNCHANGED <<territory, goods, campaigns, prizes>>
    BY <1>2 DEF DeleteScanLogs
  <2>2. ScanTypes'
    BY <1>0, <2>1 DEF ScanTypes
  <2>3. \A j \in Goods : \/ scans'[j] >= scans[j] /\ cleared'[j] = cleared[j]
                         \/ scans'[j] > 0 /\ cleared'[j] = cleared[j]
                         \/ cleared'[j] = cleared[j] + 1
    BY <1>0, <2>1 DEF ScanTypes
  <2> QED BY <2>1, <2>2, <2>3, PrizesKept
<1>3. ASSUME UNCHANGED <<scans, cleared, prizes>>, ScanTypes' PROVE ScanInv'
  <2>1. \A j \in Goods : scans'[j] >= scans[j] /\ cleared'[j] = cleared[j]
    BY <1>0, <1>3 DEF ScanTypes
  <2> QED BY <1>3, <2>1, PrizesKept
<1>4. ASSUME NEW i \in Goods, NEW b \in BOOLEAN, NEW s \in BOOLEAN, NEW v \in BOOLEAN,
             Handle(i, b, s, v)
      PROVE  ScanInv'
  <2>1. goods' \in [Goods -> ItemRows]
    BY <1>4 DEF Handle, ScanTypes, ItemRows
  <2> QED BY <1>3, <1>4, <2>1 DEF Handle, ScanTypes
<1>5. ASSUME NEW c \in Campaigns,
             (\E status \in {"on", "off"} : SetCampaign(c, status)) \/ DeleteCampaign(c)
      PROVE  ScanInv'
  BY <1>3, <1>5 DEF SetCampaign, DeleteCampaign, ScanTypes
<1>6. ASSUME (\E S \in SUBSET Alerts : HandleAlerts(S)) \/ (\E a \in Alerts : DeleteAlert(a))
      PROVE  ScanInv'
  BY <1>3, <1>6 DEF HandleAlerts, DeleteAlert, ScanTypes
<1>7. ASSUME NEW t \in Territories, SetTerritory(t) PROVE ScanInv'
  BY <1>3, <1>7 DEF SetTerritory, ScanTypes
<1> QED BY <1>1, <1>2, <1>4, <1>5, <1>6, <1>7 DEF Scanning

-----------------------------------------------------------------------------
(* Alerts *)

\* A plain text has one key, which is the first.
LEMMA PlainProvince ==
  ASSUME NEW s \in Texts, Plain(s)
  PROVE  getProvinceName(s) = Where[s].province /\ Where[s].province # Blank
<1> DEFINE p == Where[s].province
<1>1. p # Blank /\ Names[s].provinces = {p} /\ p \in Nat
  <2>1. Names[s] \in [provinces : SUBSET Provinces, cities : SUBSET Cities]
    BY PublicAssumption DEF PublicAssumption
  <2> QED BY <2>1, PublicAssumption DEF Plain, PublicAssumption
<1> HIDE DEF p
<1>2. \A x \in {p} : x = p
  OBVIOUS
<1>3. Min({p}) \in {p} /\ \A y \in {p} : Min({p}) <= y
  BY <1>1 DEF Min
<1>4. Min(Names[s].provinces) = p /\ Names[s].provinces # {}
  BY <1>1, <1>3
<1>5. getProvinceName(s) = Min(Names[s].provinces)
  BY <1>4 DEF getProvinceName
<1> QED BY <1>1, <1>4, <1>5 DEF p

\* What AlertsAreTrue says of an alert of a distributor that covers t.
TruthOf(t, s, level) ==
  /\ s # Blank /\ (t.regions = {} => t.text # Blank)
  /\ Plain(s) =>
       IF t.regions # {}
         THEN /\ \A r \in t.regions : ~Covers(r, s)
              /\ level = 1 <=> \E r \in t.regions : r.province = Where[s].province
         ELSE Plain(t.text) => (level = 1 <=> Where[t.text].province = Where[s].province)

LEMMA DetectionTrue ==
  ASSUME NEW t \in Territories, NEW s \in Texts \cup {Blank}, detectDiversion(t, s) # 0
  PROVE  TruthOf(t, s, detectDiversion(t, s))
<1>a. s # Blank /\ (t.regions = {} => t.text # Blank)
  BY DEF detectDiversion
<1> SUFFICES ASSUME Plain(s)
             PROVE  IF t.regions # {}
                      THEN /\ \A r \in t.regions : ~Covers(r, s)
                           /\ detectDiversion(t, s) = 1 <=>
                                \E r \in t.regions : r.province = Where[s].province
                      ELSE Plain(t.text) => (detectDiversion(t, s) = 1 <=>
                             Where[t.text].province = Where[s].province)
  BY <1>a DEF TruthOf
<1>0. s \in Texts /\ t.text \in Texts \cup {Blank}
  BY PublicAssumption DEF detectDiversion, PublicAssumption
<1>1. /\ getProvinceName(s) = Where[s].province /\ Where[s].province # Blank
      /\ Where[s].city # Blank => Where[s].city \in Names[s].cities
  BY <1>0, PlainProvince DEF Plain
<1>2. CASE t.regions # {}
  <2> DEFINE same == {r \in t.regions : r.province # Blank /\ r.province = getProvinceName(s)}
  <2>1. detectDiversion(t, s) = DetectByRegions(t.regions, s)
    BY <1>2 DEF detectDiversion
  <2>2. DetectByRegions(t.regions, s) =
          IF \E r \in same : r.city \in {Blank} \cup Names[s].cities THEN 0
          ELSE IF same # {} THEN 1 ELSE 2
    BY DEF DetectByRegions
  <2>3. \A r \in t.regions : r.province = Where[s].province <=> r \in same
    BY <1>1
  <2> HIDE DEF same
  <2>4. ~ \E r \in same : r.city \in {Blank} \cup Names[s].cities
    BY <2>1, <2>2
  <2>5. \A r \in t.regions : ~Covers(r, s)
    BY <1>1, <2>3, <2>4 DEF Covers
  <2>6. same \subseteq t.regions
    BY DEF same
  <2>7. detectDiversion(t, s) = 1 <=> same # {}
    BY <2>1, <2>2, <2>4
  <2> QED BY <1>2, <2>3, <2>5, <2>6, <2>7
<1>3. CASE t.regions = {}
  <2>1. t.text \in Texts /\ detectDiversion(t, s) = DetectByText(t.text, s)
    BY <1>0, <1>3 DEF detectDiversion
  <2> SUFFICES ASSUME Plain(t.text)
               PROVE  detectDiversion(t, s) = 1 <=> Where[t.text].province = Where[s].province
    BY <1>3
  <2>2. getProvinceName(t.text) = Where[t.text].province /\ Where[t.text].province # Blank
    BY <2>1, PlainProvince
  <2> QED BY <1>1, <2>1, <2>2 DEF DetectByText
<1> QED BY <1>2, <1>3

LEMMA DetectionLevel == \A t, s : detectDiversion(t, s) \in 0..2
BY DEF detectDiversion, DetectByRegions, DetectByText

AlertTrue(x) == x.status \in {"open", "handled"} => TruthOf(x.covered, x.location, x.level)

LEMMA AlertsTrue == AlertsAreTrue <=> \A a \in Alerts : AlertTrue(alerts[a])
BY DEF AlertsAreTrue, AlertTrue, TruthOf

LEMMA AlertStep ==
  ASSUME AlertInv, Scanning, ScanTypes
  PROVE  AlertInv'
<1> USE DEF AlertInv
<1>0. \A a \in Alerts : alerts[a] \in AlertRows /\ AlertTrue(alerts[a])
  BY AlertsTrue DEF AlertTypes
<1>a. ASSUME alerts' \in [Alerts -> AlertRows], territory' \in Territories,
             \A a \in Alerts : AlertTrue(alerts'[a])
      PROVE  AlertInv'
  <2>1. AlertsAreTrue'
    BY <1>a DEF AlertsAreTrue, AlertTrue, TruthOf, Covers, Plain
  <2> QED BY <1>a, <2>1 DEF AlertTypes
<1>1. ASSUME NEW i \in Goods, NEW s \in Texts \cup {Blank}, NEW a \in Alerts, Verify(i, s, a)
      PROVE  AlertInv'
  <2>1. UNCHANGED territory /\ territory \in Territories
    BY <1>1 DEF Verify
  <2>2. CASE UNCHANGED alerts
    BY <1>0, <1>a, <2>1, <2>2 DEF AlertTypes
  <2>3. CASE ~UNCHANGED alerts
    <3> DEFINE level == detectDiversion(territory, s)
               x == [status |-> "open", item |-> i, covered |-> territory,
                     location |-> s, level |-> level]
    <3>1. level # 0 /\ alerts' = [alerts EXCEPT ![a] = x]
      BY <1>1, <2>3 DEF Verify
    <3>2. level \in 0..2
      BY DetectionLevel
    <3>3. AlertTrue(x)
      BY <2>1, <3>1, DetectionTrue DEF AlertTrue
    <3>4. x \in AlertRows
      BY <2>1, <3>2 DEF AlertRows
    <3> HIDE DEF x
    <3> QED BY <1>0, <1>a, <2>1, <3>1, <3>3, <3>4 DEF AlertTypes
  <2> QED BY <2>2, <2>3
<1>2. ASSUME NEW S \in SUBSET Alerts, HandleAlerts(S) PROVE AlertInv'
  <2>1. UNCHANGED territory /\ alerts' = [a \in Alerts |->
          IF a \in S THEN [alerts[a] EXCEPT !.status = "handled"] ELSE alerts[a]]
    BY <1>2 DEF HandleAlerts
  <2>2. \A a \in S : alerts[a].status \in {"open", "handled"}
    BY <1>2 DEF HandleAlerts
  <2>3. ASSUME NEW a \in S
        PROVE  /\ [alerts[a] EXCEPT !.status = "handled"] \in AlertRows
               /\ AlertTrue([alerts[a] EXCEPT !.status = "handled"])
    <3> DEFINE y == [alerts[a] EXCEPT !.status = "handled"]
    <3>1. /\ y \in AlertRows /\ y.covered = alerts[a].covered
          /\ y.location = alerts[a].location /\ y.level = alerts[a].level
      BY <1>0 DEF AlertRows
    <3> HIDE DEF y
    <3>2. AlertTrue(y)
      BY <1>0, <2>2, <3>1 DEF AlertTrue
    <3> QED BY <3>1, <3>2 DEF y
  <2> QED BY <1>0, <1>a, <2>1, <2>3
<1>3. ASSUME NEW b \in Alerts, DeleteAlert(b) PROVE AlertInv'
  <2>1. UNCHANGED territory /\ alerts' = [alerts EXCEPT ![b] = NoAlert]
    BY <1>3 DEF DeleteAlert
  <2>2. NoAlert \in AlertRows /\ AlertTrue(NoAlert)
    BY DEF NoAlert, AlertRows, AlertTrue
  <2> QED BY <1>0, <1>a, <2>1, <2>2 DEF AlertTypes
<1>4. CASE UNCHANGED alerts /\ territory' \in Territories
  BY <1>0, <1>a, <1>4 DEF AlertTypes
<1> QED BY <1>1, <1>2, <1>3, <1>4 DEF Scanning, DeleteScanLogs, Handle, SetCampaign,
           DeleteCampaign, SetTerritory

-----------------------------------------------------------------------------
(* Together *)

LEMMA PublicInvInit == PublicInit => PublicInv
<1> SUFFICES ASSUME PublicInit PROVE PublicInv
  OBVIOUS
<1>0. MaxCampaign \in Nat /\ MaxText \in Nat /\ MaxScans \in Nat
  BY PublicAssumption DEF PublicAssumption
<1>1. ContentInv
  BY <1>0 DEF PublicInit, ContentInv, ContentTypes, ReviewTrue, TemplatesThere, NoEntry,
     EntryRows, MarketingRows
<1>2. ScanTypes
  BY <1>0 DEF PublicInit, ScanTypes, ItemRows
<1>3. \A i \in Goods : PrizesOK(i)
  <2> SUFFICES ASSUME NEW i \in Goods PROVE PrizesOK(i)
    OBVIOUS
  <2>1. Won(i) = {}
    BY DEF PublicInit, Won
  <2> QED BY <2>1, FS_EmptySet DEF PublicInit, PrizesOK
<1>4. AlertInv
  <2>1. NoAlert \in AlertRows /\ AlertTrue(NoAlert)
    BY DEF NoAlert, AlertRows, AlertTrue
  <2>2. \A a \in Alerts : alerts[a] = NoAlert
    BY DEF PublicInit
  <2> QED BY <2>1, <2>2, AlertsTrue DEF PublicInit, AlertInv, AlertTypes
<1> QED BY <1>1, <1>2, <1>3, <1>4 DEF PublicInv, ScanInv

LEMMA PublicStep == PublicInv /\ [PublicNext]_publicVars => PublicInv'
<1> SUFFICES ASSUME PublicInv, [PublicNext]_publicVars PROVE PublicInv'
  OBVIOUS
<1>1. ASSUME UNCHANGED contentVars PROVE ContentInv'
  BY <1>1 DEF PublicInv, ContentInv, ContentTypes, ReviewTrue, TemplatesThere, contentVars
<1>2. ASSUME UNCHANGED scanVars PROVE ScanInv' /\ AlertInv'
  <2>1. \A i \in Goods : Won(i)' = Won(i)
    BY <1>2 DEF Won, scanVars
  <2>2. ScanInv'
    BY <1>2, <2>1 DEF PublicInv, ScanInv, ScanTypes, PrizesOK, scanVars
  <2>3. AlertInv'
    BY <1>2 DEF PublicInv, AlertInv, AlertTypes, AlertsAreTrue, Covers, Plain, scanVars
  <2> QED BY <2>2, <2>3
<1>3. CASE Edit
  <2>1. UNCHANGED scanVars
    BY <1>3 DEF Edit, replaceTraceTemplate, createProductBatch, publishBatch,
       appendTraceEntry, PublishByPackage, saveMarketing, reviewMarketing
  <2> QED BY <1>2, <1>3, <2>1, ContentStep DEF PublicInv
<1>4. CASE Scanning
  <2>1. UNCHANGED contentVars
    BY <1>4 DEF Scanning, Verify, DeleteScanLogs, Handle, SetCampaign, DeleteCampaign,
       HandleAlerts, DeleteAlert, SetTerritory
  <2> QED BY <1>1, <1>4, <2>1, ScanStep, AlertStep DEF PublicInv, ScanInv
<1>5. CASE UNCHANGED publicVars
  BY <1>1, <1>2, <1>5 DEF publicVars, PublicInv
<1> QED BY <1>3, <1>4, <1>5 DEF PublicNext

LEMMA PublicInvariant == PublicSpec => []PublicInv
BY PublicInvInit, PublicStep, PTL DEF PublicSpec

-----------------------------------------------------------------------------
(* Theorems *)

\* Whatever is edited after an approval, and approved after an edit, the page shows a
\* promotion only in the text that was approved, and the trace's stages are in the template.
THEOREM PageCorrect == PublicSpec => []PageIsCleared
<1>1. PublicInv => PageIsCleared
  BY DEF PublicInv, ContentInv, ScanInv, AlertInv, ContentTypes, ScanTypes, AlertTypes,
     PublicTypeOK, PageIsCleared, ReviewTrue, TemplatesThere, ShownMarketing, EntryRows,
     MarketingRows, ItemRows, AlertRows
<1> QED BY <1>1, PublicInvariant, PTL

\* However scan logs are deleted and campaigns come and go, an item draws at its first
\* verification only, and never wins twice under one campaign.
THEOREM PrizesCorrect == PublicSpec => []PrizesAreFirstScans
<1>1. PublicInv => PrizesAreFirstScans
  <2> SUFFICES ASSUME PublicInv, NEW i \in Goods
               PROVE  /\ \A c \in Campaigns : prizes[<<i, c>>] <= 1
                      /\ Cardinality(Won(i)) <= 1 + cleared[i]
    BY DEF PrizesAreFirstScans, Won
  <2>1. Cardinality(Won(i)) \in Nat /\ cleared[i] \in Nat /\ PrizesOK(i)
    BY WonFinite DEF PublicInv, ScanInv, ScanTypes
  <2> QED BY <2>1 DEF PrizesOK
<1> QED BY <1>1, PublicInvariant, PTL

\* An alert stays true of what its distributor covered when the code was scanned, as long
\* as the texts name their own provinces and cities.
THEOREM AlertsCorrect == PublicSpec => []AlertsAreTrue
<1>1. PublicInv => AlertsAreTrue
  BY DEF PublicInv, AlertInv
<1> QED BY <1>1, PublicInvariant, PTL
=============================================================================
