------------------------------ MODULE MCLegacy ------------------------------
(***************************************************************************)
(* The parts of the legacy server share no variables, so that a behaviour  *)
(* is about one of them, and the others stay as they begin.  Tenants: the  *)
(* catalogue or the accounts of two brands.  Packages: two requests under  *)
(* one key, with different bodies.  Public: the page is edited, or items   *)
(* are scanned, at places of two provinces.  Stock: a blank box and one    *)
(* printed for a product, blank items and one printed for a lot of it, and *)
(* two batches; some of them were deleted at the start, or all items have  *)
(* been looked up.                                                         *)
(***************************************************************************)
EXTENDS LegacyTenants, LegacyPackages, LegacyPublic, LegacyStock, TLC

CONSTANTS f1, f2, p1, k1, r1, r2, b1, b2, i1, i2, i3

VARIABLE about

MCKeyOf == r1 :> k1 @@ r2 :> k1
MCBodyOf == r1 :> "one" @@ r2 :> "other"

\* Places in the order of PROVINCE_KEYS.
Beijing == 1
Zhejiang == 16
Guangdong == 24
MCProvinces == {Beijing, Zhejiang, Guangdong}
MCCities == {"Shenzhen", "Guangzhou", "Hangzhou"}
MCTexts == {"Guangdong Shenzhen", "Guangdong-sheng Shenzhen-shi", "Zhejiang Hangzhou",
            "Guangdong Guangzhou Beijing-lu", "Shenzhen"}

Place(p, c) == [province |-> p, city |-> c]
MCWhere == [s \in MCTexts |->
  CASE s = "Zhejiang Hangzhou" -> Place(Zhejiang, "Hangzhou")
    [] s = "Guangdong Guangzhou Beijing-lu" -> Place(Guangdong, "Guangzhou")
    [] OTHER -> Place(Guangdong, "Shenzhen")]
MCNames == [s \in MCTexts |->
  [provinces |-> CASE s = "Shenzhen" -> {}
                   [] s = "Guangdong Guangzhou Beijing-lu" -> {Beijing, Guangdong}
                   [] OTHER -> {MCWhere[s].province},
   cities |-> {MCWhere[s].city}]]
MCIncludes == {<<s, s>> : s \in MCTexts} \cup
  {<<"Guangdong Shenzhen", "Shenzhen">>, <<"Guangdong-sheng Shenzhen-shi", "Shenzhen">>}

\* Two cities, a city and a province, a city of no province, a text, nothing.
MCTerritories ==
  {[regions |-> {Place(Guangdong, "Shenzhen"), Place(Guangdong, "Guangzhou")}, text |-> Blank],
   [regions |-> {Place(Guangdong, "Guangzhou"), Place(Zhejiang, Blank)}, text |-> Blank],
   [regions |-> {Place(Blank, "Shenzhen")}, text |-> Blank],
   [regions |-> {}, text |-> "Guangdong Shenzhen"],
   [regions |-> {}, text |-> Blank]}
AnyTerritory == CHOOSE t \in MCTerritories : t.regions = {} /\ t.text = Blank

MCFactoriesFor == [p \in StockProducts |-> StockFactories]
MCProductSize == [p \in StockProducts |-> 2]
MCPrinted == [c \in StockCodes |->
  [product |-> IF c \in {b2, i3} THEN "feed" ELSE Null,
   batch |-> IF c = i3 THEN "LOT-1" ELSE Null]]
Scenarios == {[codes |-> {b1, b2, i1}, seen |-> {}],
              [codes |-> {b2, i1, i3}, seen |-> {}],
              [codes |-> {b1, i1, i2, i3}, seen |-> {i1, i2, i3}]}

MCVars == <<about, tenantsVars, packagesVars, publicVars, boxVars>>

MCInit ==
  /\ about \in {"catalogue", "accounts", "packages", "page", "scans", "stock"}
  /\ TenantsInitWith(CASE about = "catalogue" -> Users \cup Invitations
                       [] about = "accounts" -> Products
                       [] OTHER -> {})
  /\ PackagesInit /\ PublicInit
  /\ about # "scans" => territory = AnyTerritory
  /\ \/ about # "stock" /\ StockInit
     \/ about = "stock" /\ \E s \in Scenarios : StockInitWith(StockCodes \ s.codes, s.seen)

MCNext ==
  /\ UNCHANGED about
  /\ \/ /\ about \in {"catalogue", "accounts"} /\ TenantsNext
        /\ UNCHANGED <<packagesVars, publicVars, boxVars>>
     \/ /\ about = "packages" /\ PackagesNext
        /\ UNCHANGED <<tenantsVars, publicVars, boxVars>>
     \/ about = "page" /\ Edit /\ UNCHANGED <<tenantsVars, packagesVars, boxVars>>
     \/ about = "scans" /\ Scanning /\ UNCHANGED <<tenantsVars, packagesVars, boxVars>>
     \/ /\ about = "stock" /\ StockNext
        /\ UNCHANGED <<tenantsVars, packagesVars, publicVars>>

MCSpec == MCInit /\ [][MCNext]_MCVars
MCSymmetry == Permutations(Factories) \cup Permutations({i1, i2})
=============================================================================
