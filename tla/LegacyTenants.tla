--------------------------- MODULE LegacyTenants ---------------------------
(***************************************************************************)
(* Brands, factories, products and accounts of the legacy server, and how  *)
(* they refer to each other: a factory has a primary brand (a column) and  *)
(* links to brands (a table), a product a main factory (a column) and      *)
(* authorised ones (a table), and both are kept by handlers, by cascades,  *)
(* and by the backfill of every start.  Few of these references are        *)
(* foreign keys of the schema; the handlers refuse what would break them.  *)
(*                                                                         *)
(* A handler is synchronous and is one action; a refused one is no action. *)
(* A row that was deleted is never created again (AUTOINCREMENT).  What    *)
(* brand administrators may do to their own brand the platform's may do to *)
(* any.  The role "brand" stands for brand, brand_staff and warehouse,     *)
(* which refer to a brand only; distributors and their accounts are left   *)
(* out.  Codes are the receipts of LegacyStock: where one was received and *)
(* whether it is in stock.                                                 *)
(***************************************************************************)
EXTENDS Naturals

CONSTANTS Brands, Factories, Products, Codes, Users, Invitations, None

ASSUME TenantAssumption ==
  Brands \subseteq Nat /\ None \notin Brands \cup Factories \cup Products

VARIABLES
  server,       \* "new" before the first start, "up", or "failed": its start threw
  brands, factories, products,
  links,        \* factory_brands
  authorised,   \* product_factories
  codes,
  packed,       \* the factories that pack_records names
  users, invitations,
  tokens        \* a user's rows of agent_tokens: live, expired or revoked, or none

orgVars == <<brands, factories, links>>
productVars == <<products, authorised>>
stockVars == <<codes, packed>>
accountVars == <<users, invitations, tokens>>
tenantsVars == <<server, orgVars, productVars, stockVars, accountVars>>

\* Rows; "absent" is not created yet.
Factory == [status : {"absent", "on", "archived", "deleted"}, brand : Brands \cup {None}]
Product == [status : {"absent", "live", "deleted"}, brand : Brands \cup {None},
            main : Factories \cup {None}]
Code == [status : {"blank", "received", "shipped", "returned"},
         product : Products \cup {None}, factory : Factories \cup {None}]
User == [status : {"absent", "on", "off", "deleted"}, role : {"brand", "factory"},
         brand : Brands \cup {None}, factory : Factories \cup {None}]
Invitation == [status : {"absent", "unused", "used", "revoked", "deleted"},
               role : {"brand", "factory"},
               brand : Brands \cup {None}, factory : Factories \cup {None}]

BlankCode == [status |-> "blank", product |-> None, factory |-> None]
NoUser == [status |-> "absent", role |-> "brand", brand |-> None, factory |-> None]

Unused(id, usedUp) == IF id \in usedUp THEN "deleted" ELSE "absent"

\* Some identifiers were used up before the database was emptied.
TenantsInitWith(usedUp) ==
  /\ server = "new"
  /\ brands = [b \in Brands |-> "absent"]
  /\ factories = [f \in Factories |-> [status |-> "absent", brand |-> None]]
  /\ products = [p \in Products |->
       [status |-> Unused(p, usedUp), brand |-> None, main |-> None]]
  /\ links = {} /\ authorised = {}
  /\ codes = [c \in Codes |-> BlankCode] /\ packed = {}
  /\ users = [u \in Users |-> [NoUser EXCEPT !.status = Unused(u, usedUp)]]
  /\ invitations = [i \in Invitations |-> [NoUser EXCEPT !.status = Unused(i, usedUp)]]
  /\ tokens = [u \in Users |-> "none"]

TenantsInit == TenantsInitWith({})

\* Brands are numbered as they are created.
NextBrand(b) == brands[b] = "absent" /\ \A c \in Brands : c < b => brands[c] # "absent"
BrandRow(b) == b \in Brands /\ brands[b] \in {"on", "off"}
FactoryRow(f) == f \in Factories /\ factories[f].status \in {"on", "archived"}
ProductRow(p) == p \in Products /\ products[p].status = "live"
UserRow(u) == users[u].status \in {"on", "off"}
InvitationRow(i) == invitations[i].status \in {"unused", "used", "revoked"}
Enabled(f) == f \in Factories /\ factories[f].status = "on"

factoryBelongsToBrand(f, b) ==
  FactoryRow(f) /\ (factories[f].brand = b \/ <<f, b>> \in links)

FactoriesOf(p) == {f \in Factories : <<p, f>> \in authorised}
factoryAssignedToProduct(f, p) ==
  f \in FactoriesOf(p) \/ (FactoriesOf(p) = {} /\ products[p].main = f)

\* Receipts that keep a factory from being removed.
InStock(c) == codes[c].status \in {"received", "returned"}
activeReceipts(f) == {c \in Codes : InStock(c) /\ codes[c].factory = f}

-----------------------------------------------------------------------------
(* Brands *)

\* Mutant: the primary brand is left as it is.
replaceLinksOnly(b, S) ==
  /\ \A f \in S : FactoryRow(f)
  /\ links' = {l \in links : l[2] # b} \cup (S \X {b})
  /\ UNCHANGED factories

\* The primary brand of a factory that is left out moves to another linked brand, if
\* possible an enabled one; without one the request is refused.
replaceBrandFactories(b, S) ==
  LET moved == {f \in Factories \ S : FactoryRow(f) /\ factories[f].brand = b}
      others(f) == {c \in Brands \ {b} : BrandRow(c) /\ <<f, c>> \in links}
      best(f) == IF \E c \in others(f) : brands[c] = "on"
                   THEN {c \in others(f) : brands[c] = "on"} ELSE others(f)
  IN /\ \A f \in S : FactoryRow(f)
     /\ links' = {l \in links : l[2] # b} \cup (S \X {b})
     /\ \E next \in [moved -> Brands] :
          /\ \A f \in moved : next[f] \in best(f)
          /\ factories' = [f \in Factories |->
               IF f \in moved THEN [factories[f] EXCEPT !.brand = next[f]]
               ELSE IF f \in S /\ factories[f].brand = None
                 THEN [factories[f] EXCEPT !.brand = b] ELSE factories[f]]

CreateBrand(b, S) ==
  /\ NextBrand(b)
  /\ replaceBrandFactories(b, S)
  /\ brands' = [brands EXCEPT ![b] = "on"]
  /\ UNCHANGED <<productVars, stockVars, accountVars>>

EditBrand(b, status) ==
  /\ BrandRow(b) /\ status \in {"on", "off"}
  /\ brands' = [brands EXCEPT ![b] = status]
  /\ \/ \E S \in SUBSET Factories : replaceBrandFactories(b, S)
     \/ UNCHANGED <<factories, links>>
  /\ UNCHANGED <<productVars, stockVars, accountVars>>

\* Mutant: invitations are not among the dependent tables.
DeleteBrandInvited(b) ==
  /\ BrandRow(b)
  /\ \A u \in Users : UserRow(u) => users[u].brand # b
  /\ \A f \in Factories : FactoryRow(f) => factories[f].brand # b /\ <<f, b>> \notin links
  /\ \A p \in Products : ProductRow(p) => products[p].brand # b
  /\ brands' = [brands EXCEPT ![b] = "deleted"]
  /\ UNCHANGED <<factories, links, productVars, stockVars, accountVars>>

\* Only a brand that no table names (the code looks at those left out here as well).
DeleteBrand(b) ==
  /\ BrandRow(b)
  /\ \A u \in Users : UserRow(u) => users[u].brand # b
  /\ \A f \in Factories : FactoryRow(f) => factories[f].brand # b /\ <<f, b>> \notin links
  /\ \A p \in Products : ProductRow(p) => products[p].brand # b
  /\ \A i \in Invitations : InvitationRow(i) => invitations[i].brand # b
  /\ brands' = [brands EXCEPT ![b] = "deleted"]
  /\ UNCHANGED <<factories, links, productVars, stockVars, accountVars>>

-----------------------------------------------------------------------------
(* Factories *)

CreateFactory(f, b) ==
  /\ factories[f].status = "absent" /\ brands[b] = "on"
  /\ factories' = [factories EXCEPT ![f] = [status |-> "on", brand |-> b]]
  /\ links' = links \cup {<<f, b>>}
  /\ UNCHANGED <<brands, productVars, stockVars, accountVars>>

\* Its links and products go, a product's next factory becomes the main one; one with
\* history is archived, that is disabled.
RemoveFactory(f) ==
  LET left(p) == FactoriesOf(p) \ {f} IN
  /\ factories' = [factories EXCEPT ![f].status =
       IF f \in packed \/ \E c \in Codes : codes[c].factory = f THEN "archived"
                                                                ELSE "deleted"]
  /\ links' = {l \in links : l[1] # f}
  /\ authorised' = {a \in authorised : a[2] # f}
  /\ \E main \in [Products -> Factories \cup {None}] :
       /\ \A p \in Products :
            IF products[p].main # f THEN main[p] = products[p].main
            ELSE IF left(p) = {} THEN main[p] = None ELSE main[p] \in left(p)
       /\ products' = [p \in Products |-> [products[p] EXCEPT !.main = main[p]]]
  /\ UNCHANGED <<brands, stockVars, accountVars>>

\* Mutant: stock that is there does not keep it.
DeleteFactoryStocked(f) ==
  /\ Enabled(f)
  /\ \A u \in Users : UserRow(u) => users[u].factory # f
  /\ RemoveFactory(f)

DeleteFactory(f) ==
  /\ Enabled(f)
  /\ \A u \in Users : UserRow(u) => users[u].factory # f
  /\ activeReceipts(f) = {}
  /\ RemoveFactory(f)

-----------------------------------------------------------------------------
(* Products and receipts *)

\* resolveProductFactories, and the trigger on product_factories.
MayProduce(S, b) == \A f \in S : Enabled(f) /\ factoryBelongsToBrand(f, b)
FirstOf(S, main) == IF S = {} THEN main = None ELSE main \in S

CreateProduct(p, b, S, main) ==
  /\ products[p].status = "absent" /\ brands[b] = "on"
  /\ MayProduce(S, b) /\ FirstOf(S, main)
  /\ products' = [products EXCEPT ![p] = [status |-> "live", brand |-> b, main |-> main]]
  /\ authorised' = authorised \cup ({p} \X S)
  /\ UNCHANGED <<orgVars, stockVars, accountVars>>

\* Not while a factory that is removed has the product in stock.
EditProduct(p, S, main) ==
  /\ ProductRow(p)
  /\ MayProduce(S, products[p].brand) /\ FirstOf(S, main)
  /\ LET current == IF FactoriesOf(p) = {} THEN {products[p].main} ELSE FactoriesOf(p)
     IN \A c \in Codes : InStock(c) /\ codes[c].product = p
                           => codes[c].factory \notin current \ S
  /\ products' = [products EXCEPT ![p].main = main]
  /\ authorised' = {a \in authorised : a[1] # p} \cup ({p} \X S)
  /\ UNCHANGED <<orgVars, stockVars, accountVars>>

DeleteProduct(p) ==
  /\ ProductRow(p)
  /\ \A c \in Codes : codes[c].product # p
  /\ products' = [products EXCEPT ![p].status = "deleted"]
  /\ authorised' = {a \in authorised : a[1] # p}
  /\ UNCHANGED <<orgVars, stockVars, accountVars>>

\* resolvePackingFactory
ReceiveCode(c, p, f) ==
  /\ codes[c].status = "blank" /\ ProductRow(p)
  /\ Enabled(f) /\ factoryBelongsToBrand(f, products[p].brand)
  /\ factoryAssignedToProduct(f, p)
  /\ codes' = [codes EXCEPT ![c] = [status |-> "received", product |-> p, factory |-> f]]
  /\ packed' = packed \cup {f}
  /\ UNCHANGED <<orgVars, productVars, accountVars>>

CancelReceipt(c) ==
  /\ InStock(c)
  /\ codes' = [codes EXCEPT ![c] = BlankCode]
  /\ UNCHANGED <<packed, orgVars, productVars, accountVars>>

Ship(c) ==
  /\ InStock(c)
  /\ codes' = [codes EXCEPT ![c].status = "shipped"]
  /\ UNCHANGED <<packed, orgVars, productVars, accountVars>>

\* Back into the stock of its factory, whatever has become of that.
CancelShipment(c) ==
  /\ codes[c].status = "shipped"
  /\ codes' = [codes EXCEPT ![c].status = "returned"]
  /\ UNCHANGED <<packed, orgVars, productVars, accountVars>>

-----------------------------------------------------------------------------
(* Accounts, invitations and agent tokens *)

NewUser(u, role, b, f) ==
  users' = [users EXCEPT ![u] = [status |-> "on", role |-> role, brand |-> b, factory |-> f]]

CreateUser(u, role, b, f) ==
  /\ users[u].status = "absent"
  /\ \/ role = "brand" /\ brands[b] = "on" /\ f = None
     \/ /\ role = "factory" /\ Enabled(f) /\ factoryBelongsToBrand(f, b)
        /\ brands[b] = "on" \/ factories[f].brand = b
  /\ NewUser(u, role, b, f)
  /\ UNCHANGED <<invitations, tokens, orgVars, productVars, stockVars>>

EditUser(u, status, role, b, f) ==
  /\ UserRow(u) /\ status \in {"on", "off"}
  /\ \/ role = "brand" /\ brands[b] = "on" /\ f = None
     \/ role = "factory" /\ Enabled(f) /\ factoryBelongsToBrand(f, b)
  /\ users' = [users EXCEPT ![u] =
       [status |-> status, role |-> role, brand |-> b, factory |-> f]]
  /\ UNCHANGED <<invitations, tokens, orgVars, productVars, stockVars>>

\* A row of agent_tokens keeps its user, by a foreign key (agent_idempotency does too).
DeleteUser(u) ==
  /\ UserRow(u) /\ tokens[u] = "none"
  /\ users' = [users EXCEPT ![u].status = "deleted"]
  /\ UNCHANGED <<invitations, tokens, orgVars, productVars, stockVars>>

CreateInvitation(i, role, b, f) ==
  /\ invitations[i].status = "absent"
  /\ \/ role = "brand" /\ brands[b] = "on" /\ f = None
     \/ /\ role = "factory" /\ Enabled(f) /\ factoryBelongsToBrand(f, b)
        /\ brands[b] = "on" \/ factories[f].brand = b
  /\ invitations' = [invitations EXCEPT ![i] =
       [status |-> "unused", role |-> role, brand |-> b, factory |-> f]]
  /\ UNCHANGED <<users, tokens, orgVars, productVars, stockVars>>

\* Mutant: the factory is not looked at again.
RegisterAnyway(u, i) ==
  /\ users[u].status = "absent" /\ invitations[i].status = "unused"
  /\ invitations[i].role = "factory" \/ brands[invitations[i].brand] = "on"
  /\ NewUser(u, invitations[i].role, invitations[i].brand, invitations[i].factory)
  /\ invitations' = [invitations EXCEPT ![i].status = "used"]
  /\ UNCHANGED <<tokens, orgVars, productVars, stockVars>>

Register(u, i) ==
  /\ users[u].status = "absent" /\ invitations[i].status = "unused"
  /\ IF invitations[i].role = "factory" THEN Enabled(invitations[i].factory)
                                        ELSE brands[invitations[i].brand] = "on"
  /\ NewUser(u, invitations[i].role, invitations[i].brand, invitations[i].factory)
  /\ invitations' = [invitations EXCEPT ![i].status = "used"]
  /\ UNCHANGED <<tokens, orgVars, productVars, stockVars>>

RemoveInvitation(i, status) ==
  /\ InvitationRow(i)
  /\ \/ status = "deleted"
     \/ status = "revoked" /\ invitations[i].status # "used"
  /\ invitations' = [invitations EXCEPT ![i].status = status]
  /\ UNCHANGED <<users, tokens, orgVars, productVars, stockVars>>

\* Every agent login removes the stale tokens of all users.
AgentLogin(u) ==
  /\ users[u].status = "on" /\ users[u].role = "brand" /\ brands[users[u].brand] = "on"
  /\ tokens' = [v \in Users |-> IF v = u THEN "live"
                                ELSE IF tokens[v] = "stale" THEN "none" ELSE tokens[v]]
  /\ UNCHANGED <<users, invitations, orgVars, productVars, stockVars>>

\* By logging out, or after an hour.
AgentTokenEnds(u) ==
  /\ tokens[u] = "live"
  /\ tokens' = [tokens EXCEPT ![u] = "stale"]
  /\ UNCHANGED <<users, invitations, orgVars, productVars, stockVars>>

-----------------------------------------------------------------------------
(* initDatabase, at every start *)

\* Its statements commit one by one; the last one, which authorises the main factory
\* of each product, is aborted by the trigger, and the start fails with it.
Start(b, f) ==
  LET noBrand == \A c \in Brands : ~BrandRow(c)
      noFactory == \A g \in Factories : ~FactoryRow(g)
      brands1 == IF noBrand THEN [brands EXCEPT ![b] = "on"] ELSE brands
      enabled == {c \in Brands : brands1[c] = "on"}
      adopted == [g \in Factories |-> IF noBrand /\ FactoryRow(g) /\ factories[g].brand = None
                    THEN [factories[g] EXCEPT !.brand = b] ELSE factories[g]]
      factories1 == IF ~noFactory THEN adopted ELSE
        [adopted EXCEPT ![f] = [status |-> "on", brand |-> IF enabled = {} THEN None ELSE b]]
      products1 == IF ~noFactory THEN products ELSE
        [p \in Products |-> IF ProductRow(p) /\ products[p].main = None
           THEN [products[p] EXCEPT !.main = f] ELSE products[p]]
      links1 == links \cup {l \in Factories \X Brands :
                  factories1[l[1]].brand = l[2] /\ factories1[l[1]].status \in {"on", "archived"}}
      mains == {m \in Products \X Factories : ProductRow(m[1]) /\ products1[m[1]].main = m[2]}
      allowed(p, g) == \/ factories1[g].brand = products1[p].brand
                       \/ <<g, products1[p].brand>> \in links1
      ok == \A m \in mains : factories1[m[2]].status \in {"on", "archived"}
                               /\ allowed(m[1], m[2])
  IN /\ noBrand => NextBrand(b)
     /\ ~noBrand /\ noFactory /\ enabled # {} => b \in enabled /\ \A c \in enabled : b <= c
     /\ noFactory => factories[f].status = "absent"
     /\ brands' = brands1 /\ factories' = factories1 /\ links' = links1
     /\ products' = products1
     /\ authorised' = IF ok THEN authorised \cup mains ELSE authorised
     /\ server' = IF ok THEN "up" ELSE "failed"
     /\ UNCHANGED <<stockVars, accountVars>>

-----------------------------------------------------------------------------

Organize == \E b \in Brands :
  \/ \E S \in SUBSET Factories : CreateBrand(b, S)
  \/ \E status \in {"on", "off"} : EditBrand(b, status)
  \/ DeleteBrand(b)
  \/ \E f \in Factories : CreateFactory(f, b)

Catalogue == \E p \in Products :
  \/ \E S \in SUBSET Factories, main \in Factories \cup {None} :
       \/ \E b \in Brands : CreateProduct(p, b, S, main)
       \/ EditProduct(p, S, main)
  \/ DeleteProduct(p)
  \/ \E c \in Codes, f \in Factories : ReceiveCode(c, p, f)

Administer == \E b \in Brands, role \in {"brand", "factory"}, f \in Factories \cup {None} :
  \/ \E u \in Users : \/ CreateUser(u, role, b, f)
                      \/ \E status \in {"on", "off"} : EditUser(u, status, role, b, f)
  \/ \E i \in Invitations : CreateInvitation(i, role, b, f)

Serve ==
  \/ Organize \/ Catalogue \/ Administer
  \/ \E f \in Factories : DeleteFactory(f)
  \/ \E c \in Codes : CancelReceipt(c) \/ Ship(c) \/ CancelShipment(c)
  \/ \E u \in Users : DeleteUser(u) \/ AgentLogin(u) \/ AgentTokenEnds(u)
  \/ \E i \in Invitations : \/ \E u \in Users : Register(u, i)
                            \/ \E status \in {"revoked", "deleted"} : RemoveInvitation(i, status)

TenantsNext ==
  \/ server = "up" /\ Serve /\ UNCHANGED server
  \/ \E b \in Brands, f \in Factories : Start(b, f)

TenantsSpec == TenantsInit /\ [][TenantsNext]_tenantsVars

-----------------------------------------------------------------------------
(* Properties *)

TenantsTypeOK ==
  /\ server \in {"new", "up", "failed"}
  /\ brands \in [Brands -> {"absent", "on", "off", "deleted"}]
  /\ factories \in [Factories -> Factory]
  /\ products \in [Products -> Product]
  /\ links \subseteq Factories \X Brands
  /\ authorised \subseteq Products \X Factories
  /\ codes \in [Codes -> Code] /\ packed \subseteq Factories
  /\ users \in [Users -> User] /\ invitations \in [Invitations -> Invitation]
  /\ tokens \in [Users -> {"none", "live", "stale"}]

\* What names a brand, a factory, a product or a user names a row that is there, in
\* whatever order they are deleted; and an account works for an enabled factory.
NothingDangles ==
  /\ TenantsTypeOK
  /\ \A f \in Factories : FactoryRow(f) => factories[f].brand = None \/ BrandRow(factories[f].brand)
  /\ \A l \in links : FactoryRow(l[1]) /\ BrandRow(l[2])
  /\ \A p \in Products : ProductRow(p) =>
       BrandRow(products[p].brand) /\ (products[p].main = None \/ FactoryRow(products[p].main))
  /\ \A a \in authorised : ProductRow(a[1]) /\ FactoryRow(a[2])
  /\ \A c \in Codes : codes[c].status # "blank" =>
       ProductRow(codes[c].product) /\ FactoryRow(codes[c].factory)
  /\ \A u \in Users : UserRow(u) =>
       /\ BrandRow(users[u].brand)
       /\ users[u].role = "factory" => Enabled(users[u].factory)
  /\ \A i \in Invitations : InvitationRow(i) => BrandRow(invitations[i].brand)
  /\ \A u \in Users : tokens[u] # "none" => UserRow(u)

\* Received goods lie in a factory that is enabled and authorised for the product: it
\* is not removed under them, neither by editing the product nor by deleting the
\* factory.  (What came back from a shipment does not have that.)
StockAtItsFactory == \A c \in Codes : codes[c].status = "received" =>
  Enabled(codes[c].factory) /\ factoryAssignedToProduct(codes[c].factory, codes[c].product)

\* The column and the table agree: the primary brand of an enabled factory is one of
\* its brands, so it never ends up with none while its brand is edited.
PrimaryBrandIsLinked == \A f \in Factories :
  Enabled(f) /\ factories[f].brand # None => <<f, factories[f].brand>> \in links

-----------------------------------------------------------------------------
(* What a comment says and the code does not do *)

\* database.js calls the backfill of product_factories idempotent: the server starts
\* again whatever it was used for.
ServerStarts == server # "failed"
=============================================================================
