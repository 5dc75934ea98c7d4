---------------------------- MODULE LegacyPublic ----------------------------
(***************************************************************************)
(* What the public sees of the legacy server and does to it: the page of a *)
(* product with its batch, the batch's trace and a promotion, which the    *)
(* brand's people edit, publish and approve; and the verification of an    *)
(* item, which is logged, may raise a diversion alert and may win a prize. *)
(*                                                                         *)
(* One product with one batch.  A handler is synchronous and is one        *)
(* action; a refused one is no action.  Whether an item is boxed, shipped  *)
(* or void, by itself or with its box, is LegacyStock's business and       *)
(* changes here at will.  Verifying a box does the same as an item without *)
(* the prize and is left out, as is the version of a batch: a client that  *)
(* publishes a stale one is refused.                                       *)
(***************************************************************************)
EXTENDS Naturals, FiniteSets, FiniteSetsExt

CONSTANTS
  Entries, Stages,   \* rows of batch_trace_entries; stages of the trace template
  Origin,            \* the stage of the raw material's origin
  Goods, Alerts,     \* the items of the product; rows of alerts
  Provinces, Cities, \* provinces are numbers, in the order of PROVINCE_KEYS
  Texts,             \* what a scan or a distributor has for a place
  Names,             \* the provinces' keys that a text contains, and the cities
                     \* it contains without their suffix
  Includes,          \* <<x, y>>: the text x contains the text y
  Where,             \* where the place of a text is
  Territories,       \* what a distributor covers: regions, and a text or Blank
  MaxCampaign, MaxText, MaxScans, MaxCleared,   \* bounds
  Blank

\* Two characters before "province" are a name when no key is there: a number after the keys.
Places == [province : Provinces \cup {Blank}, city : Cities \cup {Blank}]

ASSUME PublicAssumption ==
  /\ MaxCampaign \in Nat /\ MaxText \in Nat /\ MaxScans \in Nat /\ MaxCleared \in Nat
  /\ Origin \in Stages /\ Blank \notin Entries \cup Stages \cup Goods
  /\ Provinces \subseteq Nat
  /\ Blank \notin Provinces /\ Blank \notin Cities /\ Blank \notin Texts
  /\ Names \in [Texts -> [provinces : SUBSET Provinces, cities : SUBSET Cities]]
  /\ Where \in [Texts -> Places] /\ Includes \subseteq Texts \X Texts
  /\ Territories \subseteq [regions : SUBSET Places, text : Texts \cup {Blank}]

VARIABLES
  batch,        \* product_batches: its status
  entries, templates,
  marketing,    \* product_marketing: the text is a number, 0 before the first
  approved,     \* (history) the texts that an administrator's approval has met
  territory,    \* covered_regions of the distributor
  goods,
  scans,        \* the rows of scan_logs of an item
  cleared,      \* (history) how often the last of them was deleted
  campaigns, prizes, alerts

contentVars == <<batch, entries, templates, marketing, approved>>
scanVars == <<territory, goods, scans, cleared, campaigns, prizes, alerts>>
publicVars == <<contentVars, scanVars>>

Campaigns == 1..MaxCampaign
NoEntry == [made |-> FALSE, stage |-> Blank, template |-> Blank, revises |-> Blank,
            published |-> FALSE]
NoAlert == [status |-> "none", item |-> Blank, covered |-> Blank, location |-> Blank, level |-> 0]

PublicTypeOK ==
  /\ batch \in {"none", "draft", "published"}
  /\ entries \in [Entries -> [made : BOOLEAN, stage : Stages \cup {Blank},
       template : Stages \cup {Blank}, revises : Entries \cup {Blank}, published : BOOLEAN]]
  /\ templates \in [Stages -> {"none", "on", "off"}]
  /\ marketing \in [text : 0..MaxText, enabled : BOOLEAN,
                    review : {"none", "pending", "approved", "rejected"}]
  /\ approved \subseteq 1..MaxText
  /\ territory \in Territories
  /\ goods \in [Goods -> [boxed : BOOLEAN, shipped : BOOLEAN, void : BOOLEAN]]
  /\ scans \in [Goods -> 0..MaxScans] /\ cleared \in [Goods -> Nat]
  /\ campaigns \in [Campaigns -> {"none", "on", "off", "deleted"}]
  /\ prizes \in [Goods \X Campaigns -> Nat]
  /\ alerts \in [Alerts -> [status : {"none", "open", "handled"},
       item : Goods \cup {Blank}, covered : Territories \cup {Blank},
       location : Texts \cup {Blank}, level : 0..2]]

PublicInit ==
  /\ batch = "none"
  /\ entries = [e \in Entries |-> NoEntry] /\ templates = [s \in Stages |-> "none"]
  /\ marketing = [text |-> 0, enabled |-> FALSE, review |-> "none"] /\ approved = {}
  /\ territory \in Territories
  /\ goods = [i \in Goods |-> [boxed |-> FALSE, shipped |-> FALSE, void |-> FALSE]]
  /\ scans = [i \in Goods |-> 0] /\ cleared = [i \in Goods |-> 0]
  /\ campaigns = [c \in Campaigns |-> "none"]
  /\ prizes = [x \in Goods \X Campaigns |-> 0]
  /\ alerts = [a \in Alerts |-> NoAlert]

-----------------------------------------------------------------------------
(* The page *)

\* productContent without drafts.
ShownTrace == IF batch # "published" THEN {} ELSE
  {e \in Entries : /\ entries[e].made /\ entries[e].published
                   /\ \A n \in Entries : entries[n].revises # e}
ShownMarketing == IF marketing.enabled /\ marketing.review = "approved"
                    THEN {marketing.text} ELSE {}

\* Mutant: those that entries name are deleted as well.
replaceTraceTemplateAll(S) ==
  /\ templates' = [s \in Stages |-> IF s \in S THEN "on" ELSE "none"]
  /\ UNCHANGED <<batch, entries, marketing, approved, scanVars>>

\* A stage that entries name is disabled, another one is deleted.
replaceTraceTemplate(S) ==
  /\ templates' = [s \in Stages |->
       IF s \in S THEN "on"
       ELSE IF templates[s] # "none" /\ \E e \in Entries : entries[e].template = s
         THEN "off" ELSE "none"]
  /\ UNCHANGED <<batch, entries, marketing, approved, scanVars>>

createProductBatch ==
  /\ batch = "none"
  /\ batch' = "draft"
  /\ UNCHANGED <<entries, templates, marketing, approved, scanVars>>

NewEntry(e, s, r, published) ==
  [made |-> TRUE, stage |-> s, template |-> IF templates[s] = "none" THEN Blank ELSE s,
   revises |-> r, published |-> published]

\* Rows are appended; one may revise another of the batch.
appendTraceEntry(e, s, r, published) ==
  /\ batch # "none" /\ ~entries[e].made
  /\ r # Blank => entries[r].made
  /\ entries' = [entries EXCEPT ![e] = NewEntry(e, s, r, published)]
  /\ UNCHANGED <<batch, templates, marketing, approved, scanVars>>

Published(rows) == [e \in Entries |-> [rows[e] EXCEPT !.published = rows[e].made]]

publishBatch ==
  /\ batch # "none"
  /\ batch' = "published" /\ entries' = Published(entries)
  /\ UNCHANGED <<templates, marketing, approved, scanVars>>

\* A code package makes its batch, with an origin, and publishes it: createPackageCodes.
PublishByPackage(e) ==
  LET origin == \E x \in Entries : entries[x].made /\ entries[x].stage = Origin
      entries1 == IF origin THEN entries
                  ELSE [entries EXCEPT ![e] = NewEntry(e, Origin, Blank, TRUE)]
  IN /\ origin \/ ~entries[e].made
     /\ batch' = "published"
     /\ entries' = IF batch = "published" THEN entries1 ELSE Published(entries1)
     /\ UNCHANGED <<templates, marketing, approved, scanVars>>

\* Mutant: an edit keeps the review.
saveMarketingReviewed(enabled) ==
  /\ marketing.text < MaxText
  /\ marketing' = [text |-> marketing.text + 1, enabled |-> enabled,
       review |-> IF marketing.text = 0 THEN "pending" ELSE marketing.review]
  /\ UNCHANGED <<batch, entries, templates, approved, scanVars>>

saveMarketing(enabled) ==
  /\ marketing.text < MaxText
  /\ marketing' = [text |-> marketing.text + 1, enabled |-> enabled, review |-> "pending"]
  /\ UNCHANGED <<batch, entries, templates, approved, scanVars>>

\* Whatever text is there, read or not.
reviewMarketing(status) ==
  /\ marketing.text > 0
  /\ marketing' = [marketing EXCEPT !.review = status]
  /\ approved' = IF status = "approved" THEN approved \cup {marketing.text}
                                        ELSE approved \ {marketing.text}
  /\ UNCHANGED <<batch, entries, templates, scanVars>>

-----------------------------------------------------------------------------
(* Verification *)

\* The first key that the text contains, wherever it is.
getProvinceName(s) == LET keys == Names[s].provinces IN IF keys = {} THEN Blank ELSE Min(keys)

\* Mutant: the first region of the same province decides.
DetectByRegionsFirst(regions, s) ==
  LET same == {r \in regions : r.province # Blank /\ r.province = getProvinceName(s)}
  IN IF \E r \in same : r.city \notin {Blank} \cup Names[s].cities THEN 1
     ELSE IF same # {} THEN 0 ELSE 2

\* 1 is slight, 2 severe.  The province of a region is blank or in the catalogue, whose
\* provinces all contain their own key.
DetectByRegions(regions, s) ==
  LET same == {r \in regions : r.province # Blank /\ r.province = getProvinceName(s)}
  IN IF \E r \in same : r.city \in {Blank} \cup Names[s].cities THEN 0
     ELSE IF same # {} THEN 1 ELSE 2

\* The old logic, for a distributor without regions.
DetectByText(a, s) ==
  LET pa == getProvinceName(a)
      ps == getProvinceName(s)
  IN IF <<a, s>> \in Includes \/ <<s, a>> \in Includes THEN 0
     ELSE IF pa # Blank /\ ps # Blank /\ pa # ps THEN 2 ELSE 1

detectDiversion(t, s) ==
  IF s = Blank THEN 0
  ELSE IF t.regions # {} THEN DetectByRegions(t.regions, s)
  ELSE IF t.text = Blank THEN 0 ELSE DetectByText(t.text, s)

\* Mutant: what it has won already is not looked at.
drawPrizeAgain(i) ==
  LET on == {c \in Campaigns : campaigns[c] = "on"}
  IN IF on = {} THEN UNCHANGED prizes
     ELSE prizes' = [prizes EXCEPT ![<<i, Max(on)>>] = @ + 1] \/ UNCHANGED prizes

\* The newest campaign that is on, at most once for an item, with luck.
drawPrize(i) ==
  LET on == {c \in Campaigns : campaigns[c] = "on"}
  IN IF on = {} \/ prizes[<<i, Max(on)>>] > 0 THEN UNCHANGED prizes
     ELSE prizes' = [prizes EXCEPT ![<<i, Max(on)>>] = @ + 1] \/ UNCHANGED prizes

FirstScan(i) == scans[i] = 0 /\ goods[i].boxed /\ goods[i].shipped /\ ~goods[i].void

Verify(i, s, a) ==
  LET level == IF goods[i].shipped THEN detectDiversion(territory, s) ELSE 0
  IN /\ scans[i] < MaxScans
     /\ scans' = [scans EXCEPT ![i] = @ + 1]
     /\ IF level = 0 THEN UNCHANGED alerts
        ELSE /\ alerts[a].status = "none"
             /\ alerts' = [alerts EXCEPT ![a] = [status |-> "open", item |-> i,
                  covered |-> territory, location |-> s, level |-> level]]
     /\ IF FirstScan(i) THEN drawPrize(i) ELSE UNCHANGED prizes
     /\ UNCHANGED <<contentVars, territory, goods, cleared, campaigns>>

DeleteScanLogs(i, n) ==
  /\ n \in 1..scans[i] /\ cleared[i] < MaxCleared
  /\ scans' = [scans EXCEPT ![i] = @ - n]
  /\ cleared' = [cleared EXCEPT ![i] = IF n = scans[i] THEN @ + 1 ELSE @]
  /\ UNCHANGED <<contentVars, territory, goods, campaigns, prizes, alerts>>

\* Created, saved, toggled; or its dates begin or end.
SetCampaign(c, status) ==
  /\ campaigns[c] \in {"on", "off"} \/ (campaigns[c] = "none" /\ \A d \in 1..(c - 1) :
                                                             campaigns[d] # "none")
  /\ campaigns' = [campaigns EXCEPT ![c] = status]
  /\ UNCHANGED <<contentVars, territory, goods, scans, cleared, prizes, alerts>>

\* Its prizes stay.
DeleteCampaign(c) ==
  /\ campaigns[c] \in {"on", "off"}
  /\ campaigns' = [campaigns EXCEPT ![c] = "deleted"]
  /\ UNCHANGED <<contentVars, territory, goods, scans, cleared, prizes, alerts>>

HandleAlerts(S) ==
  /\ S # {} /\ \A a \in S : alerts[a].status \in {"open", "handled"}
  /\ alerts' = [a \in Alerts |-> IF a \in S THEN [alerts[a] EXCEPT !.status = "handled"]
                                            ELSE alerts[a]]
  /\ UNCHANGED <<contentVars, territory, goods, scans, cleared, campaigns, prizes>>

DeleteAlert(a) ==
  /\ alerts[a].status \in {"open", "handled"}
  /\ alerts' = [alerts EXCEPT ![a] = NoAlert]
  /\ UNCHANGED <<contentVars, territory, goods, scans, cleared, campaigns, prizes>>

\* Any place: what the catalogue does not have is left blank, and nothing is refused.
normalizeRegionSelection == Places

\* The regions submitted that are in the catalogue or, if none is, a single place.
coveredRegions == {t \in Territories :
  \/ t.regions # {} /\ \A r \in t.regions : r.province # Blank
  \/ \E r \in normalizeRegionSelection : t.regions = {r}}

\* PUT /api/distributors.  One that registers by an invitation has no regions and no text.
SetTerritory(t) ==
  /\ t \in coveredRegions
  /\ territory' = t
  /\ UNCHANGED <<contentVars, goods, scans, cleared, campaigns, prizes, alerts>>

\* LegacyStock
Handle(i, boxed, shipped, void) ==
  /\ goods' = [goods EXCEPT ![i] = [boxed |-> boxed, shipped |-> shipped, void |-> void]]
  /\ UNCHANGED <<contentVars, territory, scans, cleared, campaigns, prizes, alerts>>

-----------------------------------------------------------------------------

Edit ==
  \/ \E S \in SUBSET Stages : replaceTraceTemplate(S)
  \/ createProductBatch \/ publishBatch
  \/ \E e \in Entries :
       \/ \E s \in Stages, r \in Entries \cup {Blank}, published \in BOOLEAN :
            appendTraceEntry(e, s, r, published)
       \/ PublishByPackage(e)
  \/ \E enabled \in BOOLEAN : saveMarketing(enabled)
  \/ \E status \in {"approved", "rejected"} : reviewMarketing(status)

Scanning ==
  \/ \E i \in Goods : \/ \E s \in Texts \cup {Blank}, a \in Alerts : Verify(i, s, a)
                      \/ \E n \in 1..MaxScans : DeleteScanLogs(i, n)
                      \/ \E boxed, shipped, void \in BOOLEAN :
                           Handle(i, boxed, shipped, void)
  \/ \E c \in Campaigns : \/ \E status \in {"on", "off"} : SetCampaign(c, status)
                          \/ DeleteCampaign(c)
  \/ \E S \in SUBSET Alerts : HandleAlerts(S)
  \/ \E a \in Alerts : DeleteAlert(a)
  \/ \E t \in Territories : SetTerritory(t)

PublicNext == Edit \/ Scanning

PublicSpec == PublicInit /\ [][PublicNext]_publicVars

-----------------------------------------------------------------------------
(* Properties *)

\* A promotion on the page was approved since its last edit, and the trace refers to
\* stages of the template that are still there, however often that is replaced.
PageIsCleared ==
  /\ PublicTypeOK
  /\ ShownMarketing \subseteq approved
  /\ \A e \in Entries : entries[e].template # Blank => templates[entries[e].template] # "none"

\* Only a first verification draws: an item wins once under a campaign, and again under
\* another one only after its logs were deleted to the last.
PrizesAreFirstScans == \A i \in Goods :
  /\ \A c \in Campaigns : prizes[<<i, c>>] <= 1
  /\ Cardinality({c \in Campaigns : prizes[<<i, c>>] > 0}) <= 1 + cleared[i]

\* The text names the province it is in and no other, and the city it is in.
Plain(s) ==
  /\ Where[s].province # Blank /\ Names[s].provinces = {Where[s].province}
  /\ Where[s].city # Blank => Where[s].city \in Names[s].cities

Covers(r, s) == r.province = Where[s].province /\ r.city \in {Blank, Where[s].city}

\* An alert is of a place, and of a distributor that covered something.  Where the texts are
\* plain it stays true of that, whatever is covered since: no region covered the place, and
\* the alert is slight exactly if one was in its province; a single text is only held to
\* the province.
AlertsAreTrue == \A a \in Alerts :
  LET x == alerts[a]
      InProvince(place) == place.province = Where[x.location].province
  IN x.status \in {"open", "handled"} =>
       /\ x.location # Blank /\ (x.covered.regions = {} => x.covered.text # Blank)
       /\ Plain(x.location) =>
            IF x.covered.regions # {}
              THEN /\ \A r \in x.covered.regions : ~Covers(r, x.location)
                   /\ x.level = 1 <=> \E r \in x.covered.regions : InProvince(r)
              ELSE Plain(x.covered.text) => (x.level = 1 <=> InProvince(Where[x.covered.text]))

-----------------------------------------------------------------------------
(* What comments and messages say and the code does not do *)

\* Drafts are seen by the brand's people only: until it is published, an entry leaves
\* the page as it was.
DraftsStayInside == [][(\E e \in Entries : entries'[e] # entries[e] /\ ~entries'[e].published)
                         => UNCHANGED ShownTrace]_publicVars

\* A severe alert is across provinces: none of the regions covered is in the province of
\* the place, if the text names that.  Other names in the text can come before it.
SevereIsAcrossProvinces == \A a \in Alerts :
  LET x == alerts[a]
  IN x.level = 2 /\ Where[x.location].province \in Names[x.location].provinces =>
       \A r \in x.covered.regions : r.province # Where[x.location].province

\* "Choose a valid region": one that does not is refused.  It is stored, with a blank
\* province that no place is in.  (No run: it is the fixture's catalogue that never refuses.)
TerritoriesAreRegions == \A r \in territory.regions : r.province # Blank
=============================================================================
