------------------------------ MODULE Catalog ------------------------------
(* The public catalogue of scenarios and the page of one scenario, with the *)
(* embedded scenarios that stand in when the API does not answer, and the   *)
(* start that hands a scenario to the guest rehearsal (Guest) or, for a     *)
(* user who is signed in, to the upload page (Upload).                      *)
EXTENDS Integers, Sequences, FiniteSets, SequencesExt

CONSTANTS
  Slugs,
  Embedded,      \* the category of each embedded scenario
  Served,        \* the category of each scenario the API serves
  Clients, Investors, Qbrs, Roadmaps,  \* scenarios whose slug says so
  WEDGE_SCENARIO_SLUG,
  None

\* The API's rows and the embedded ones recommend a pressure from 3 to 5.
Difficulties == 3..5

CATEGORY_META == {"budget", "roadmap", "investors", "clients", "people", "crisis"}
Tabs == {"all"} \cup CATEGORY_META

CatalogAssumption ==
  /\ IsFiniteSet(Slugs)
  /\ DOMAIN Embedded \subseteq Slugs /\ DOMAIN Served \subseteq Slugs
  /\ \A s \in DOMAIN Embedded : Embedded[s] \in CATEGORY_META
  /\ \A s \in DOMAIN Served : Served[s] \in CATEGORY_META
  /\ WEDGE_SCENARIO_SLUG \in DOMAIN Embedded
  /\ None \notin Slugs

VARIABLES
  place,         \* catalog, detail, guest or upload
  \* the catalogue
  tab, list, loading, fallback,
  asked,         \* filter requests that are out and not cancelled
  \* the page of a scenario
  scenario, standIn, pressure,
  starts,        \* starts that wait for the session check
  \* what was handed over
  handed

catalogue == <<tab, list, loading, fallback, asked>>
detail == <<scenario, standIn, pressure>>
vars == <<place, catalogue, detail, starts, handed>>

Item == [slug : Slugs, category : CATEGORY_META]
Guest == [slug : Slugs, to : {"guest"}, persona : CATEGORY_META, difficulty : {1, 3, 5}]
Upload == [slug : Slugs, to : {"upload"}, case : STRING]

TypeOK ==
  /\ place \in {"catalog", "detail", "guest", "upload"}
  /\ tab \in Tabs /\ list \in Seq(Item)
  /\ loading \in BOOLEAN /\ fallback \in BOOLEAN
  /\ asked \subseteq Tabs
  /\ scenario = None \/ scenario \in [slug : Slugs, category : CATEGORY_META \cup {"unknown"}]
  /\ standIn \in BOOLEAN /\ pressure \in {1, 3, 5}
  /\ starts \subseteq [slug : Slugs, category : CATEGORY_META, pressure : {1, 3, 5}]
  /\ handed = None \/ handed.slug \in Slugs

Init ==
  /\ place = "catalog"
  /\ tab = "all" /\ list = <<>> /\ loading = TRUE /\ fallback = FALSE /\ asked = {}
  /\ scenario = None /\ standIn = FALSE /\ pressure = 5
  /\ starts = {} /\ handed = None

-----------------------------------------------------------------------------
(* Scenarios.                                                              *)

ItemOf(s, categories) == [slug |-> s, category |-> categories[s]]
InTab(item, t) == t = "all" \/ item.category = t

\* The scenarios of a tab.
ItemsOf(categories, t) ==
  {item \in {ItemOf(s, categories) : s \in DOMAIN categories} : InTab(item, t)}

GetFallbackScenarios(t) == ItemsOf(Embedded, t)
GetScenarios(t) == ItemsOf(Served, t)

\* The list that is shown: the wedge first, the embedded one if there is none.
PrioritizeWedgeScenario(items, t) ==
  LET lead == ItemOf(WEDGE_SCENARIO_SLUG, Embedded)
      existing == {item \in items : item.slug = WEDGE_SCENARIO_SLUG}
  IN IF ~InTab(lead, t) THEN SetToSeq(items)
     ELSE SetToSeq(IF existing = {} THEN {lead} ELSE existing) \o SetToSeq(items \ existing)

START_PRESSURE_OPTIONS == <<1, 3, 5>>

Distance(a, b) == IF a > b THEN a - b ELSE b - a

Closer(option, closest, value) ==
  IF Distance(option, value) < Distance(closest, value) THEN option ELSE closest

\* The closest option; the second is taken first and kept when equally close.
NormalizeStartDifficulty(value) ==
  LET O == START_PRESSURE_OPTIONS
  IN Closer(O[3], Closer(O[2], Closer(O[1], O[2], value), value), value)

\* The situation the upload page begins with.
CaseSituationIdForScenario(s, category) ==
  IF s \in Clients \/ category = "clients" THEN "client_escalation"
  ELSE IF s \in Investors \/ category = "investors" THEN "investor_pitch"
  ELSE IF s \in Qbrs THEN "qbr"
  ELSE IF s \in Roadmaps \/ category = "roadmap" THEN "roadmap_defense"
  ELSE IF category \in {"people", "crisis"} THEN "stakeholder_update"
  ELSE "budget_defense"

-----------------------------------------------------------------------------
(* The catalogue.                                                          *)

\* The page loads the whole catalogue once, whatever tab is chosen meanwhile;
\* the embedded scenarios replace an API that fails.
LoadSucceeds ==
  /\ place = "catalog" /\ loading
  /\ loading' = FALSE /\ fallback' = FALSE
  /\ list' = PrioritizeWedgeScenario(GetScenarios("all"), "all")
  /\ UNCHANGED <<place, tab, asked, detail, starts, handed>>

LoadFails ==
  /\ place = "catalog" /\ loading
  /\ loading' = FALSE /\ fallback' = TRUE
  /\ list' = PrioritizeWedgeScenario(GetFallbackScenarios("all"), "all")
  /\ UNCHANGED <<place, tab, asked, detail, starts, handed>>

Embed(t) == list' = PrioritizeWedgeScenario(GetFallbackScenarios(t), t)

\* Variant: an effect without a clean-up.
KeepFilters == asked

\* A newer choice, or leaving the page, makes a request's answer be ignored.
CancelFilters == {}

\* The tabs are there while the catalogue loads.
SetActiveCategory(t) ==
  /\ place = "catalog" /\ t # tab
  /\ tab' = t
  /\ IF loading THEN UNCHANGED <<list, asked>>
     ELSE IF fallback THEN Embed(t) /\ asked' = CancelFilters
     ELSE /\ asked' = CancelFilters \cup {t}
          /\ UNCHANGED list
  /\ UNCHANGED <<place, loading, fallback, detail, starts, handed>>

\* A category without scenarios, and a request that fails, turn the page to the
\* embedded ones for good.
FilterScenarios(t, ok) ==
  /\ t \in asked
  /\ asked' = asked \ {t}
  /\ LET items == PrioritizeWedgeScenario(GetScenarios(t), t)
     IN IF ok /\ items # <<>> THEN list' = items /\ UNCHANGED fallback
        ELSE Embed(t) /\ fallback' = TRUE
  /\ UNCHANGED <<place, tab, loading, detail, starts, handed>>

\* A card, or the link of the wedge, which is there from the beginning.
OpenScenario(s) ==
  /\ place = "catalog"
  /\ s = WEDGE_SCENARIO_SLUG \/ (~loading /\ s \in {item.slug : item \in ToSet(list)})
  /\ place' = "detail"
  /\ scenario' = [slug |-> s, category |-> "unknown"]
  /\ standIn' = FALSE /\ pressure' = 5 /\ asked' = CancelFilters
  /\ UNCHANGED <<tab, list, loading, fallback, starts, handed>>

-----------------------------------------------------------------------------
(* The page of a scenario.                                                 *)

Loaded == place = "detail" /\ scenario # None /\ scenario.category # "unknown"

\* From the API, filled up from the embedded scenario of that slug; from that
\* alone if the API fails or does not know it; or an error that is shown.
LoadScenario(ok) ==
  /\ place = "detail" /\ scenario # None /\ scenario.category = "unknown"
  /\ LET s == scenario.slug
         fromApi == ok /\ s \in DOMAIN Served
     IN /\ standIn' = (~fromApi /\ s \in DOMAIN Embedded)
        /\ IF fromApi THEN scenario' = ItemOf(s, Served)
           ELSE IF s \in DOMAIN Embedded THEN scenario' = ItemOf(s, Embedded)
           ELSE scenario' = None
  /\ IF scenario' = None THEN UNCHANGED pressure
     ELSE \E d \in Difficulties : pressure' = NormalizeStartDifficulty(d)
  /\ UNCHANGED <<place, catalogue, starts, handed>>

SetDifficulty ==
  /\ Loaded
  /\ \E option \in ToSet(START_PRESSURE_OPTIONS) : pressure' = option
  /\ UNCHANGED <<place, catalogue, scenario, standIn, starts, handed>>

ToGuest(start) ==
  /\ place' = "guest"
  /\ handed' = [slug |-> start.slug, to |-> "guest", persona |-> start.category,
                difficulty |-> start.pressure]

ThisStart == [slug |-> scenario.slug, category |-> scenario.category, pressure |-> pressure]

\* An embedded scenario is for guests; otherwise the session is looked up
\* first, once at a time for this page.
HandleStartScenario ==
  /\ Loaded
  /\ IF standIn THEN ToGuest(ThisStart) /\ UNCHANGED starts
     ELSE /\ \A start \in starts : start.slug # scenario.slug
          /\ starts' = starts \cup {ThisStart}
          /\ UNCHANGED <<place, handed>>
  /\ UNCHANGED <<catalogue, detail>>

\* A check that fails counts as signed out.  The answer moves the user from
\* whatever page is open by now, and the pressure is not handed to the upload.
SessionAnswers(start, authenticated) ==
  /\ start \in starts
  /\ starts' = starts \ {start}
  /\ IF authenticated
       THEN /\ place' = "upload"
            /\ handed' = [slug |-> start.slug, to |-> "upload",
                          case |-> CaseSituationIdForScenario(start.slug, start.category)]
       ELSE ToGuest(start)
  /\ asked' = CancelFilters
  /\ UNCHANGED <<tab, list, loading, fallback, detail>>

\* The catalogue is mounted anew.
BackToCatalog ==
  /\ place # "catalog"
  /\ place' = "catalog"
  /\ tab' = "all" /\ list' = <<>> /\ loading' = TRUE /\ fallback' = FALSE
  /\ scenario' = None /\ standIn' = FALSE /\ pressure' = 5
  /\ UNCHANGED <<asked, starts, handed>>

Next ==
  \/ LoadSucceeds \/ LoadFails
  \/ \E t \in Tabs : SetActiveCategory(t)
  \/ \E t \in asked, ok \in BOOLEAN : FilterScenarios(t, ok)
  \/ \E s \in Slugs : OpenScenario(s)
  \/ \E ok \in BOOLEAN : LoadScenario(ok)
  \/ SetDifficulty \/ HandleStartScenario
  \/ \E start \in starts, authenticated \in BOOLEAN : SessionAnswers(start, authenticated)
  \/ BackToCatalog

Spec == Init /\ [][Next]_vars

-----------------------------------------------------------------------------
(* Properties.                                                             *)

\* Once the catalogue is loaded, a list that replaces another is that of the
\* chosen tab: no answer to an older choice arrives after a newer one, and the
\* wedge and the embedded scenarios keep to the tab (scenarios/page.tsx:287).
ListIsOfItsTab ==
  [][list' # list /\ ~loading /\ place' = place
       => \A item \in ToSet(list') : InTab(item, tab')]_vars
=============================================================================
