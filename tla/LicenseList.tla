----------------------------- MODULE LicenseList -----------------------------
(***************************************************************************)
(* The licenses of an owner in the dashboard (website/app.js): how keys are *)
(* drawn and inserted, how the list is loaded in batches, and how it is     *)
(* shown in pages.                                                         *)
(*                                                                         *)
(* The page is one event loop: while keys are drawn nothing else runs in    *)
(* it.  Between the batches of a load anything may run, here and in the     *)
(* other tabs of the owner.  Refreshes may overlap; this module follows one *)
(* at a time, for they share nothing until they render (see Dashboard).     *)
(***************************************************************************)
EXTENDS Integers, FiniteSets, Sequences, SequencesExt

CONSTANTS
  Apps,         \* the applications the owner may create
  Keys,         \* license keys
  KeysOf,       \* KeysOf[a]: the keys that the format of a yields
  Quantities,   \* how many keys the owner asks for at once
  BatchSize,    \* pageSize of loadLicenses
  PageSizes,    \* the choices of the page size
  MaxInserts,   \* bound: statements that insert licenses
  None

ASSUME ListAssumption ==
  /\ IsFiniteSet(Keys) /\ KeysOf \in [Apps -> SUBSET Keys]
  /\ Quantities \subseteq Nat \ {0} /\ PageSizes \subseteq Nat \ {0}
  /\ BatchSize \in Nat \ {0} /\ MaxInserts \in Nat
  /\ None \notin Apps \cup [app : Apps, at : 1 .. MaxInserts]

VARIABLES
  apps,       \* apps[a]: whether the application exists
  rows,       \* rows[k]: the license with key k, its application and created_at
  inserts,    \* how many statements inserted licenses; the clock of created_at
  form,       \* the form that creates licenses
  known,      \* dashboardApplications, as the last load left them
  options,    \* the applications offered by the selects of the page
  load,       \* the load that is under way
  shown,      \* shown[f]: how many of dashboardLicenses match the filter f
  filter,     \* the application whose licenses are shown, None for all
  page, size  \* licensesPage and licensesPageSize

db == <<apps, rows, inserts>>
view == <<shown, filter, page, size>>
vars == <<db, form, known, load, options, view>>

(* A row of the list that is loaded, with the range it was read in.         *)
Read == [key : Keys, app : Apps, from : Nat]

(* read: the rows so far (allLicenses).  due: the licenses that have a      *)
(* place in the order, as of the first batch.                               *)
(* deleted and inserted: whether rows went or came between two batches.     *)
Load == [pc : {"idle", "apps", "batch", "loaded"}, apps : SUBSET Apps, from : Nat,
         read : SUBSET Read, due : SUBSET Keys, deleted : BOOLEAN, inserted : BOOLEAN]

Stored == {k \in Keys : rows[k] # None}

(* Type invariant.  The keys drawn are keys of the application's format.    *)
TypeOK ==
  /\ apps \in [Apps -> {"new", "live", "deleted"}]
  /\ rows \in [Keys -> [app : Apps, at : 1 .. MaxInserts] \cup {None}]
  /\ inserts \in 0 .. MaxInserts
  /\ form \in [pc : {"idle", "drawing", "insert"}, app : Apps \cup {None},
               quantity : Quantities \cup {0}, drawn : SUBSET Keys]
  /\ form.pc # "idle" => form.app \in Apps /\ form.drawn \subseteq KeysOf[form.app]
  /\ known \subseteq Apps /\ options \subseteq Apps
  /\ load \in Load
  /\ shown \in [Apps \cup {None} -> Nat]
  /\ filter \in options \cup {None}
  /\ size \in PageSizes /\ page \in Nat \ {0}

NoForm == [pc |-> "idle", app |-> None, quantity |-> 0, drawn |-> {}]
NoLoad == [pc |-> "idle", apps |-> {}, from |-> 0, read |-> {},
           due |-> {}, deleted |-> FALSE, inserted |-> FALSE]

Init ==
  /\ apps = [a \in Apps |-> "new"]
  /\ rows = [k \in Keys |-> None] /\ inserts = 0
  /\ form = NoForm /\ known = {} /\ options = {} /\ load = NoLoad
  /\ shown = [f \in Apps \cup {None} |-> 0] /\ filter = None /\ page = 1 /\ size \in PageSizes

(* Nothing of the page runs while it draws keys.                            *)
Responsive == form.pc # "drawing"

(* A batch was read and another is to come.                                 *)
Reading == load.pc = "batch" /\ load.from > 0

(* A license that was inserted by a statement of its own has a place in the *)
(* order; of licenses inserted together, the order may differ by query.     *)
HasPlace(k) == k \in Stored /\ \A j \in Stored \ {k} : rows[j].at # rows[k].at

-----------------------------------------------------------------------------
(* Applications come and go, in this tab or in another of the owner's.      *)
CreateApplication(a) ==
  /\ apps[a] = "new"
  /\ apps' = [apps EXCEPT ![a] = "live"]
  /\ UNCHANGED <<rows, inserts, form, known, load, options, view>>

(* The licenses go with their application.                                  *)
DeleteApplication(a) ==
  /\ apps[a] = "live"
  /\ apps' = [apps EXCEPT ![a] = "deleted"]
  /\ rows' = [k \in Keys |-> IF rows[k] # None /\ rows[k].app = a THEN None ELSE rows[k]]
  /\ load' = [load EXCEPT !.deleted = @ \/ Reading]
  /\ UNCHANGED <<inserts, form, known, options, view>>

-----------------------------------------------------------------------------
(* createLicense: the form is submitted for an application that the page    *)
(* offers and still knows.                                                  *)
SubmitForm(a, quantity) ==
  /\ form.pc = "idle" /\ a \in known \cap options
  /\ form' = [pc |-> "drawing", app |-> a, quantity |-> quantity, drawn |-> {}]
  /\ UNCHANGED <<db, known, load, options, view>>

(* The loop ends when it has as many distinct keys as were asked for.       *)
OneMore(n, quantity) == n > quantity   \* mutant: <= quantity
Enough(n, quantity) == n >= quantity

(* A key that was not drawn yet.  Drawing one again changes nothing.        *)
DrawKey(k) ==
  LET drawn == form.drawn \cup {k}
  IN /\ form.pc = "drawing"
     /\ k \in KeysOf[form.app] \ form.drawn
     /\ form' = [form EXCEPT !.drawn = drawn,
          !.pc = IF Enough(Cardinality(drawn), form.quantity) THEN "insert" ELSE @]
     /\ UNCHANGED <<db, known, load, options, view>>

(* One statement inserts all of them, and its rows share created_at, or     *)
(* none: a key exists, or the application does not.  Whether the page hears *)
(* of it or not, the form is ready again.                                   *)
InsertLicenses ==
  /\ form.pc = "insert" /\ inserts < MaxInserts
  /\ apps[form.app] = "live" /\ form.drawn \cap Stored = {}
  /\ inserts' = inserts + 1
  /\ rows' = [k \in Keys |-> IF k \in form.drawn
                             THEN [app |-> form.app, at |-> inserts'] ELSE rows[k]]
  /\ load' = [load EXCEPT !.inserted = @ \/ Reading]
  /\ form' = NoForm
  /\ UNCHANGED <<apps, known, options, view>>

InsertFails ==
  /\ form.pc = "insert"
  /\ form' = NoForm
  /\ UNCHANGED <<db, known, load, options, view>>

-----------------------------------------------------------------------------
(* refreshDashboard: the applications, then their licenses in batches.      *)
StartLoad ==
  /\ Responsive /\ load.pc = "idle"
  /\ load' = [NoLoad EXCEPT !.pc = "apps"]
  /\ UNCHANGED <<db, form, known, options, view>>

LoadApplications ==
  LET live == {a \in Apps : apps[a] = "live"}
  IN /\ Responsive /\ load.pc = "apps"
     /\ known' = live
     /\ load' = [load EXCEPT !.pc = IF live = {} THEN "loaded" ELSE "batch", !.apps = live]
     /\ UNCHANGED <<db, form, options, view>>

Wanted == {k \in Stored : rows[k].app \in load.apps}

NewestFirst(s) ==
  \A i, j \in DOMAIN s : i < j => rows[s[i]].at >= rows[s[j]].at

(* The answers the database may give for a range: rows of one statement     *)
(* have the same created_at and come in any order, in each query anew.      *)
Ranges(from) ==
  LET n == Cardinality(Wanted)
      last == IF from + BatchSize < n THEN from + BatchSize ELSE n
  IN {SubSeq(s, from + 1, last) : s \in {s \in SetToSeqs(Wanted) : NewestFirst(s)}}

OverlappingBy1(from) == from + BatchSize - 1   \* mutant: a bound that is inclusive
NextFrom(from) == from + BatchSize

MoreThanFull(n) == n > BatchSize   \* mutant: break at a full batch
AnotherBatch(n) == n >= BatchSize

LoadBatch ==
  \E batch \in Ranges(load.from) :
    LET read == {[key |-> k, app |-> rows[k].app, from |-> load.from] : k \in ToSet(batch)}
        more == AnotherBatch(Len(batch))
    IN /\ Responsive /\ load.pc = "batch"
       /\ load' = [load EXCEPT
            !.read = @ \cup read,
            !.pc = IF more THEN "batch" ELSE "loaded",
            !.from = IF more THEN NextFrom(@) ELSE 0,
            !.due = IF load.from = 0 THEN {k \in Wanted : HasPlace(k)} ELSE @]
       /\ UNCHANGED <<db, form, known, options, view>>

LoadFails ==
  /\ Responsive /\ load.pc \in {"apps", "batch"}
  /\ load' = NoLoad
  /\ UNCHANGED <<db, form, known, options, view>>

-----------------------------------------------------------------------------
(* getFilteredDashboardLicenses.  A search selects as the filter does.      *)
Matching(list, f) == {x \in list : f \in {None, x.app}}

TotalPages(n, sz) == IF n = 0 THEN 1 ELSE (n + sz - 1) \div sz

PageAsItWas(p, n, sz) == p   \* mutant: not fitted to the list
FittedPage(p, n, sz) ==
  CASE p < 1 -> 1 [] p > TotalPages(n, sz) -> TotalPages(n, sz) [] OTHER -> p

RenderLicensePage(counts, f, p, sz) ==
  /\ Responsive
  /\ shown' = counts /\ filter' = f /\ size' = sz
  /\ page' = FittedPage(p, counts[f], sz)
  /\ UNCHANGED <<db, form, known>>

FilterAsItWas(f, live) == f   \* mutant: an option that is no longer there
FilterIn(f, live) == IF f \in live THEN f ELSE None

(* The selects get the applications that were read, and the filter stays if *)
(* its application is among them; then the list is rendered.                *)
Render ==
  /\ load.pc = "loaded"
  /\ load' = NoLoad /\ options' = load.apps
  /\ RenderLicensePage([f \in Apps \cup {None} |-> Cardinality(Matching(load.read, f))],
                       FilterIn(filter, load.apps), page, size)

FilterByApplication(f) ==
  /\ f \in options \cup {None} /\ f # filter
  /\ RenderLicensePage(shown, f, 1, size) /\ UNCHANGED <<load, options>>

ChangePageSize(sz) ==
  /\ sz # size
  /\ RenderLicensePage(shown, filter, 1, sz) /\ UNCHANGED <<load, options>>

Previous ==
  /\ page > 1
  /\ RenderLicensePage(shown, filter, page - 1, size) /\ UNCHANGED <<load, options>>

NextPage ==
  /\ page < TotalPages(shown[filter], size)
  /\ RenderLicensePage(shown, filter, page + 1, size) /\ UNCHANGED <<load, options>>

Next ==
  \/ \E a \in Apps : CreateApplication(a) \/ DeleteApplication(a) \/ FilterByApplication(a)
  \/ \E a \in Apps, quantity \in Quantities : SubmitForm(a, quantity)
  \/ \E k \in Keys : DrawKey(k)
  \/ InsertLicenses \/ InsertFails
  \/ StartLoad \/ LoadApplications \/ LoadBatch \/ LoadFails \/ Render
  \/ FilterByApplication(None)
  \/ \E sz \in PageSizes : ChangePageSize(sz)
  \/ Previous \/ NextPage

(* The draws are random: a loop that still has a new key to draw draws one. *)
Spec == Init /\ [][Next]_vars /\ WF_vars(\E k \in Keys : DrawKey(k))

-----------------------------------------------------------------------------
(* Loading in batches misses no license with a place of its own that was    *)
(* stored when the load began, whatever was inserted meanwhile, unless an   *)
(* application was deleted between two batches (loadLicenses).              *)
NothingMissed ==
  (load.pc = "loaded" /\ ~load.deleted) =>
    \A k \in load.due : \E x \in load.read : x.key = k

(* It lists none of them twice, whatever was deleted meanwhile, unless      *)
(* licenses were inserted between two batches.                              *)
LoadedOnce ==
  (load.pc = "loaded" /\ ~load.inserted) =>
    \A x, y \in load.read : x.key = y.key /\ x.key \in load.due => x = y

(* The page shown is not empty while licenses match, though the list, the   *)
(* filter and the page size change under it (renderLicensePage).            *)
PageNotEmpty ==
  shown[filter] > 0 => (page - 1) * size < shown[filter]

(* A form that asks for no more keys than the format has gets them: the     *)
(* page does not draw for ever (createLicense).                             *)
DrawingEnds ==
  \A a \in Apps, q \in Quantities :
    (form.pc = "drawing" /\ form.app = a /\ form.quantity = q /\ q <= Cardinality(KeysOf[a]))
      ~> form.pc # "drawing"
=============================================================================
