--------------------------- MODULE GeneratedViews ---------------------------
(* The Obsidian views: Markdown generated from the canonical records         *)
(* (obsidian_views.py, services/obsidian_generated_views.py).  A render      *)
(* builds a complete generation beside the active one and then replaces the  *)
(* manifest that names the active one.  Of a view the manifest keeps the     *)
(* records it depends on, with their digests, and what follows from them is  *)
(* never looked at again: which views are out of date, which files are       *)
(* copied from the generation before.  The user may edit the files at any    *)
(* time.  Generations no manifest names are not read again and left out.     *)
EXTENDS WorkspaceBase, Sequences
CONSTANTS
    Renderer,    \* calls that may run at once
    MaxChanges   \* bound: the number of the last change of a record
ASSUME ViewsAssumption == MaxChanges \in Nat /\ MaxChanges >= 1

(* One paper with its title in the registry, its card and the card's unit,   *)
(* an evidence, a tag and its link; a direction and a question that link to  *)
(* the unit, and a synthesis candidate of the question.                      *)
Fact == {"title", "card", "unit", "evidence", "tag", "link", "direction", "question", "candidate"}
View == {"paper", "direction", "question", "synthesis", "index", "table", "home"}
Change == 0..MaxChanges

VARIABLES
    fact,      \* per record: the number of its last change, 0 if there is none
    tagged,    \* is the tag active and the link assigned?
    changes,   \* changes so far
    manifest,  \* the active manifest
    pages,     \* the files of the active generation: none, as rendered, or an edit
    litter,    \* is a temporary manifest of a killed render left behind?
    lost,      \* has the user removed the active generation's directory?
    render,    \* per caller: the render under way
    slips      \* deaths, failures and edits so far
viewsVars == <<fact, tagged, changes, manifest, pages, litter, lost, render, slips>>
Records == <<fact, tagged, changes>>
Projected == <<manifest, pages, litter, lost>>

\* A page is absent, has the bytes of its entry, or those of an edit.
Absent == 0
Intact == 1
PageState == 0..(MaxFaults + 1)
Mark == [facts : [Fact -> Change], table : BOOLEAN]
ViewEntry == [mark : Mark, shows : Seq(Change)]
NoPages == [v \in View |-> Absent]
Pages == [View -> PageState]
Entries == [View -> {Nothing} \cup ViewEntry]
Manifest == [table : BOOLEAN, entries : Entries]
Shown == [watermark : [View -> {Nothing} \cup Mark], manifest : {Nothing} \cup Manifest,
          pages : Pages]
Render == [at : {"previewed", "confirmed", "planned", "staged"}, table : BOOLEAN,
           discard : BOOLEAN, expected : Shown, entries : {Nothing} \cup Entries,
           kept : SUBSET View, pages : Pages]
ASSUME NothingIsNoView == Nothing \notin ViewEntry \cup Entries \cup Manifest \cup Render
ViewsTypeOK ==
    /\ fact \in [Fact -> Change] /\ tagged \in BOOLEAN /\ changes \in Change
    /\ manifest \in {Nothing} \cup Manifest /\ pages \in Pages
    /\ litter \in BOOLEAN /\ lost \in BOOLEAN /\ slips \in 0..MaxFaults
    /\ render \in [Renderer -> {Nothing} \cup Render]
    /\ \A c \in Renderer : render[c] # Nothing =>
         (render[c].entries = Nothing <=> render[c].at \in {"previewed", "confirmed"})

-----------------------------------------------------------------------------
(* project_obsidian_views: the views there are, the records each depends on, *)
(* and what it shows.                                                        *)
Exists(v, table) ==
    CASE v = "paper" -> fact["card"] # 0
      [] v = "direction" -> fact["direction"] # 0
      [] v = "question" -> fact["question"] # 0
      [] v = "synthesis" -> fact["candidate"] # 0
      [] v = "table" -> table
      [] OTHER -> TRUE
PaperUses == IF fact["card"] = 0 THEN {}
             ELSE {"title", "card", "evidence"} \cup (IF tagged THEN {"tag", "link"} ELSE {})
\* What the views of a direction and of a question need to name the unit's owner.
OwnerUses == {"title", "unit"}
PageUses(v) ==
    CASE v \in {"paper", "index", "table"} -> PaperUses
      [] v = "direction" -> {"direction"} \cup OwnerUses
      [] v = "question" -> {"question", "evidence"} \cup OwnerUses
      [] v = "synthesis" -> {"question", "candidate", "card", "unit", "evidence"}
UsesUntitled(v, table) ==  \* Mutation: the owner of a linked unit is no dependency.
    CASE v = "direction" -> {"direction", "unit"}
      [] v = "home" -> UNION {PageUses(w) : w \in {u \in View \ {"home"} : Exists(u, table)}}
      [] OTHER -> PageUses(v)
Uses(v, table) ==
    IF v # "home" THEN PageUses(v)
    ELSE UNION {PageUses(w) : w \in {u \in View \ {"home"} : Exists(u, table)}}
MarkOf(v, table) == [facts |-> [k \in Fact |-> IF k \in Uses(v, table) THEN fact[k] ELSE 0],
                     table |-> v = "home" /\ table]

\* candidate_freshness, from the times of the records the candidate rests on.
Outdated == \E k \in {"question", "card", "evidence"} : fact[k] > fact["candidate"]
Flag(b) == IF b THEN 1 ELSE 0
TagShown == IF tagged THEN fact["tag"] ELSE 0
Shows(v, table) ==
    CASE v = "paper" -> <<fact["title"], fact["card"], fact["evidence"], TagShown>>
      [] v = "direction" -> <<fact["direction"], fact["title"]>>
      [] v = "question" -> <<fact["question"], fact["title"]>>
      [] v = "synthesis" -> <<fact["question"], fact["candidate"], Flag(Outdated)>>
      [] v = "index" -> IF Exists("paper", table) THEN <<fact["title"]>> ELSE <<>>
      [] v = "table" -> IF Exists("paper", table)
                        THEN <<fact["title"], Flag(fact["evidence"] # 0)>> ELSE <<>>
      [] v = "home" -> <<Flag(Exists("paper", table)), Flag(Exists("direction", table)),
                         Flag(Exists("question", table)), Flag(Exists("synthesis", table)),
                         Flag(table)>>
Drafts(table) ==
    [v \in View |-> IF Exists(v, table)
                    THEN [mark |-> MarkOf(v, table), shows |-> Shows(v, table)] ELSE Nothing]
\* The watermark of a projection: which views there are, and their marks.
Watermark(table) == [v \in View |-> IF Exists(v, table) THEN MarkOf(v, table) ELSE Nothing]

-----------------------------------------------------------------------------
(* _inspect_active: a root with anything in it but generations needs its     *)
(* manifest, a manifest its generation.                                      *)
ViewsReadable == IF manifest = Nothing THEN ~litter ELSE ~lost
Edited(found, active) ==
    IF active = Nothing THEN {}
    ELSE {v \in View : found[v] # (IF active.entries[v] = Nothing THEN Absent ELSE Intact)}
Expected(table) == [watermark |-> Watermark(table), manifest |-> manifest, pages |-> pages]
\* Entries that differ from the drafts; an edited page always differs.
Differs(table) ==
    manifest # Nothing =>
      \/ Edited(pages, manifest) # {}
      \/ \E v \in View : IF Exists(v, table)
           THEN manifest.entries[v] # Nothing => manifest.entries[v].mark # MarkOf(v, table)
           ELSE manifest.entries[v] # Nothing

\* Preview, and the request made of it; only the user may discard edits.
Preview(c, table, discard) ==
    /\ render[c] = Nothing /\ ViewsReadable
    /\ render' = [render EXCEPT ![c] =
         [at |-> "previewed", table |-> table, discard |-> discard,
          expected |-> Expected(table), entries |-> Nothing, kept |-> {}, pages |-> NoPages]]
    /\ UNCHANGED <<Records, Projected, slips>>

AtStage(c, phase) == render[c] # Nothing /\ render[c].at = phase
LockFree == \A c \in Renderer : render[c] = Nothing \/ AtStage(c, "previewed")
(* Under the workspace lock, which keeps the records as they are: the        *)
(* preview is made again and must be the one requested.                      *)
Confirmed(c) ==
    /\ ViewsReadable /\ render[c].expected = Expected(render[c].table)
    /\ render[c].discard \/ Edited(pages, manifest) = {}
Confirm(c) ==
    /\ AtStage(c, "previewed") /\ LockFree /\ Confirmed(c) /\ Differs(render[c].table)
    /\ render' = [render EXCEPT ![c].at = "confirmed"]
    /\ UNCHANGED <<Records, Projected, slips>>
RefuseRender(c) ==
    /\ AtStage(c, "previewed") /\ LockFree
    /\ ~Confirmed(c) \/ ~Differs(render[c].table)
    /\ render' = [render EXCEPT ![c] = Nothing]
    /\ UNCHANGED <<Records, Projected, slips>>

(* _materialize_manifest, from a second inspection.  Of an entry with the    *)
(* same mark the bytes are kept, unless edits are to be discarded.           *)
KeepsMarked(c, v) ==  \* Mutation: edited pages are kept as well.
    /\ manifest # Nothing /\ manifest.entries[v] # Nothing /\ Exists(v, render[c].table)
    /\ manifest.entries[v].mark = MarkOf(v, render[c].table)
Keeps(c, v) ==
    /\ manifest # Nothing /\ manifest.entries[v] # Nothing /\ Exists(v, render[c].table)
    /\ ~(render[c].discard /\ Edited(pages, manifest) # {})
    /\ manifest.entries[v].mark = MarkOf(v, render[c].table)
    /\ v \notin Edited(pages, manifest)
Plan(c) ==
    /\ AtStage(c, "confirmed") /\ ViewsReadable
    /\ LET table == render[c].table
           kept == {v \in View : Keeps(c, v)}
       IN render' = [render EXCEPT ![c].at = "planned", ![c].kept = kept, ![c].entries =
            [v \in View |-> IF v \in kept THEN manifest.entries[v] ELSE Drafts(table)[v]]]
    /\ UNCHANGED <<Records, Projected, slips>>
(* Kept bytes are read now and, whatever they are, written to the generation *)
(* that is then renamed into place.                                          *)
Stage(c) ==
    /\ AtStage(c, "planned") /\ \A v \in render[c].kept : pages[v] # Absent
    /\ render' = [render EXCEPT ![c].at = "staged", ![c].pages =
         [v \in View |-> IF render[c].entries[v] = Nothing THEN Absent
                         ELSE IF v \in render[c].kept THEN pages[v] ELSE Intact]]
    /\ UNCHANGED <<Records, Projected, slips>>
Activate(c) ==
    /\ AtStage(c, "staged")
    /\ manifest' = [table |-> render[c].table, entries |-> render[c].entries]
    /\ pages' = render[c].pages /\ lost' = FALSE
    /\ render' = [render EXCEPT ![c] = Nothing]
    /\ UNCHANGED <<Records, litter, slips>>

Broken(c) == \/ AtStage(c, "confirmed") /\ ~ViewsReadable
             \/ AtStage(c, "planned") /\ \E v \in render[c].kept : pages[v] = Absent
(* What fails takes its staging directory and its temporary files away; a    *)
(* death leaves them, the temporary manifest also.                           *)
FailRender(c) ==
    /\ render[c] # Nothing
    /\ IF Broken(c) THEN UNCHANGED slips ELSE slips < MaxFaults /\ slips' = slips + 1
    /\ render' = [render EXCEPT ![c] = Nothing]
    /\ UNCHANGED <<Records, Projected>>
DieRendering(c) ==
    /\ render[c] # Nothing /\ slips < MaxFaults /\ slips' = slips + 1
    /\ litter' \in {litter} \cup (IF AtStage(c, "staged") THEN {TRUE} ELSE {})
    /\ render' = [render EXCEPT ![c] = Nothing]
    /\ UNCHANGED <<Records, manifest, pages, lost>>

-----------------------------------------------------------------------------
(* Promotions of the records, under the workspace lock: one is made or       *)
(* rewritten; another writing of the card may leave its unit alone.          *)
Touch(kinds) == /\ changes < MaxChanges /\ changes' = changes + 1
                /\ fact' = [k \in Fact |-> IF k \in kinds THEN changes + 1 ELSE fact[k]]
Promote ==
    /\ LockFree
    /\ \/ Touch({"title"}) /\ UNCHANGED tagged
       \/ Touch({"card", "unit"}) /\ UNCHANGED tagged
       \/ fact["card"] # 0 /\ (Touch({"card"}) \/ Touch({"evidence"})) /\ UNCHANGED tagged
       \/ fact["card"] # 0 /\ (Touch({"direction"}) \/ Touch({"question"})) /\ UNCHANGED tagged
       \/ fact["question"] # 0 /\ Touch({"candidate"}) /\ UNCHANGED tagged
       \/ fact["tag"] # 0 /\ Touch({"tag"}) /\ UNCHANGED tagged
       \/ Touch({"link"} \cup (IF fact["tag"] = 0 THEN {"tag"} ELSE {})) /\ tagged' = ~tagged
    /\ UNCHANGED <<Projected, render, slips>>

\* The user edits, adds or removes a page, or removes the whole projection.
EditPage ==
    /\ manifest # Nothing /\ ~lost /\ slips < MaxFaults /\ slips' = slips + 1
    /\ \E v \in View, page \in {Absent, slips + 2} :
        pages[v] # page /\ pages' = [pages EXCEPT ![v] = page]
    /\ UNCHANGED <<Records, manifest, litter, lost, render>>
DiscardViews ==
    /\ manifest # Nothing /\ slips < MaxFaults /\ slips' = slips + 1
    /\ manifest' = Nothing /\ pages' = NoPages /\ litter' = FALSE /\ lost' = FALSE
    /\ UNCHANGED <<Records, render>>
RemoveGeneration ==
    /\ manifest # Nothing /\ ~lost /\ slips < MaxFaults /\ slips' = slips + 1
    /\ lost' = TRUE /\ pages' = NoPages /\ UNCHANGED <<Records, manifest, litter, render>>

ViewsInit ==
    /\ \/ fact = [k \in Fact |-> Flag(k = "title")] /\ tagged = FALSE
       \/ fact = [k \in Fact |-> 1] /\ tagged \in BOOLEAN
    /\ changes = 1 /\ manifest = Nothing /\ pages = NoPages /\ litter = FALSE /\ lost = FALSE
    /\ render = [c \in Renderer |-> Nothing] /\ slips = 0
RenderStep(c) == Confirm(c) \/ RefuseRender(c) \/ Plan(c) \/ Stage(c) \/ Activate(c)
                 \/ (Broken(c) /\ FailRender(c))
\* A user who renders what the preview shows, and discards the edits it shows.
PreviewAsShown(c) ==
    \E table \in BOOLEAN : Preview(c, table, Edited(pages, manifest) # {})
ViewsNext ==
    \/ \E c \in Renderer :
        \/ \E table, discard \in BOOLEAN : Preview(c, table, discard)
        \/ Confirm(c) \/ RefuseRender(c) \/ Plan(c) \/ Stage(c) \/ Activate(c)
        \/ FailRender(c) \/ DieRendering(c)
    \/ Promote \/ EditPage \/ DiscardViews \/ RemoveGeneration
(* A call that has begun goes on, and someone renders what there is to see   *)
(* again and again.                                                          *)
ViewsFairness ==
    \A c \in Renderer :
        WF_viewsVars(RenderStep(c)) /\ SF_viewsVars(PreviewAsShown(c))
ViewsSpec == ViewsInit /\ [][ViewsNext]_viewsVars /\ ViewsFairness

-----------------------------------------------------------------------------
(* A view whose entry has the digests of its records as they are, and which  *)
(* status therefore calls current, shows what those records say: nothing a   *)
(* page shows can change behind its dependencies.                            *)
CurrentViewsAreTrue ==
    manifest # Nothing => \A v \in View :
        manifest.entries[v] # Nothing /\ Exists(v, manifest.table)
        /\ manifest.entries[v].mark = MarkOf(v, manifest.table)
            => manifest.entries[v].shows = Shows(v, manifest.table)

(* When records and files are no longer changed, the projection becomes the  *)
(* current one, with every page as rendered, whatever edits, deaths and      *)
(* renders came in between, unless _inspect_active cannot pass: a first      *)
(* render died with its temporary manifest, or the user has removed the      *)
(* active generation.                                                        *)
ViewsCurrent == /\ manifest # Nothing /\ Edited(pages, manifest) = {}
                /\ manifest.entries = Drafts(manifest.table)
ViewsConverge == <>[](ViewsCurrent \/ ~ViewsReadable)

(* docs/p9-obsidian-generated-views-implementation-plan.md:78: "A crash      *)
(* before the manifest replacement leaves at most an unreferenced generated  *)
(* directory": what can still be rendered.                                   *)
CrashLeavesItRenderable == ViewsReadable \/ lost
=============================================================================
