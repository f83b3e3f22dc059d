------------------------------ MODULE MCResearch ------------------------------
(* The scientific half of a workspace: what the user organizes, the records  *)
(* of a paper and what follows from them, found papers, the projections of   *)
(* all that, and proposals of agents for it.  Each is explored on its own: a *)
(* behaviour moves the component of one area only, and the others stay as    *)
(* one start of theirs.                                                      *)
EXTENDS ResearchOrganization, Catalog, CanonicalRecords, DiscoveryAcquisition, GeneratedViews,
        ProposalTask
VARIABLE area
Areas == {"organization", "catalog", "records", "discovery", "views", "proposals"}
researchVars ==
    <<organizationVars, catalogVars, recordsVars, discoveryVars, viewsVars, proposalVars, area>>

ResearchInit ==
    /\ OrganizationInit /\ CatalogInit /\ RecordsInit /\ DiscoveryInit /\ ViewsInit
    /\ ProposalInit
    /\ area \in Areas
    /\ area # "organization" => topic = "tags" /\ bundle["mapping"] # <<>>
    /\ area # "catalog" => database = Nothing
    /\ area # "records" => record["card"] = Nothing
    /\ area # "views" => fact["card"] = 0
    /\ area # "proposals" => library["decision"] # <<>>

ResearchNext ==
    /\ UNCHANGED area
    /\ area # "organization" => UNCHANGED organizationVars
    /\ area # "catalog" => UNCHANGED catalogVars
    /\ area # "records" => UNCHANGED recordsVars
    /\ area # "discovery" => UNCHANGED discoveryVars
    /\ area # "views" => UNCHANGED viewsVars
    /\ area # "proposals" => UNCHANGED proposalVars
    /\ CASE area = "organization" -> OrganizationNext
         [] area = "catalog" -> CatalogNext
         [] area = "records" -> RecordsNext
         [] area = "discovery" -> DiscoveryNext
         [] area = "views" -> ViewsNext
         [] area = "proposals" -> ProposalNext

(* CatalogFairness, ViewsFairness and ProposalFairness, each asked of the    *)
(* behaviours in its area.                                                   *)
ResearchFairness ==
    /\ \A s \in Session : WF_catalogVars(area = "catalog" /\ UpdateStep(s))
    /\ \A c \in Renderer :
        /\ WF_viewsVars(area = "views" /\ RenderStep(c))
        /\ SF_viewsVars(area = "views" /\ PreviewAsShown(c))
    /\ \A c \in Reviewer : WF_proposalVars(area = "proposals" /\ ApprovalStep(c))
    /\ \A t \in Proposal :
        WF_proposalVars(area = "proposals" /\ \E c \in Reviewer : BeginApproval(c, t))
ResearchSpec == ResearchInit /\ [][ResearchNext]_researchVars /\ ResearchFairness

\* Every variable of the six components keeps its type.
ResearchTypeOK ==
    /\ OrganizationTypeOK /\ CatalogTypeOK /\ RecordsTypeOK /\ DiscoveryTypeOK /\ ViewsTypeOK
    /\ ProposalTypeOK

(* What a projection of the records says of itself is true: a view that is   *)
(* called current shows what the records say, and the catalog's rows have    *)
(* the facets of its watermark, however updates overlap.                     *)
ProjectionsAreTrue == CurrentViewsAreTrue /\ UpdatesKeepItReadable

(* Whatever overlapped, failed or was edited before, the projections of the  *)
(* library come to show the records as they are, once those stay as they     *)
(* are, short of the states that CatalogConverges and ViewsConverge name.    *)
ProjectionsConverge ==
    /\ area = "catalog" => CatalogConverges
    /\ area = "views" => ViewsConverge

(* See CommittedProposalsSettle: what an agent proposed and the user has     *)
(* approved does not remain undecided once it is in the library.             *)
ProposalsSettle == area = "proposals" => CommittedProposalsSettle
===============================================================================
