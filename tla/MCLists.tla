------------------------------- MODULE MCLists -------------------------------
(***************************************************************************)
(* The parts of the packets page, of the channels page and of the          *)
(* customizer for TLC, one at a time (part).                               *)
(***************************************************************************)
EXTENDS PktPanels, PktList, PktFilters, PktDetail, ChanView, ChanPanel, Customizer

VARIABLE part

PktPrio == <<1, 3, 4, 6>>
listsAllVars ==
    <<fitVars, slideVars, rowVars, listVars, filterVars, colVars, sortVars, tableVars, detailVars,
      groupVars, byteVars, chanVars, keyVars, cacheVars, knownVars, panelVars, pickVars, modalVars,
      scanVars, custVars, roleVars, geoVars, part>>

MCListsInit ==
    /\ part \in {"fit", "slide", "rows", "list", "filters", "cols", "sort", "table", "detail", "groups", "bytes",
                "chan", "keys", "cache", "known", "panel", "pick", "modals", "scan", "cust", "roles", "geo"}
    /\ FitInit /\ (part # "fit" => vw = Min(Widths))
    /\ SlideInit /\ RowInit /\ ListInit
    /\ FilterInit /\ (part # "filters" => filters = NoFilters)
    /\ ColInit /\ (part # "cols" => narrow = FALSE)
    /\ IF part = "sort" THEN SortInit
       ELSE childs = <<[obs |-> CHOOSE o \in Obs : TRUE, t |-> 1, hops |-> 0]>> /\ sortMode = "observer" /\ sortedYet = FALSE
    /\ IF part = "table" THEN TableInit
       ELSE tableRows = [i \in 1..3 |-> [v |-> 0, t |-> 1]] /\ sortDir = 1 /\ tableSorted = FALSE
    /\ DetailInit /\ (part # "detail" => surface = "side")
    /\ GroupInit /\ (part # "groups" => gMode = "observer")
    /\ IF part = "bytes" THEN ByteInit
       ELSE raw = [bytes |-> 1, transport |-> FALSE, size |-> 1, count |-> 0, advert |-> FALSE, loc |-> FALSE, feat |-> 0, name |-> FALSE]
            /\ byteRanges = <<>> /\ fieldRows = <<>>
    /\ ChanInit
    /\ KeyInit /\ (part # "keys" => storedKeys = NoKeys)
    /\ CacheInit /\ (part # "cache" => opened = {})
    /\ KnownInit /\ (part # "known" => ~knownOpen /\ ~knownDown)
    /\ PanelInit
    /\ PickInit
    /\ ModalInit
    /\ ScanInit
    /\ CustInit /\ (part # "cust" => ~full /\ legacy = None /\ stored = None)
    /\ RoleInit
    /\ GeoInit /\ (part # "geo" => outside = {})

Rest(p) ==
    /\ UNCHANGED part
    /\ IF p = "fit" THEN TRUE ELSE UNCHANGED fitVars
    /\ IF p = "slide" THEN TRUE ELSE UNCHANGED slideVars
    /\ IF p = "rows" THEN TRUE ELSE UNCHANGED rowVars
    /\ IF p = "list" THEN TRUE ELSE UNCHANGED listVars
    /\ IF p = "filters" THEN TRUE ELSE UNCHANGED filterVars
    /\ IF p = "cols" THEN TRUE ELSE UNCHANGED colVars
    /\ IF p = "sort" THEN TRUE ELSE UNCHANGED sortVars
    /\ IF p = "table" THEN TRUE ELSE UNCHANGED tableVars
    /\ IF p = "detail" THEN TRUE ELSE UNCHANGED detailVars
    /\ IF p = "groups" THEN TRUE ELSE UNCHANGED groupVars
    /\ IF p = "bytes" THEN TRUE ELSE UNCHANGED byteVars
    /\ IF p = "chan" THEN TRUE ELSE UNCHANGED chanVars
    /\ IF p = "keys" THEN TRUE ELSE UNCHANGED keyVars
    /\ IF p = "cache" THEN TRUE ELSE UNCHANGED cacheVars
    /\ IF p = "known" THEN TRUE ELSE UNCHANGED knownVars
    /\ IF p = "panel" THEN TRUE ELSE UNCHANGED panelVars
    /\ IF p = "pick" THEN TRUE ELSE UNCHANGED pickVars
    /\ IF p = "modals" THEN TRUE ELSE UNCHANGED modalVars
    /\ IF p = "scan" THEN TRUE ELSE UNCHANGED scanVars
    /\ IF p = "cust" THEN TRUE ELSE UNCHANGED custVars
    /\ IF p = "roles" THEN TRUE ELSE UNCHANGED roleVars
    /\ IF p = "geo" THEN TRUE ELSE UNCHANGED geoVars

MCListsNext ==
    \/ part = "fit" /\ FitNext /\ Rest("fit")
    \/ part = "slide" /\ SlideNext /\ Rest("slide")
    \/ part = "rows" /\ RowNext /\ Rest("rows")
    \/ part = "list" /\ ListNext /\ Rest("list")
    \/ part = "filters" /\ FilterNext /\ Rest("filters")
    \/ part = "cols" /\ ColNext /\ Rest("cols")
    \/ part = "sort" /\ SortNext /\ Rest("sort")
    \/ part = "table" /\ TableNext /\ Rest("table")
    \/ part = "detail" /\ DetailNext /\ Rest("detail")
    \/ part = "groups" /\ GroupNext /\ Rest("groups")
    \/ part = "bytes" /\ ByteNext /\ Rest("bytes")
    \/ part = "chan" /\ ChanNext /\ Rest("chan")
    \/ part = "keys" /\ KeyNext /\ Rest("keys")
    \/ part = "cache" /\ CacheNext /\ Rest("cache")
    \/ part = "known" /\ KnownNext /\ Rest("known")
    \/ part = "panel" /\ PanelNext /\ Rest("panel")
    \/ part = "pick" /\ PickNext /\ Rest("pick")
    \/ part = "modals" /\ ModalNext /\ Rest("modals")
    \/ part = "scan" /\ ScanNext /\ Rest("scan")
    \/ part = "cust" /\ CustNext /\ Rest("cust")
    \/ part = "roles" /\ RoleNext /\ Rest("roles")
    \/ part = "geo" /\ GeoNext /\ Rest("geo")

MCListsSpec == MCListsInit /\ [][MCListsNext]_listsAllVars

(* The messages shown are those of the selected channel, none lost and none
   twice, and the sidebar follows the stored keys. *)
ChannelsExact ==
    /\ NoLiveLost
    /\ NoDup
    /\ MessagesOfSelected
    /\ RegionSettled
    /\ MapOfStoredKeys
    /\ RowForEveryKey
    /\ MineHasKey
    /\ SidebarCurrent
    /\ AllDecrypted
    /\ OneCatalogueLoad
==============================================================================
