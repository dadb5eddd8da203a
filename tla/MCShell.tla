------------------------------- MODULE MCShell -------------------------------
(***************************************************************************)
(* The parts of the browser shell for TLC, one at a time (part).           *)
(***************************************************************************)
EXTENDS AppNet, AppShell, Widgets, Filters

VARIABLE part

ShellHashes == [page : {"home", "perf", "lab"}, legacy : {FALSE}] \union {[page |-> "lab", legacy |-> TRUE]}
PanelCorners == ("liveFeed" :> "bl") @@ ("liveLegend" :> "br") @@ ("liveNodeDetail" :> "tr")
ShellTabs == <<"home", "packets", "live">>
ShellLinks == <<"home", "map", "lab", "perf", "tools">>
BoxSuggests == ("" :> 13) @@ ("a" :> 2) @@ ("b" :> 0)
BoxBuiltin == <<"one">>
shellAllVars == <<apiVars, allNodesVars, sockVars, logoVars, wsVars, shellVars, searchVars, pullVars, themeVars, menuVars, panelVars, touchVars, hintVars, filterVars, areaVars, boxVars, wbVars, part>>

MCShellInit ==
    /\ part \in {"api", "all", "sock", "logo", "ws", "nav", "search", "pull", "theme", "menus", "panels", "touch", "hints", "region", "area", "box", "warm"}
    /\ ApiInit /\ SockInit /\ LogoInit /\ WsInit /\ SearchInit /\ PullInit /\ ThemeInit /\ TouchInit
    /\ AllNodesInit /\ (part # "all" => order = SetToSeq(Listed))
    /\ ShellInit /\ (part # "nav" => room = Narrow)
    /\ MenuInit /\ (part # "menus" => mnWidth = "wide")
    /\ PanelInit /\ (part # "panels" => pnStored = {} /\ pnEnabled)
    /\ HintInit /\ (part # "hints" => ghRoute = "live" /\ ~ghNarrow)
    /\ FilterInit /\ (part # "region" => rgStored = {} /\ rgServer = RgCodes)
    /\ AreaInit /\ (part # "area" => arStored = "" /\ arServer = RgCodes)
    /\ FilterBoxInit
    /\ WarmInit /\ (part # "warm" => wbServer = 3)

Rest(p) ==
    /\ UNCHANGED part
    /\ IF p = "api" THEN TRUE ELSE UNCHANGED apiVars
    /\ IF p = "all" THEN TRUE ELSE UNCHANGED allNodesVars
    /\ IF p = "sock" THEN TRUE ELSE UNCHANGED sockVars
    /\ IF p = "logo" THEN TRUE ELSE UNCHANGED logoVars
    /\ IF p = "ws" THEN TRUE ELSE UNCHANGED wsVars
    /\ IF p = "nav" THEN TRUE ELSE UNCHANGED shellVars
    /\ IF p = "search" THEN TRUE ELSE UNCHANGED searchVars
    /\ IF p = "pull" THEN TRUE ELSE UNCHANGED pullVars
    /\ IF p = "theme" THEN TRUE ELSE UNCHANGED themeVars
    /\ IF p = "menus" THEN TRUE ELSE UNCHANGED menuVars
    /\ IF p = "panels" THEN TRUE ELSE UNCHANGED panelVars
    /\ IF p = "touch" THEN TRUE ELSE UNCHANGED touchVars
    /\ IF p = "hints" THEN TRUE ELSE UNCHANGED hintVars
    /\ IF p = "region" THEN TRUE ELSE UNCHANGED filterVars
    /\ IF p = "area" THEN TRUE ELSE UNCHANGED areaVars
    /\ IF p = "box" THEN TRUE ELSE UNCHANGED boxVars
    /\ IF p = "warm" THEN TRUE ELSE UNCHANGED wbVars

MCShellNext ==
    \/ part = "api" /\ ApiNext /\ Rest("api")
    \/ part = "all" /\ AllNodesNext /\ Rest("all")
    \/ part = "sock" /\ SockNext /\ Rest("sock")
    \/ part = "logo" /\ LogoNext /\ Rest("logo")
    \/ part = "ws" /\ WsNext /\ Rest("ws")
    \/ part = "nav" /\ ShellNext /\ Rest("nav")
    \/ part = "search" /\ SearchNext /\ Rest("search")
    \/ part = "pull" /\ PullNext /\ Rest("pull")
    \/ part = "theme" /\ ThemeNext /\ Rest("theme")
    \/ part = "menus" /\ MenuNext /\ Rest("menus")
    \/ part = "panels" /\ PanelNext /\ Rest("panels")
    \/ part = "touch" /\ TouchNext /\ Rest("touch")
    \/ part = "hints" /\ HintNext /\ Rest("hints")
    \/ part = "region" /\ FilterNext /\ Rest("region")
    \/ part = "area" /\ AreaNext /\ Rest("area")
    \/ part = "box" /\ FilterBoxNext /\ Rest("box")
    \/ part = "warm" /\ WarmNext /\ Rest("warm")

(* Timers fire and requests end; what the user does is not fair. *)
MCShellFairness ==
    /\ WF_apiVars(part = "api" /\ Timeouts) /\ WF_apiVars(part = "api" /\ (FetchEnds \/ Answers503))
    /\ WF_searchVars(part = "search" /\ searchTimeout) /\ WF_searchVars(part = "search" /\ SearchAnswers)
    /\ WF_wbVars(part = "warm" /\ pollOnce /\ Rest("warm")) /\ WF_wbVars(part = "warm" /\ (pollHeader \/ pollBody) /\ Rest("warm"))
    /\ \A v \in {"loading", "ready"} : WF_wbVars(part = "warm" /\ installFetchInterceptor(v) /\ Rest("warm"))
    /\ WF_themeVars(part = "theme" /\ StorageEvents)

MCShellSpec == MCShellInit /\ [][MCShellNext]_shellAllVars /\ MCShellFairness

(* The variables of every part have their types. *)
ShellTypeOK == ApiTypeOK /\ SockTypeOK

(* Requests and searches end, tabs fall silent, and no step takes back what
   the user meant: back, pull, focus and scroll. *)
ShellProgress ==
    /\ FetchesEnd
    /\ WarmupEnds
    /\ SearchIsAnswered
    /\ TabsFallSilent
    /\ DstInItsGeneration
    /\ BackGetsBack
    /\ PullIsMeant
    /\ FocusReturns
    /\ ScrollIsNoDismiss
==============================================================================
