------------------------------ MODULE Services ------------------------------
(***************************************************************************)
(* The services that are modelled each by itself: an investigation, the    *)
(* content it reports, the watchlist, the rate limiter, a username search, *)
(* Telegram searches, a report, the graph view and the timeline.  A        *)
(* behaviour is a behaviour of one of them; the others stay where they     *)
(* start.                                                                  *)
(***************************************************************************)
EXTENDS Investigations, Watchlist, RateLimiter, UsernameOsint, TelegramSearch, Reports,
        GraphView, Footprint, Timeline

VARIABLE service       \* the service that moves

ServiceNames == {"investigation", "watchlist", "limiter", "osint", "telegram", "report", "view",
                 "footprint", "timeline"}

servicesVars == <<service, vars, watchVars, rateVars, osintVars, searchVars, reportVars, viewVars,
                  footVars, timelineVars>>

(* Types of the services (the row and record types named there).           *)
ServicesTypeOK == /\ service \in ServiceNames
                  /\ TypeOK /\ WatchTypeOK /\ RateTypeOK /\ OsintTypeOK /\ SearchTypeOK
                  /\ ReportsTypeOK /\ ViewTypeOK /\ FootTypeOK /\ TimelineTypeOK

(* Only the service that moves starts in all of its initial states.        *)
ServicesInit ==
    /\ service \in ServiceNames
    /\ Init /\ WatchInit /\ OsintInit
    /\ RateInit /\ (service # "limiter" => bucket = "bot")
    /\ ReportsInit /\ (service # "report" => hasTarget)
    /\ ViewInit /\ (service # "view" => graph = {})
    /\ SearchInit /\ FootInit
    /\ TimelineInit
    /\ service # "telegram" => \A e \in Entities : type[e] = "account" /\ holds[e] = NoKey

ServicesNext ==
    /\ UNCHANGED service
    /\ \/ /\ service = "investigation" /\ Next
          /\ UNCHANGED <<watchVars, rateVars, osintVars, searchVars, reportVars,
                         viewVars, footVars, timelineVars>>
       \/ /\ service = "watchlist" /\ WatchNext
          /\ UNCHANGED <<vars, rateVars, osintVars, searchVars, reportVars,
                         viewVars, footVars, timelineVars>>
       \/ /\ service = "limiter" /\ RateNext
          /\ UNCHANGED <<vars, watchVars, osintVars, searchVars, reportVars,
                         viewVars, footVars, timelineVars>>
       \/ /\ service = "osint" /\ OsintNext
          /\ UNCHANGED <<vars, watchVars, rateVars, searchVars, reportVars,
                         viewVars, footVars, timelineVars>>
       \/ /\ service = "telegram" /\ SearchNext
          /\ UNCHANGED <<vars, watchVars, rateVars, osintVars, reportVars,
                         viewVars, footVars, timelineVars>>
       \/ /\ service = "report" /\ ReportsNext
          /\ UNCHANGED <<vars, watchVars, rateVars, osintVars, searchVars,
                         viewVars, footVars, timelineVars>>
       \/ /\ service = "view" /\ ViewNext
          /\ UNCHANGED <<vars, watchVars, rateVars, osintVars, searchVars,
                         reportVars, footVars, timelineVars>>
       \/ /\ service = "footprint" /\ FootNext
          /\ UNCHANGED <<vars, watchVars, rateVars, osintVars, searchVars,
                         reportVars, viewVars, timelineVars>>
       \/ /\ service = "timeline" /\ TimelineNext
          /\ UNCHANGED <<vars, watchVars, rateVars, osintVars, searchVars,
                         reportVars, viewVars, footVars>>

ServicesSpec == ServicesInit /\ [][ServicesNext]_servicesVars
-----------------------------------------------------------------------------
(* Properties of two of the services together                              *)

(* An investigation accounts for itself: its report is there, its          *)
(* observations are stored once, and what the report counts and concludes  *)
(* follows from them, however often it was tried (run_investigation,       *)
(* InvestigationService.run, build_investigation_content).                 *)
InvestigationAccounts ==
    LinkedReportExists /\ ObservedOnce /\ ReportAccounts /\ OverallBacked

(* The two views assembled by several selects leave out nothing without    *)
(* saying so, while rows are committed in between (GraphService._bfs,      *)
(* TimelineService._build).                                                *)
ViewsHonest == ViewIsNeighbourhood /\ TimelineHonest
=============================================================================
